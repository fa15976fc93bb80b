---------------------------- MODULE SerialProofs ----------------------------
(***************************************************************************)
(* Proofs about the transmission over COM1, for any set of printing tasks, *)
(* any bound of the queue and any number of characters: its types, and     *)
(* that the transmission never stops on a queue that is not empty.  Until  *)
(* two tasks have found the port writable at once: that the transmitter is *)
(* never written while it is busy, that no character is lost before the    *)
(* queue overflows, and that the order is kept even then.                  *)
(***************************************************************************)
EXTENDS SerialPort, SequenceTheorems, TLAPS

(* Where a task has cleared COM_WRITABLE and not yet called outb(), and    *)
(* where it has seen the flag.                                             *)
Owning == {"CLEARED", "DEQUEUE", "OUT", "NULL"}

Using == Owning \cup {"WRITABLE"}

(* Whoever has seen the port writable is alone with an idle transmitter    *)
(* until its outb(), unless another task has seen it as well.              *)
PortOwned ==
  ~raced =>
    /\ com1_writable => uart.state = "EMPTY"
    /\ \A t \in Writer :
         /\ pc[t] = "WRITABLE" => com1_writable
         /\ pc[t] \in Owning => uart.state = "EMPTY" /\ ~com1_writable
         /\ pc[t] \in Using => \A u \in Writer \ {t} : pc[u] \notin Using

LEMMA TypesStart == Init => TypeOK
<1> SUFFICES ASSUME Init  PROVE TypeOK
  OBVIOUS
<1>1. 0 \in Character /\ GARBAGE = 0
  BY SerialAssumption DEF Character, GARBAGE
<1>2. pc \in [Writer -> Steps]
  BY DEF Init, Steps
<1>3. << >> \in Seq(Character)
  OBVIOUS
<1>4. uart \in [state : {"EMPTY", "BUSY", "INTERRUPT"}, data : Character]
  BY <1>1 DEF Init
<1>5. QED
  BY <1>1, <1>2, <1>3, <1>4 DEF Init, TypeOK

LEMMA NextTypes == TypeOK /\ [Next]_vars => TypeOK'
<1> SUFFICES ASSUME TypeOK, [Next]_vars  PROVE TypeOK'
  OBVIOUS
<1>0. /\ com1_transmission_queue \in Seq(Character) /\ io \in Character
      /\ com1_writable \in BOOLEAN /\ pc \in [Writer -> Steps]
      /\ uart \in [state : {"EMPTY", "BUSY", "INTERRUPT"}, data : Character]
      /\ written \in Character /\ line \in Seq(Character)
      /\ overflowed \in BOOLEAN /\ raced \in BOOLEAN /\ wild \in BOOLEAN
      /\ GARBAGE \in Character /\ MaxWritten \in Nat
  BY SerialAssumption DEF TypeOK, Character, GARBAGE
<1>1. CASE UNCHANGED vars
  BY <1>1 DEF vars, TypeOK
<1>2. ASSUME NEW t \in Writer, Enqueue(t)  PROVE TypeOK'
  <2>1. written' = written + 1 /\ written < MaxWritten
    BY <1>2 DEF Enqueue
  <2>2. written' \in Character
    BY <1>0, <2>1 DEF Character
  <2>3. com1_transmission_queue' \in Seq(Character)
    BY <1>0, <1>2, <2>2 DEF Enqueue, queue
  <2>4. pc' \in [Writer -> Steps]
    BY <1>0, <1>2 DEF Enqueue, Goes, Steps
  <2>5. QED
    BY <1>0, <1>2, <2>2, <2>3, <2>4 DEF Enqueue, TypeOK
<1>3. ASSUME NEW t \in Writer, TestWritable(t) \/ TestHead(t) \/ TestDiscarded(t)
      PROVE  TypeOK'
  <2>1. pc' \in [Writer -> Steps]
    BY <1>0, <1>3 DEF TestWritable, TestHead, TestDiscarded, Goes, Steps
  <2>2. raced' \in BOOLEAN
    BY <1>0, <1>3 DEF TestWritable, TestHead, TestDiscarded, Races
  <2>3. QED
    BY <1>0, <1>3, <2>1, <2>2 DEF TestWritable, TestHead, TestDiscarded, TypeOK
<1>4. ASSUME NEW t \in Writer, ClearWritable(t)  PROVE TypeOK'
  BY <1>0, <1>4 DEF ClearWritable, Goes, TypeOK, Steps
<1>5. ASSUME NEW t \in Writer, Dequeue(t)  PROVE TypeOK'
  <2>1. pc' \in [Writer -> Steps]
    BY <1>0, <1>5 DEF Dequeue, Goes, Steps
  <2>2. /\ io' \in Character /\ com1_transmission_queue' \in Seq(Character)
        /\ wild' \in BOOLEAN
    <3>1. CASE queue = << >>
      BY <1>0, <1>5, <3>1 DEF Dequeue
    <3>2. CASE queue # << >>
      <4>1. Head(queue) \in Character /\ Tail(queue) \in Seq(Character)
        BY <1>0, <3>2 DEF queue
      <4>2. QED
        BY <1>0, <1>5, <3>2, <4>1 DEF Dequeue
    <3>3. QED
      BY <3>1, <3>2
  <2>3. QED
    BY <1>0, <1>5, <2>1, <2>2 DEF Dequeue, TypeOK
<1>6. ASSUME NEW t \in Writer, Output(t)  PROVE TypeOK'
  <2>1. pc' \in [Writer -> Steps]
    BY <1>0, <1>6 DEF Output, Goes, Steps
  <2>2. uart' \in [state : {"EMPTY", "BUSY", "INTERRUPT"}, data : Character]
    BY <1>0, <1>6 DEF Output
  <2>3. QED
    BY <1>0, <1>6, <2>1, <2>2 DEF Output, TypeOK
<1>7. ASSUME NEW t \in Writer, CheckLength(t)  PROVE TypeOK'
  <2>1. pc' \in [Writer -> Steps] /\ overflowed' \in BOOLEAN
    BY <1>0, <1>7 DEF CheckLength, Goes, Steps
  <2>2. QED
    BY <1>0, <1>7, <2>1 DEF CheckLength, TypeOK
<1>8. CASE Transmit
  <2>1. /\ uart' \in [state : {"EMPTY", "BUSY", "INTERRUPT"}, data : Character]
        /\ line' \in Seq(Character)
    BY <1>0, <1>8 DEF Transmit
  <2>2. QED
    BY <1>0, <1>8, <2>1 DEF Transmit, TypeOK
<1>9. CASE TransmitterEmptyInterrupt
  <2>1. /\ UNCHANGED <<pc, written, line, overflowed, raced, wild>>
        /\ Sends(Head(queue)) \/ SendsNothing(TRUE)
    BY <1>9 DEF TransmitterEmptyInterrupt, Interrupt
  <2>2. CASE Sends(Head(queue))
    <3>1. Head(queue) \in Character /\ Tail(queue) \in Seq(Character)
      BY <1>0, <2>2 DEF Sends, queue
    <3>2. QED
      BY <1>0, <2>1, <2>2, <3>1 DEF Sends, TypeOK
  <2>3. CASE SendsNothing(TRUE)
    BY <1>0, <2>1, <2>3 DEF SendsNothing, TypeOK
  <2>4. QED
    BY <2>1, <2>2, <2>3
<1>10. QED
  BY <1>1, <1>2, <1>3, <1>4, <1>5, <1>6, <1>7, <1>8, <1>9 DEF Next, PutChar

(* Every variable keeps its type, however many tasks print: what is sent   *)
(* and what is buffered is a character, or what was read through NULL.     *)
THEOREM SerialTypes == Spec => []TypeOK
BY TypesStart, NextTypes, PTL DEF Spec

(* What the step of a task does to the port, if no other task uses it.     *)
LEMMA StepOwned ==
  ASSUME TypeOK, PortOwned, ~raced, NEW t \in Writer, NEW to, pc' = [pc EXCEPT ![t] = to],
         com1_writable' => uart'.state = "EMPTY",
         to = "WRITABLE" => com1_writable',
         to \in Owning => uart'.state = "EMPTY" /\ ~com1_writable',
         to \in Using => \A u \in Writer \ {t} : pc[u] \notin Using,
         UNCHANGED <<com1_writable, uart>> \/ pc[t] \in Using
  PROVE  PortOwned'
<1>1. pc \in [Writer -> Steps]
  BY DEF TypeOK
<1>2. pc'[t] = to /\ \A u \in Writer \ {t} : pc'[u] = pc[u]
  BY <1>1
<1>3. ASSUME NEW u \in Writer \ {t}
      PROVE  /\ pc'[u] = "WRITABLE" => com1_writable'
             /\ pc'[u] \in Owning => uart'.state = "EMPTY" /\ ~com1_writable'
             /\ pc'[u] \in Using => \A v \in Writer \ {u} : pc'[v] \notin Using
  <2>1. pc'[u] = pc[u] /\ u \in Writer
    BY <1>2
  <2>2. CASE pc[u] \notin Using
    BY <2>1, <2>2 DEF Using
  <2>3. CASE pc[u] \in Using
    <3>1. pc[t] \notin Using /\ to \notin Using
      BY <2>3, <2>1 DEF PortOwned
    <3>2. UNCHANGED <<com1_writable, uart>>
      BY <3>1
    <3>3. \A v \in Writer \ {u} : pc'[v] \notin Using
      <4>1. \A v \in Writer \ {u} : pc[v] \notin Using
        BY <2>1, <2>3 DEF PortOwned
      <4>2. QED
        BY <1>2, <3>1, <4>1
    <3>4. QED
      BY <2>1, <3>2, <3>3 DEF PortOwned
  <2>4. QED
    BY <2>2, <2>3
<1>4. /\ pc'[t] = "WRITABLE" => com1_writable'
      /\ pc'[t] \in Owning => uart'.state = "EMPTY" /\ ~com1_writable'
      /\ pc'[t] \in Using => \A u \in Writer \ {t} : pc'[u] \notin Using
  BY <1>2
<1>5. QED
  BY <1>3, <1>4 DEF PortOwned

(* Two tasks that have seen COM_WRITABLE at once are remembered; and       *)
(* whoever has lost the way stops.                                         *)
LEMMA HistoryStays ==
  ASSUME TypeOK, Next  PROVE ~wild /\ (raced => raced')
<1>0. raced \in BOOLEAN
  BY DEF TypeOK
<1>1. ASSUME NEW t \in Writer, TestWritable(t)  PROVE ~wild /\ (raced => raced')
  BY <1>1 DEF TestWritable, Goes
<1>2. ASSUME NEW t \in Writer, Enqueue(t) \/ ClearWritable(t) \/ TestHead(t) \/ Output(t)
      PROVE  ~wild /\ raced' = raced
  BY <1>2 DEF Enqueue, ClearWritable, TestHead, Output, Goes
<1>3. ASSUME NEW t \in Writer, Dequeue(t) \/ CheckLength(t) \/ TestDiscarded(t)
      PROVE  ~wild /\ raced' = raced
  BY <1>3 DEF Dequeue, CheckLength, TestDiscarded, Goes
<1>4. CASE Transmit \/ TransmitterEmptyInterrupt
  <2>1. ~wild /\ raced' = raced
    BY <1>4 DEF Transmit, TransmitterEmptyInterrupt, Interrupt
  <2>2. QED
    BY <1>0, <2>1
<1>5. QED
  BY <1>0, <1>1, <1>2, <1>3, <1>4 DEF Next, PutChar

LEMMA NextOwned ==
  ASSUME TypeOK, PortOwned, [Next]_vars  PROVE PortOwned'
<1>1. CASE raced'
  BY <1>1 DEF PortOwned
<1> SUFFICES ASSUME ~raced'  PROVE PortOwned'
  BY <1>1
<1>2. CASE UNCHANGED vars
  BY <1>2 DEF vars, PortOwned
<1>3. ~raced
  <2>1. CASE UNCHANGED vars
    <3>1. raced' = raced
      BY <2>1 DEF vars
    <3>2. QED
      BY <3>1 DEF TypeOK
  <2>2. QED
    BY <2>1, HistoryStays
<1>0. /\ com1_writable => uart.state = "EMPTY"
      /\ \A u \in Writer : pc[u] = "WRITABLE" => com1_writable
      /\ \A u \in Writer : pc[u] \in Owning => uart.state = "EMPTY" /\ ~com1_writable
      /\ \A u \in Writer : pc[u] \in Using => \A v \in Writer \ {u} : pc[v] \notin Using
  BY <1>3 DEF PortOwned
<1>4. ASSUME NEW t \in Writer, NEW to, pc' = [pc EXCEPT ![t] = to],
             UNCHANGED <<com1_writable, uart>>,
             to # "WRITABLE", to \in Owning => pc[t] \in Owning
      PROVE  PortOwned'
  <2>1. to \in Using => to \in Owning /\ pc[t] \in Using
    BY <1>4 DEF Using
  <2>2. QED
    BY <1>0, <1>3, <1>4, <2>1, StepOwned
<1>5. ASSUME NEW t \in Writer, Enqueue(t)  PROVE PortOwned'
  BY <1>4, <1>5 DEF Enqueue, Goes, Owning
<1>6. ASSUME NEW t \in Writer, TestWritable(t)  PROVE PortOwned'
  <2>1. /\ pc' = [pc EXCEPT ![t] = IF com1_writable THEN "WRITABLE" ELSE "CHECK"]
        /\ UNCHANGED <<com1_writable, uart>> /\ ~Races(t)
    BY <1>6 DEF TestWritable, Goes
  <2>2. CASE com1_writable
    <3>1. \A u \in Writer \ {t} : pc[u] \notin Using
      BY <1>0, <2>1, <2>2 DEF Races, Using
    <3>2. "WRITABLE" \notin Owning
      BY DEF Owning
    <3>3. QED
      BY <1>0, <1>3, <2>1, <2>2, <3>1, <3>2, StepOwned
  <2>3. CASE ~com1_writable
    BY <1>4, <2>1, <2>3 DEF Owning
  <2>4. QED
    BY <2>2, <2>3
<1>7. ASSUME NEW t \in Writer, ClearWritable(t)  PROVE PortOwned'
  <2>1. /\ pc[t] = "WRITABLE" /\ pc' = [pc EXCEPT ![t] = "CLEARED"]
        /\ com1_writable' = FALSE /\ uart' = uart
    BY <1>7 DEF ClearWritable, Goes
  <2>2. uart.state = "EMPTY" /\ pc[t] \in Using
    BY <1>0, <2>1 DEF Using
  <2>3. QED
    BY <1>0, <1>3, <2>1, <2>2, StepOwned
<1>8. ASSUME NEW t \in Writer, TestHead(t) \/ Dequeue(t)  PROVE PortOwned'
  <2>1. UNCHANGED <<com1_writable, uart>>
    BY <1>8 DEF TestHead, Dequeue
  <2>2. PICK to \in Steps : /\ pc' = [pc EXCEPT ![t] = to] /\ to # "WRITABLE"
                            /\ to \in Owning => pc[t] \in Owning
    BY <1>8 DEF TestHead, Dequeue, Goes, Owning, Steps
  <2>3. QED
    BY <1>4, <2>1, <2>2
<1>9. ASSUME NEW t \in Writer, Output(t)  PROVE PortOwned'
  <2>1. /\ pc[t] \in Owning /\ pc' = [pc EXCEPT ![t] = "CHECK"]
        /\ com1_writable' = com1_writable
    BY <1>9 DEF Output, Goes, Owning
  <2>2. ~com1_writable /\ pc[t] \in Using
    BY <1>0, <2>1 DEF Using
  <2>3. "CHECK" \notin Using /\ "CHECK" \notin Owning
    BY DEF Owning, Using
  <2>4. QED
    BY <1>3, <2>1, <2>2, <2>3, StepOwned
<1>10. ASSUME NEW t \in Writer, CheckLength(t) \/ TestDiscarded(t)  PROVE PortOwned'
  <2>1. /\ UNCHANGED <<com1_writable, uart>>
        /\ \E to \in {"DISCARD", "DISCARD_HEAD", "IDLE"} : pc' = [pc EXCEPT ![t] = to]
    BY <1>10 DEF CheckLength, TestDiscarded, Goes
  <2>2. QED
    BY <1>4, <2>1 DEF Owning
<1>11. CASE Transmit \/ TransmitterEmptyInterrupt
  <2>1. uart.state # "EMPTY" /\ pc' = pc
    BY <1>11 DEF Transmit, TransmitterEmptyInterrupt, Interrupt
  <2>2. ~com1_writable /\ \A u \in Writer : pc[u] \notin Using
    BY <1>0, <2>1 DEF Using
  <2>3. com1_writable' => uart'.state = "EMPTY"
    <3>1. CASE Transmit
      BY <2>2, <3>1 DEF Transmit
    <3>2. CASE Interrupt(Sends(Head(queue)))
      BY <2>2, <3>2 DEF Interrupt, Sends
    <3>3. CASE Interrupt(SendsNothing(TRUE))
      <4>1. uart' = [uart EXCEPT !.state = "EMPTY"]
        BY <3>3 DEF Interrupt, SendsNothing
      <4>2. QED
        BY <4>1 DEF TypeOK
    <3>4. QED
      BY <1>11, <3>1, <3>2, <3>3 DEF TransmitterEmptyInterrupt, Interrupt
  <2>4. QED
    BY <2>1, <2>2, <2>3 DEF PortOwned, Using
<1>12. QED
  BY <1>2, <1>5, <1>6, <1>7, <1>8, <1>9, <1>10, <1>11 DEF Next, PutChar

(* Until two tasks have seen COM_WRITABLE at once, nobody writes the       *)
(* transmitter while it sends, and no two tasks are about to write it,     *)
(* although the handler of its interrupt and the other printing tasks run  *)
(* between any two steps of a task.                                        *)
THEOREM PortIsIdleWhenWritable == Spec => []WritableMeansIdle
<1>1. Init => PortOwned
  BY DEF Init, PortOwned, Owning, Using
<1>2. TypeOK /\ PortOwned /\ [Next]_vars => PortOwned'
  BY NextOwned
<1>3. PortOwned => WritableMeansIdle
  BY DEF PortOwned, WritableMeansIdle, Owning, Using
<1>4. QED
  BY <1>1, <1>2, <1>3, SerialTypes, PTL DEF Spec

-----------------------------------------------------------------------------
(* Who will start an idle transmitter: a task on its way to outb(), or one *)
(* that has enqueued its character and will find the port writable.        *)
Starts(t) ==
  \/ pc[t] \in Owning \cup {"WRITABLE"}
  \/ pc[t] = "ENQUEUED" /\ com1_writable

(* The port is writable, sending, or about to be written.                  *)
PortReturns ==
  com1_writable \/ uart.state # "EMPTY" \/ \E t \in Writer : pc[t] \in Owning

(* No character waits for a transmitter that nobody starts.                *)
QueueIsServed ==
  queue # << >> => uart.state # "EMPTY" \/ \E t \in Writer : Starts(t)

(* A step of a printing task hands on what is expected of it.              *)
LEMMA StepServed ==
  ASSUME TypeOK, PortReturns, QueueIsServed, NEW t \in Writer, NEW to,
         pc' = [pc EXCEPT ![t] = to],
         uart.state # "EMPTY" => uart'.state # "EMPTY",
         com1_writable' = com1_writable \/ to \in Owning,
         pc[t] \in Owning => to \in Owning \/ uart'.state # "EMPTY",
         pc[t] = "WRITABLE" => to \in Owning,
         pc[t] = "ENQUEUED" => to = "WRITABLE" \/ ~com1_writable,
         queue' # << >> => queue # << >> \/ to = "ENQUEUED"
  PROVE  PortReturns' /\ QueueIsServed'
<1>1. pc'[t] = to /\ \A u \in Writer : u # t => pc'[u] = pc[u]
  BY DEF TypeOK
<1>2. PortReturns'
  BY <1>1 DEF PortReturns
<1>3. CASE to \in Owning \/ uart'.state # "EMPTY"
  BY <1>1, <1>2, <1>3 DEF QueueIsServed, Starts
<1>4. CASE to \notin Owning /\ uart'.state = "EMPTY"
  <2>1. com1_writable' = com1_writable /\ uart.state = "EMPTY" /\ pc[t] \notin Owning
        /\ pc[t] # "WRITABLE"
    BY <1>4
  <2>2. ASSUME queue # << >>  PROVE \E u \in Writer : Starts(u)'
    <3>1. PICK u \in Writer : Starts(u)
      BY <2>1, <2>2 DEF QueueIsServed
    <3>2. CASE u = t
      <4>1. pc[t] = "ENQUEUED" /\ com1_writable /\ to = "WRITABLE"
        BY <2>1, <3>1, <3>2 DEF Starts
      <4>2. QED
        BY <1>1, <4>1 DEF Starts
    <3>3. CASE u # t
      BY <1>1, <2>1, <3>1, <3>3 DEF Starts
    <3>4. QED
      BY <3>2, <3>3
  <2>3. ASSUME to = "ENQUEUED"  PROVE \E u \in Writer : Starts(u)'
    BY <1>1, <1>2, <1>4, <2>3 DEF PortReturns, Starts
  <2>4. ASSUME queue' # << >>  PROVE \E u \in Writer : Starts(u)'
    <3>1. queue # << >> \/ to = "ENQUEUED"
      BY <2>4
    <3>2. QED
      BY <2>2, <2>3, <3>1
  <2>5. QueueIsServed'
    BY <2>4 DEF QueueIsServed
  <2>6. QED
    BY <1>2, <2>5
<1>5. QED
  BY <1>2, <1>3, <1>4

LEMMA NextServed ==
  ASSUME TypeOK, PortReturns, QueueIsServed, [Next]_vars
  PROVE  PortReturns' /\ QueueIsServed'
<1>1. CASE UNCHANGED vars
  BY <1>1 DEF vars, PortReturns, QueueIsServed, Starts, queue
<1>2. ASSUME NEW t \in Writer, NEW to, pc' = [pc EXCEPT ![t] = to],
             UNCHANGED <<com1_writable, uart>>,
             queue' # << >> => queue # << >>,
             pc[t] \notin {"ENQUEUED", "WRITABLE"}, pc[t] \in Owning => to \in Owning
      PROVE  PortReturns' /\ QueueIsServed'
  BY <1>2, StepServed
<1>3. ASSUME NEW t \in Writer, Enqueue(t)  PROVE PortReturns' /\ QueueIsServed'
  <2>1. /\ pc[t] = "IDLE" /\ pc' = [pc EXCEPT ![t] = "ENQUEUED"]
        /\ UNCHANGED <<com1_writable, uart>>
    BY <1>3 DEF Enqueue, Goes
  <2>2. QED
    BY <2>1, StepServed DEF Owning
<1>4. ASSUME NEW t \in Writer, TestWritable(t)  PROVE PortReturns' /\ QueueIsServed'
  <2>1. /\ pc[t] = "ENQUEUED"
        /\ pc' = [pc EXCEPT ![t] = IF com1_writable THEN "WRITABLE" ELSE "CHECK"]
        /\ UNCHANGED <<com1_transmission_queue, com1_writable, uart>>
    BY <1>4 DEF TestWritable, Goes
  <2>2. CASE com1_writable
    BY <2>1, <2>2, StepServed DEF Owning, queue
  <2>3. CASE ~com1_writable
    BY <2>1, <2>3, StepServed DEF Owning, queue
  <2>4. QED
    BY <2>2, <2>3
<1>5. ASSUME NEW t \in Writer, ClearWritable(t)  PROVE PortReturns' /\ QueueIsServed'
  <2>1. /\ pc[t] = "WRITABLE" /\ pc' = [pc EXCEPT ![t] = "CLEARED"]
        /\ UNCHANGED <<com1_transmission_queue, uart>>
    BY <1>5 DEF ClearWritable, Goes
  <2>2. QED
    BY <2>1, StepServed DEF Owning, queue
<1>6. ASSUME NEW t \in Writer, TestHead(t)  PROVE PortReturns' /\ QueueIsServed'
  <2>1. UNCHANGED <<com1_transmission_queue, com1_writable, uart>>
    BY <1>6 DEF TestHead
  <2>2. PICK to \in Steps : pc' = [pc EXCEPT ![t] = to]
                           /\ pc[t] \notin {"ENQUEUED", "WRITABLE"}
                           /\ (pc[t] \in Owning => to \in Owning)
    BY <1>6 DEF TestHead, Goes, Owning, Steps
  <2>3. QED
    BY <1>2, <2>1, <2>2 DEF queue
<1>7. ASSUME NEW t \in Writer, Dequeue(t)  PROVE PortReturns' /\ QueueIsServed'
  <2>1. UNCHANGED <<com1_writable, uart>> /\ (queue' # << >> => queue # << >>)
    BY <1>7 DEF Dequeue, queue
  <2>2. PICK to \in Steps : pc' = [pc EXCEPT ![t] = to]
                           /\ pc[t] \notin {"ENQUEUED", "WRITABLE"}
                           /\ (pc[t] \in Owning => to \in Owning)
    BY <1>7 DEF Dequeue, Goes, Owning, Steps
  <2>3. QED
    BY <1>2, <2>1, <2>2
<1>8. ASSUME NEW t \in Writer, Output(t)  PROVE PortReturns' /\ QueueIsServed'
  <2>1. /\ pc[t] \notin {"ENQUEUED", "WRITABLE"} /\ pc' = [pc EXCEPT ![t] = "CHECK"]
        /\ uart'.state # "EMPTY" /\ UNCHANGED <<com1_transmission_queue, com1_writable>>
    BY <1>8 DEF Output, Goes
  <2>2. QED
    BY <2>1, StepServed DEF queue
<1>9. ASSUME NEW t \in Writer, CheckLength(t) \/ TestDiscarded(t)
      PROVE  PortReturns' /\ QueueIsServed'
  <2>1. UNCHANGED <<com1_transmission_queue, com1_writable, uart>>
    BY <1>9 DEF CheckLength, TestDiscarded
  <2>2. PICK to \in Steps : pc' = [pc EXCEPT ![t] = to] /\ pc[t] \in {"CHECK", "DISCARD"}
    BY <1>9 DEF CheckLength, TestDiscarded, Goes, Steps
  <2>3. QED
    BY <1>2, <2>1, <2>2 DEF queue, Owning
<1>10. CASE Transmit
  <2>1. uart'.state # "EMPTY"
    BY <1>10 DEF Transmit, TypeOK
  <2>2. QED
    BY <2>1 DEF PortReturns, QueueIsServed
<1>11. CASE TransmitterEmptyInterrupt
  <2>1. CASE Sends(Head(queue))
    <3>1. uart'.state # "EMPTY"
      BY <2>1 DEF Sends
    <3>2. QED
      BY <3>1 DEF PortReturns, QueueIsServed
  <2>2. CASE SendsNothing(TRUE)
    <3>1. com1_writable' /\ queue' = << >>
      BY <2>2 DEF SendsNothing, queue
    <3>2. QED
      BY <3>1 DEF PortReturns, QueueIsServed
  <2>3. QED
    BY <1>11, <2>1, <2>2 DEF TransmitterEmptyInterrupt, Interrupt
<1>12. QED
  BY <1>1, <1>3, <1>4, <1>5, <1>6, <1>7, <1>8, <1>9, <1>10, <1>11 DEF Next, PutChar

(* However many tasks print: when the transmitter is idle and characters   *)
(* are queued, a task in put_char_serial() is about to write it.  The      *)
(* interrupt that would fetch them is never waited for in vain, although   *)
(* handler and tasks share COM_WRITABLE and the queue without a lock.      *)
THEOREM NobodyLeavesTheQueue == Spec => []QueueIsServed
<1>1. Init => PortReturns /\ QueueIsServed
  BY DEF Init, PortReturns, QueueIsServed, queue
<1>2. TypeOK /\ PortReturns /\ QueueIsServed /\ [Next]_vars => PortReturns' /\ QueueIsServed'
  BY NextServed
<1>3. QED
  BY <1>1, <1>2, SerialTypes, PTL DEF Spec

-----------------------------------------------------------------------------
(* The characters of the first set come before those of the second.        *)
Below(A, B) == \A x \in A \ {GARBAGE}, y \in B \ {GARBAGE} : x < y

(* A sequence without its first element.                                   *)
LEMMA HeadFirst ==
  ASSUME NEW q \in Seq(Character), q # << >>, InOrder(q)
  PROVE  /\ InOrder(Tail(q))
         /\ Elements(q) = {Head(q)} \cup Elements(Tail(q))
         /\ Below({Head(q)}, Elements(Tail(q)))
<1>1. /\ Len(q) \in Nat \ {0} /\ DOMAIN q = 1 .. Len(q) /\ Head(q) = q[1]
  OBVIOUS
<1>2. /\ Tail(q) \in Seq(Character) /\ Len(Tail(q)) = Len(q) - 1
      /\ \A i \in 1 .. Len(Tail(q)) : Tail(q)[i] = q[i + 1]
  BY HeadTailProperties
<1>3. DOMAIN Tail(q) = 1 .. Len(q) - 1
  BY <1>2
<1> DEFINE r == Tail(q)
<1> HIDE DEF r
<1>4. DOMAIN r = 1 .. Len(q) - 1 /\ \A i \in DOMAIN r : r[i] = q[i + 1] /\ i + 1 \in DOMAIN q
  BY <1>1, <1>2, <1>3 DEF r
<1>5. InOrder(r)
  <2> SUFFICES ASSUME NEW i \in DOMAIN r, NEW j \in DOMAIN r,
                      i < j, r[i] # GARBAGE, r[j] # GARBAGE
               PROVE  r[i] < r[j]
    BY DEF InOrder
  <2>1. /\ r[i] = q[i + 1] /\ r[j] = q[j + 1] /\ i + 1 \in DOMAIN q /\ j + 1 \in DOMAIN q
        /\ i + 1 < j + 1
    BY <1>1, <1>4
  <2>2. QED
    BY <2>1 DEF InOrder
<1>6. Elements(q) \subseteq {Head(q)} \cup Elements(r)
  <2> SUFFICES ASSUME NEW i \in DOMAIN q PROVE q[i] \in {q[1]} \cup Elements(r)
    BY <1>1 DEF Elements
  <2>1. CASE i = 1
    BY <2>1
  <2>2. CASE i # 1
    <3>1. i - 1 \in DOMAIN r /\ r[i - 1] = q[i]
      BY <2>2, <1>1, <1>4
    <3>2. QED
      BY <3>1 DEF Elements
  <2>3. QED
    BY <2>1, <2>2
<1>7. {Head(q)} \cup Elements(r) \subseteq Elements(q)
  BY <1>1, <1>4 DEF Elements
<1>8. Below({Head(q)}, Elements(r))
  <2> SUFFICES ASSUME q[1] # GARBAGE, NEW j \in DOMAIN r, r[j] # GARBAGE
               PROVE  q[1] < r[j]
    BY <1>1 DEF Below, Elements
  <2>1. 1 \in DOMAIN q /\ j + 1 \in DOMAIN q /\ 1 < j + 1 /\ r[j] = q[j + 1]
    BY <1>1, <1>4
  <2>2. QED
    BY <2>1 DEF InOrder
<1>9. QED
  BY <1>5, <1>6, <1>7, <1>8 DEF r

(* A sequence with one element more.                                       *)
LEMMA AppendLast ==
  ASSUME NEW q \in Seq(Character), NEW c \in Character
  PROVE  /\ Elements(Append(q, c)) = Elements(q) \cup {c}
         /\ InOrder(q) /\ Below(Elements(q), {c}) => InOrder(Append(q, c))
<1> DEFINE r == Append(q, c)
<1>1. /\ Len(q) \in Nat /\ DOMAIN q = 1 .. Len(q)
      /\ r \in Seq(Character) /\ Len(r) = Len(q) + 1
      /\ \A i \in 1 .. Len(q) : r[i] = q[i]
      /\ r[Len(q) + 1] = c
  BY AppendProperties
<1>2. DOMAIN r = 1 .. Len(q) + 1
  BY <1>1
<1> HIDE DEF r
<1>3. Elements(r) = Elements(q) \cup {c}
  <2>1. \A i \in DOMAIN r : r[i] \in Elements(q) \cup {c}
    BY <1>1, <1>2 DEF Elements
  <2>2. \A i \in DOMAIN q : i \in DOMAIN r /\ q[i] = r[i]
    BY <1>1, <1>2
  <2>3. Len(q) + 1 \in DOMAIN r
    BY <1>1, <1>2
  <2>4. QED
    BY <2>1, <2>2, <2>3, <1>1 DEF Elements
<1>4. ASSUME InOrder(q), Below(Elements(q), {c})
      PROVE  InOrder(r)
  <2> SUFFICES ASSUME NEW i \in DOMAIN r, NEW j \in DOMAIN r,
                      i < j, r[i] # GARBAGE, r[j] # GARBAGE
               PROVE  r[i] < r[j]
    BY DEF InOrder
  <2>1. i \in DOMAIN q /\ r[i] = q[i]
    BY <1>1, <1>2
  <2>2. CASE j \in DOMAIN q
    <3>1. r[j] = q[j]
      BY <1>1, <2>2
    <3>2. QED
      BY <2>1, <2>2, <3>1, <1>4 DEF InOrder
  <2>3. CASE j \notin DOMAIN q
    <3>1. r[j] = c
      BY <1>1, <1>2, <2>3
    <3>2. q[i] \in Elements(q)
      BY <2>1 DEF Elements
    <3>3. QED
      BY <2>1, <3>1, <3>2, <1>4 DEF Below
  <2>4. QED
    BY <2>2, <2>3
<1>5. QED
  BY <1>3, <1>4 DEF r

(* Two sequences, one after the other.                                     *)
LEMMA Joined ==
  ASSUME NEW p \in Seq(Character), NEW q \in Seq(Character)
  PROVE  /\ p \o q \in Seq(Character)
         /\ Elements(p \o q) = Elements(p) \cup Elements(q)
         /\ InOrder(p) /\ InOrder(q) /\ Below(Elements(p), Elements(q)) => InOrder(p \o q)
<1> DEFINE r == p \o q
<1>1. /\ Len(p) \in Nat /\ DOMAIN p = 1 .. Len(p) /\ Len(q) \in Nat /\ DOMAIN q = 1 .. Len(q)
      /\ r \in Seq(Character) /\ Len(r) = Len(p) + Len(q)
      /\ \A i \in 1 .. Len(p) + Len(q) : r[i] = IF i <= Len(p) THEN p[i] ELSE q[i - Len(p)]
  BY ConcatProperties
<1>2. DOMAIN r = 1 .. Len(p) + Len(q)
  BY <1>1
<1> HIDE DEF r
<1>3. ASSUME NEW i \in DOMAIN r
      PROVE  \/ i \in DOMAIN p /\ r[i] = p[i]
             \/ i > Len(p) /\ i - Len(p) \in DOMAIN q /\ r[i] = q[i - Len(p)]
  <2>1. CASE i <= Len(p)
    BY <2>1, <1>1, <1>2
  <2>2. CASE ~(i <= Len(p))
    <3>1. i - Len(p) \in 1 .. Len(q) /\ i > Len(p)
      BY <2>2, <1>1, <1>2
    <3>2. QED
      BY <3>1, <2>2, <1>1, <1>2
  <2>3. QED
    BY <2>1, <2>2
<1>4. Elements(r) = Elements(p) \cup Elements(q)
  <2>1. Elements(r) \subseteq Elements(p) \cup Elements(q)
    BY <1>3 DEF Elements
  <2>2. \A i \in DOMAIN p : i \in DOMAIN r /\ r[i] = p[i]
    BY <1>1, <1>2
  <2>3. \A i \in DOMAIN q : i + Len(p) \in DOMAIN r /\ r[i + Len(p)] = q[i]
    <3> SUFFICES ASSUME NEW i \in DOMAIN q
                 PROVE  i + Len(p) \in DOMAIN r /\ r[i + Len(p)] = q[i]
      OBVIOUS
    <3>1. i + Len(p) \in 1 .. Len(p) + Len(q) /\ ~(i + Len(p) <= Len(p)) /\ i + Len(p) - Len(p) = i
      BY <1>1
    <3>2. QED
      BY <3>1, <1>1, <1>2
  <2>4. Elements(p) \subseteq Elements(r)
    BY <2>2 DEF Elements
  <2>5. Elements(q) \subseteq Elements(r)
    BY <2>3 DEF Elements
  <2>6. QED
    BY <2>1, <2>4, <2>5
<1>5. ASSUME InOrder(p), InOrder(q), Below(Elements(p), Elements(q))
      PROVE  InOrder(r)
  <2> SUFFICES ASSUME NEW i \in DOMAIN r, NEW j \in DOMAIN r,
                      i < j, r[i] # GARBAGE, r[j] # GARBAGE
               PROVE  r[i] < r[j]
    BY DEF InOrder
  <2>1. CASE j \in DOMAIN p /\ r[j] = p[j]
    <3>1. i \in DOMAIN p /\ r[i] = p[i]
      BY <2>1, <1>1, <1>2, <1>3
    <3>2. QED
      BY <2>1, <3>1, <1>5 DEF InOrder
  <2>2. CASE j > Len(p) /\ j - Len(p) \in DOMAIN q /\ r[j] = q[j - Len(p)]
    <3>1. CASE i \in DOMAIN p /\ r[i] = p[i]
      <4>1. r[i] \in Elements(p) /\ r[j] \in Elements(q)
        BY <2>2, <3>1 DEF Elements
      <4>2. QED
        BY <4>1, <1>5 DEF Below
    <3>2. CASE i > Len(p) /\ i - Len(p) \in DOMAIN q /\ r[i] = q[i - Len(p)]
      <4>1. i - Len(p) < j - Len(p)
        BY <1>1, <1>2
      <4>2. QED
        BY <4>1, <2>2, <3>2, <1>5 DEF InOrder
    <3>3. QED
      BY <3>1, <3>2, <1>3
  <2>3. QED
    BY <2>1, <2>2, <1>3
<1>6. QED
  BY <1>1, <1>4, <1>5 DEF r

(* One element, or none.                                                   *)
LEMMA Short ==
  /\ Elements(<< >>) = {} /\ InOrder(<< >>)
  /\ \A c : Elements(<<c>>) = {c} /\ InOrder(<<c>>)
<1>1. DOMAIN << >> = {}
  OBVIOUS
<1>2. ASSUME NEW c
      PROVE  Elements(<<c>>) = {c} /\ InOrder(<<c>>)
  <2>1. DOMAIN <<c>> = {1} /\ <<c>>[1] = c
    OBVIOUS
  <2>2. QED
    BY <2>1 DEF Elements, InOrder
<1>3. QED
  BY <1>1, <1>2 DEF Elements, InOrder

-----------------------------------------------------------------------------
Discarding == {"DISCARD", "DISCARD_HEAD", "DISCARD_DEQUEUE"}

(* Where the characters are: those that were sent, the one in flight and   *)
(* the queue follow on each other, and none is missing before the queue    *)
(* overflows.  Until then a task that is to take a character finds one, for *)
(* nobody but it takes characters while it owns the port.                  *)
Lined(sent, flight, rest) ==
  /\ sent \in Seq(Character) /\ flight \in Seq(Character) /\ rest \in Seq(Character)
  /\ InOrder(sent) /\ InOrder(flight) /\ InOrder(rest)
  /\ Below(Elements(sent), Elements(flight))
  /\ Below(Elements(sent), Elements(rest))
  /\ Below(Elements(flight), Elements(rest))

Everything(sent, flight, rest) == Elements(sent) \cup Elements(flight) \cup Elements(rest)

Placed ==
  /\ Lined(line, InFlight, queue)
  /\ Everything(line, InFlight, queue) \subseteq 0 .. written
  /\ ~overflowed => Everything(line, InFlight, queue) \ {GARBAGE} = 1 .. written
  /\ ~overflowed => \A t \in Writer : pc[t] = "DEQUEUE" => queue # << >>

(* Who finds the queue emptied by a discarding task loses the way, but has *)
(* sent nothing wrong.                                                     *)
CharactersLined ==
  /\ \A t \in Writer : pc[t] \in Discarding => overflowed
  /\ ~raced => /\ InOrder(line)
               /\ wild => overflowed
               /\ ~wild => Placed

(* What is in flight.                                                      *)
LEMMA FlightIs ==
  /\ (\A t \in Writer : pc[t] # "OUT") /\ uart.state # "BUSY" => InFlight = << >>
  /\ (\A t \in Writer : pc[t] # "OUT") /\ uart.state = "BUSY" => InFlight = <<uart.data>>
  /\ (\E t \in Writer : pc[t] = "OUT") /\ uart.state # "BUSY" => InFlight = <<io>>
<1>1. \A c : << >> \o <<c>> = <<c>> /\ <<c>> \o << >> = <<c>>
  BY ConcatEmptySeq
<1>2. << >> \o << >> = << >>
  OBVIOUS
<1>3. QED
  BY <1>1, <1>2 DEF InFlight

(* A step that leaves every character where it is.                         *)
LEMMA StayLined ==
  ASSUME Placed, InFlight' = InFlight, UNCHANGED <<line, com1_transmission_queue, written>>,
         overflowed => overflowed',
         ~overflowed' => \A t \in Writer : pc'[t] = "DEQUEUE" => queue # << >>
  PROVE  Placed'
<1>1. line' = line /\ queue' = queue /\ written' = written
  BY DEF queue
<1>2. QED
  BY <1>1 DEF Placed

(* A character is written.                                                 *)
LEMMA WriteLined ==
  ASSUME NEW sent, NEW flight, NEW rest, Lined(sent, flight, rest),
         NEW n \in Nat, n + 1 \in Character, Everything(sent, flight, rest) \subseteq 0 .. n
  PROVE  /\ Lined(sent, flight, Append(rest, n + 1))
         /\ Everything(sent, flight, Append(rest, n + 1)) = Everything(sent, flight, rest) \cup {n + 1}
<1>1. Elements(Append(rest, n + 1)) = Elements(rest) \cup {n + 1}
  BY AppendLast DEF Lined
<1>2. \A x \in Everything(sent, flight, rest) : x < n + 1
  <2>1. \A x \in 0 .. n : x < n + 1
    OBVIOUS
  <2>2. QED
    BY <2>1
<1>3. /\ Below(Elements(sent), {n + 1}) /\ Below(Elements(flight), {n + 1})
      /\ Below(Elements(rest), {n + 1})
  BY <1>2 DEF Below, Everything
<1>4. InOrder(Append(rest, n + 1)) /\ Append(rest, n + 1) \in Seq(Character)
  <2>1. rest \in Seq(Character) /\ InOrder(rest)
    BY DEF Lined
  <2>2. QED
    BY <2>1, <1>3, AppendLast, AppendProperties
<1>5. /\ Below(Elements(sent), Elements(rest) \cup {n + 1})
      /\ Below(Elements(flight), Elements(rest) \cup {n + 1})
  BY <1>3 DEF Below, Lined
<1>6. QED
  BY <1>1, <1>4, <1>5 DEF Lined, Everything

(* The first character of the queue goes into flight.                      *)
LEMMA TakeLined ==
  ASSUME NEW sent, NEW rest, Lined(sent, << >>, rest), rest # << >>
  PROVE  /\ Lined(sent, <<Head(rest)>>, Tail(rest))
         /\ Everything(sent, <<Head(rest)>>, Tail(rest)) = Everything(sent, << >>, rest)
<1>1. rest \in Seq(Character) /\ InOrder(rest) /\ sent \in Seq(Character) /\ InOrder(sent)
  BY DEF Lined
<1>2. /\ Head(rest) \in Character /\ Tail(rest) \in Seq(Character) /\ InOrder(Tail(rest))
      /\ Elements(rest) = {Head(rest)} \cup Elements(Tail(rest))
      /\ Below({Head(rest)}, Elements(Tail(rest)))
  BY <1>1, HeadFirst, HeadTailProperties
<1>3. <<Head(rest)>> \in Seq(Character)
  BY <1>2
<1>4. /\ Elements(<<Head(rest)>>) = {Head(rest)} /\ InOrder(<<Head(rest)>>)
      /\ Elements(<< >>) = {}
  BY Short
<1>5. Below(Elements(sent), {Head(rest)}) /\ Below(Elements(sent), Elements(Tail(rest)))
  BY <1>2 DEF Below, Lined
<1>6. QED
  BY <1>1, <1>2, <1>3, <1>4, <1>5 DEF Lined, Everything

(* The first character of the queue is discarded.                          *)
LEMMA DiscardLined ==
  ASSUME NEW sent, NEW flight, NEW rest, Lined(sent, flight, rest), rest # << >>
  PROVE  /\ Lined(sent, flight, Tail(rest))
         /\ Everything(sent, flight, Tail(rest)) \subseteq Everything(sent, flight, rest)
<1>1. /\ Tail(rest) \in Seq(Character) /\ InOrder(Tail(rest))
      /\ Elements(rest) = {Head(rest)} \cup Elements(Tail(rest))
  BY HeadFirst, HeadTailProperties DEF Lined
<1>2. /\ Below(Elements(sent), Elements(Tail(rest)))
      /\ Below(Elements(flight), Elements(Tail(rest)))
  BY <1>1 DEF Below, Lined
<1>3. QED
  BY <1>1, <1>2 DEF Lined, Everything

(* The first character of the queue is discarded, and overwrites the one   *)
(* in flight in the buffer.                                                *)
LEMMA ReplaceLined ==
  ASSUME NEW sent, NEW flight, NEW rest, Lined(sent, flight, rest), rest # << >>
  PROVE  /\ Lined(sent, <<Head(rest)>>, Tail(rest))
         /\ Everything(sent, <<Head(rest)>>, Tail(rest)) \subseteq Everything(sent, flight, rest)
<1>1. Elements(<< >>) = {} /\ InOrder(<< >>)
  BY Short
<1>2. << >> \in Seq(Character)
  OBVIOUS
<1>3. Below(Elements(sent), {}) /\ Below({}, Elements(rest))
  BY DEF Below
<1>4. /\ Lined(sent, << >>, rest)
      /\ Everything(sent, << >>, rest) \subseteq Everything(sent, flight, rest)
  BY <1>1, <1>2, <1>3 DEF Lined, Everything
<1>5. QED
  BY <1>4, TakeLined

(* The character in flight is sent.                                        *)
LEMMA SendLined ==
  ASSUME NEW sent, NEW c \in Character, NEW rest, Lined(sent, <<c>>, rest)
  PROVE  /\ Lined(Append(sent, c), << >>, rest)
         /\ Everything(Append(sent, c), << >>, rest) = Everything(sent, <<c>>, rest)
<1>1. sent \in Seq(Character) /\ InOrder(sent)
  BY DEF Lined
<1>2. /\ Elements(<<c>>) = {c} /\ InOrder(<< >>) /\ Elements(<< >>) = {}
  BY Short
<1>3. Below(Elements(sent), {c}) /\ Below({c}, Elements(rest))
  BY <1>2 DEF Lined
<1>4. /\ Append(sent, c) \in Seq(Character) /\ InOrder(Append(sent, c))
      /\ Elements(Append(sent, c)) = Elements(sent) \cup {c}
  BY <1>1, <1>3, AppendLast, AppendProperties
<1>5. Below(Elements(sent) \cup {c}, Elements(rest))
  BY <1>3 DEF Below, Lined
<1>6. Below(Elements(sent) \cup {c}, {}) /\ Below({}, Elements(rest))
  BY DEF Below
<1>7. << >> \in Seq(Character)
  OBVIOUS
<1>8. QED
  BY <1>2, <1>4, <1>5, <1>6, <1>7 DEF Lined, Everything

(* What is read through NULL is sent.                                      *)
LEMMA GarbageLined ==
  ASSUME NEW sent, NEW rest, Lined(sent, << >>, rest)
  PROVE  /\ Lined(sent, <<GARBAGE>>, rest)
         /\ Everything(sent, <<GARBAGE>>, rest) = Everything(sent, << >>, rest) \cup {GARBAGE}
<1>1. /\ Elements(<<GARBAGE>>) = {GARBAGE} /\ InOrder(<<GARBAGE>>) /\ Elements(<< >>) = {}
  BY Short
<1>2. GARBAGE \in Character
  BY SerialAssumption DEF GARBAGE, Character
<1>3. <<GARBAGE>> \in Seq(Character)
  BY <1>2
<1>4. Below(Elements(sent), {GARBAGE}) /\ Below({GARBAGE}, Elements(rest))
  BY DEF Below
<1>5. QED
  BY <1>1, <1>3, <1>4 DEF Lined, Everything

(* What each step does to the characters: only writing one, taking one    *)
(* out of the queue, sending and discarding move any.                     *)
LEMMA NextPlaced ==
  ASSUME TypeOK, PortOwned, ~raced, Placed, Next, ~wild', CharactersLined,
         \A t \in Writer : pc'[t] \in Discarding => overflowed'
  PROVE  Placed'
<1>0. /\ Lined(line, InFlight, queue)
      /\ Everything(line, InFlight, queue) \subseteq 0 .. written
      /\ ~overflowed => Everything(line, InFlight, queue) \ {GARBAGE} = 1 .. written
      /\ ~overflowed => \A t \in Writer : pc[t] = "DEQUEUE" => queue # << >>
      /\ \A t \in Writer : pc[t] \in Discarding => overflowed
      /\ pc \in [Writer -> Steps] /\ written \in Nat
      /\ \A t \in Writer : pc[t] \in Owning =>
           uart.state = "EMPTY" /\ \A u \in Writer \ {t} : pc[u] \notin Owning
      /\ io \in Character /\ uart.data \in Character
  BY DEF CharactersLined, Placed, TypeOK, PortOwned, Character, Using
<1> HIDE DEF InFlight
<1>2. ASSUME NEW t \in Writer, NEW to, pc' = [pc EXCEPT ![t] = to]
      PROVE  pc'[t] = to /\ \A u \in Writer \ {t} : pc'[u] = pc[u]
  BY <1>0, <1>2
(* Steps of a task that move no character.                                 *)
<1>3. ASSUME NEW t \in Writer, NEW to, pc' = [pc EXCEPT ![t] = to],
             pc[t] # "OUT", to # "OUT",
             UNCHANGED <<com1_transmission_queue, io, uart, line, written>>,
             overflowed => overflowed',
             to = "DEQUEUE" => queue # << >>
      PROVE  Placed'
  <2>1. (\E u \in Writer : pc'[u] = "OUT") <=> (\E u \in Writer : pc[u] = "OUT")
    BY <1>2, <1>3
  <2>2. InFlight' = InFlight
    BY <2>1, <1>3 DEF InFlight
  <2>3. ~overflowed' => \A u \in Writer : pc'[u] = "DEQUEUE" => queue # << >>
    BY <1>0, <1>2, <1>3
  <2>4. QED
    BY <1>3, <2>2, <2>3, StayLined
<1>4. ASSUME NEW t \in Writer, Enqueue(t)  PROVE Placed'
  <2>1. /\ pc[t] = "IDLE" /\ pc' = [pc EXCEPT ![t] = "ENQUEUED"]
        /\ written < MaxWritten /\ written' = written + 1
        /\ com1_transmission_queue' = Append(queue, written + 1)
        /\ UNCHANGED <<io, uart, line, overflowed>>
    BY <1>4 DEF Enqueue, Goes
  <2>2. pc'[t] = "ENQUEUED" /\ \A u \in Writer \ {t} : pc'[u] = pc[u]
    BY <1>2, <2>1
  <2>3. InFlight' = InFlight
    <3>1. (\E u \in Writer : pc'[u] = "OUT") <=> (\E u \in Writer : pc[u] = "OUT")
      BY <2>1, <2>2
    <3>2. QED
      BY <2>1, <3>1 DEF InFlight
  <2>4. written + 1 \in Character /\ written + 1 # GARBAGE
    BY <1>0, <2>1, SerialAssumption DEF Character, GARBAGE
  <2>5. queue' = Append(queue, written + 1) /\ line' = line
    BY <2>1 DEF queue
  <2>6. /\ Lined(line', InFlight', queue')
        /\ Everything(line', InFlight', queue') = Everything(line, InFlight, queue) \cup {written + 1}
    <3>1. Lined(line, InFlight, queue) /\ Everything(line, InFlight, queue) \subseteq 0 .. written
      BY <1>0
    <3>2. written \in Nat /\ written + 1 \in Character
      BY <1>0, <2>4
    <3>3. /\ Lined(line, InFlight, Append(queue, written + 1))
          /\ Everything(line, InFlight, Append(queue, written + 1))
               = Everything(line, InFlight, queue) \cup {written + 1}
      BY <3>1, <3>2, WriteLined
    <3>4. QED
      BY <2>3, <2>5, <3>3
  <2>7. 0 .. written + 1 = (0 .. written) \cup {written + 1} /\ 1 .. written + 1 = (1 .. written) \cup {written + 1}
    BY <1>0
  <2>8. Everything(line', InFlight', queue') \subseteq 0 .. written'
    BY <1>0, <2>1, <2>6, <2>7
  <2>9. ~overflowed' => Everything(line', InFlight', queue') \ {GARBAGE} = 1 .. written'
    BY <1>0, <2>1, <2>4, <2>6, <2>7
  <2>10. queue' # << >>
    <3>1. queue \in Seq(Character)
      BY <1>0 DEF Lined
    <3>2. QED
      BY <2>4, <2>5, <3>1
  <2>11. QED
    BY <2>6, <2>8, <2>9, <2>10 DEF Placed
<1>5. ASSUME NEW t \in Writer, TestWritable(t) \/ ClearWritable(t)  PROVE Placed'
  <2>1. /\ UNCHANGED <<com1_transmission_queue, io, uart, line, written, overflowed>>
        /\ pc[t] # "OUT"
        /\ \E to \in {"WRITABLE", "CHECK", "CLEARED"} : pc' = [pc EXCEPT ![t] = to]
    BY <1>5 DEF TestWritable, ClearWritable, Goes
  <2>2. PICK to \in {"WRITABLE", "CHECK", "CLEARED"} : pc' = [pc EXCEPT ![t] = to]
    BY <2>1
  <2>3. to # "OUT" /\ to # "DEQUEUE"
    OBVIOUS
  <2>4. QED
    BY <1>3, <2>1, <2>2, <2>3
<1>6. ASSUME NEW t \in Writer, TestHead(t)  PROVE Placed'
  <2>1. UNCHANGED <<com1_transmission_queue, io, uart, line, written, overflowed>>
    BY <1>6 DEF TestHead
  <2>2. CASE Goes(t, "CLEARED", IF queue = << >> THEN "NULL" ELSE "DEQUEUE")
    BY <1>3, <2>1, <2>2 DEF Goes
  <2>3. CASE Goes(t, "DISCARD_HEAD", IF queue = << >> THEN "DISCARD" ELSE "DISCARD_DEQUEUE")
    BY <1>3, <2>1, <2>3 DEF Goes
  <2>4. QED
    BY <1>6, <2>2, <2>3 DEF TestHead
<1>7. ASSUME NEW t \in Writer, Dequeue(t)  PROVE Placed'
  <2>1. /\ UNCHANGED <<uart, line, written, overflowed>>
        /\ queue # << >> /\ io' = Head(queue) /\ com1_transmission_queue' = Tail(queue)
    BY <1>7 DEF Dequeue
  <2>2. queue' = Tail(queue) /\ line' = line
    BY <2>1 DEF queue
  <2>3. CASE Goes(t, "DEQUEUE", "OUT")
    <3>1. pc[t] = "DEQUEUE" /\ pc' = [pc EXCEPT ![t] = "OUT"] /\ pc[t] \in Owning
      BY <2>3 DEF Goes, Owning
    <3>2. /\ uart.state = "EMPTY" /\ \A u \in Writer \ {t} : pc[u] \notin Owning
          /\ pc'[t] = "OUT" /\ \A u \in Writer \ {t} : pc'[u] = pc[u]
      BY <1>0, <1>2, <3>1
    <3>3. /\ \A u \in Writer : pc[u] # "OUT"
          /\ \A u \in Writer : pc'[u] # "DEQUEUE"
      BY <3>1, <3>2 DEF Owning
    <3>4. InFlight = << >>
      BY <3>2, <3>3, FlightIs
    <3>5. InFlight' = <<Head(queue)>>
      <4>1. (\E u \in Writer : pc'[u] = "OUT") /\ uart'.state # "BUSY"
        BY <2>1, <3>2
      <4>2. << >> \o <<io'>> = <<io'>>
        OBVIOUS
      <4>3. QED
        BY <2>1, <4>1, <4>2 DEF InFlight
    <3>6. Lined(line, << >>, queue)
      BY <1>0, <3>4
    <3>7. /\ Lined(line', InFlight', queue')
          /\ Everything(line', InFlight', queue') = Everything(line, InFlight, queue)
      BY <2>1, <2>2, <3>4, <3>5, <3>6, TakeLined
    <3>8. QED
      BY <1>0, <2>1, <3>3, <3>7 DEF Placed
  <2>4. CASE Goes(t, "DISCARD_DEQUEUE", "DISCARD")
    <3>1. pc[t] = "DISCARD_DEQUEUE" /\ pc' = [pc EXCEPT ![t] = "DISCARD"]
      BY <2>4 DEF Goes
    <3>2. overflowed /\ overflowed'
      BY <1>0, <2>1, <3>1 DEF Discarding
    <3>3. (\E u \in Writer : pc'[u] = "OUT") <=> (\E u \in Writer : pc[u] = "OUT")
      BY <1>2, <3>1
    <3>4. /\ Lined(line', InFlight', queue')
          /\ Everything(line', InFlight', queue') \subseteq Everything(line, InFlight, queue)
      <4>1. CASE \E u \in Writer : pc[u] = "OUT"
        <5>1. uart'.state # "BUSY" /\ \E u \in Writer : pc'[u] = "OUT"
          BY <1>0, <2>1, <3>3, <4>1 DEF Owning
        <5>2. InFlight' = <<Head(queue)>>
          <6>1. << >> \o <<io'>> = <<io'>>
            OBVIOUS
          <6>2. QED
            BY <2>1, <5>1, <6>1 DEF InFlight
        <5>3. QED
          BY <1>0, <2>1, <2>2, <5>2, ReplaceLined
      <4>2. CASE ~\E u \in Writer : pc[u] = "OUT"
        <5>1. InFlight' = InFlight
          BY <2>1, <3>3, <4>2 DEF InFlight
        <5>2. QED
          BY <1>0, <2>1, <2>2, <5>1, DiscardLined
      <4>3. QED
        BY <4>1, <4>2
    <3>5. QED
      BY <1>0, <2>1, <3>2, <3>4 DEF Placed
  <2>5. QED
    BY <1>7, <2>3, <2>4 DEF Dequeue
<1>8. ASSUME NEW t \in Writer, Output(t)  PROVE Placed'
  <2>1. /\ pc[t] \in {"OUT", "NULL"} /\ pc' = [pc EXCEPT ![t] = "CHECK"]
        /\ uart' = [state |-> "BUSY", data |-> IF pc[t] = "OUT" THEN io ELSE GARBAGE]
        /\ UNCHANGED <<com1_transmission_queue, line, written, overflowed>>
    BY <1>8 DEF Output, Goes
  <2>2. /\ uart.state = "EMPTY" /\ pc'[t] = "CHECK"
        /\ \A u \in Writer \ {t} : pc[u] \notin Owning /\ pc'[u] = pc[u]
    BY <1>0, <1>2, <2>1 DEF Owning
  <2>3. InFlight' = <<uart'.data>>
    <3>1. ~(\E u \in Writer : pc'[u] = "OUT") /\ uart'.state = "BUSY"
      BY <2>1, <2>2 DEF Owning
    <3>2. <<uart'.data>> \o << >> = <<uart'.data>>
      BY ConcatEmptySeq
    <3>3. QED
      BY <3>1, <3>2 DEF InFlight
  <2>4. queue' = queue /\ line' = line /\ \A u \in Writer : pc'[u] # "DEQUEUE"
    BY <2>1, <2>2 DEF queue, Owning
  <2>5. CASE pc[t] = "OUT"
    <3>1. InFlight' = InFlight
      BY <2>1, <2>2, <2>3, <2>5, FlightIs
    <3>2. QED
      BY <1>0, <2>1, <2>4, <3>1, StayLined
  <2>6. CASE pc[t] = "NULL"
    <3>1. InFlight = << >> /\ InFlight' = <<GARBAGE>>
      <4>1. \A u \in Writer : pc[u] # "OUT"
        BY <2>2, <2>6 DEF Owning
      <4>2. QED
        BY <2>1, <2>2, <2>3, <2>6, <4>1, FlightIs
    <3>2. Lined(line, << >>, queue)
      BY <1>0, <3>1
    <3>3. /\ Lined(line', InFlight', queue')
          /\ Everything(line', InFlight', queue') = Everything(line, InFlight, queue) \cup {GARBAGE}
      BY <2>4, <3>1, <3>2, GarbageLined
    <3>4. GARBAGE \in 0 .. written
      BY <1>0 DEF GARBAGE
    <3>5. QED
      BY <1>0, <2>1, <2>4, <3>3, <3>4 DEF Placed
  <2>7. QED
    BY <2>1, <2>5, <2>6
<1>9. ASSUME NEW t \in Writer, CheckLength(t)  PROVE Placed'
  <2>1. /\ UNCHANGED <<com1_transmission_queue, io, uart, line, written>>
        /\ pc[t] = "CHECK"
        /\ overflowed => overflowed'
        /\ \E to \in {"DISCARD", "IDLE"} : pc' = [pc EXCEPT ![t] = to]
    BY <1>9 DEF CheckLength, Goes
  <2>2. PICK to \in {"DISCARD", "IDLE"} : pc' = [pc EXCEPT ![t] = to]
    BY <2>1
  <2>3. to # "OUT" /\ to # "DEQUEUE"
    OBVIOUS
  <2>4. QED
    BY <1>3, <2>1, <2>2, <2>3
<1>10. ASSUME NEW t \in Writer, TestDiscarded(t)  PROVE Placed'
  <2>1. /\ UNCHANGED <<com1_transmission_queue, io, uart, line, written, overflowed>>
        /\ pc[t] = "DISCARD"
        /\ \E to \in {"DISCARD_HEAD", "IDLE"} : pc' = [pc EXCEPT ![t] = to]
    BY <1>10 DEF TestDiscarded, Goes
  <2>2. QED
    BY <1>3, <2>1
<1>11. CASE Transmit
  <2>1. /\ uart.state = "BUSY" /\ uart' = [uart EXCEPT !.state = "INTERRUPT"]
        /\ line' = Append(line, uart.data) /\ pc' = pc
        /\ UNCHANGED <<com1_transmission_queue, pc, written, overflowed>>
    BY <1>11 DEF Transmit
  <2>2. \A u \in Writer : pc[u] # "OUT" /\ pc'[u] = pc[u]
    BY <1>0, <2>1 DEF Owning
  <2>3. uart'.state = "INTERRUPT"
    BY <2>1 DEF TypeOK
  <2>4. InFlight = <<uart.data>> /\ InFlight' = << >>
    <3>1. ~(\E u \in Writer : pc[u] = "OUT") /\ ~(\E u \in Writer : pc'[u] = "OUT")
      BY <2>2
    <3>2. <<uart.data>> \o << >> = <<uart.data>> /\ << >> \o << >> = << >>
      BY ConcatEmptySeq
    <3>3. QED
      BY <2>1, <2>3, <3>1, <3>2 DEF InFlight
  <2>5. Lined(line, <<uart.data>>, queue) /\ queue' = queue
    BY <1>0, <2>1, <2>4 DEF queue
  <2>6. /\ Lined(line', InFlight', queue')
        /\ Everything(line', InFlight', queue') = Everything(line, InFlight, queue)
    BY <1>0, <2>1, <2>4, <2>5, SendLined
  <2>7. QED
    BY <1>0, <2>1, <2>5, <2>6 DEF Placed
<1>12. CASE TransmitterEmptyInterrupt
  <2>1. /\ uart.state = "INTERRUPT" /\ UNCHANGED <<pc, written, line, overflowed>>
        /\ Sends(Head(queue)) \/ SendsNothing(TRUE)
    BY <1>12 DEF TransmitterEmptyInterrupt, Interrupt
  <2>2. \A u \in Writer : pc[u] \notin Owning /\ pc'[u] = pc[u]
    BY <1>0, <2>1
  <2>3. /\ ~(\E u \in Writer : pc[u] = "OUT") /\ ~(\E u \in Writer : pc'[u] = "OUT")
        /\ \A u \in Writer : pc'[u] # "DEQUEUE"
    BY <2>2 DEF Owning
  <2>4. InFlight = << >>
    <3>1. << >> \o << >> = << >>
      OBVIOUS
    <3>2. QED
      BY <2>1, <2>3, <3>1 DEF InFlight
  <2>5. CASE Sends(Head(queue))
    <3>1. /\ queue # << >> /\ queue' = Tail(queue) /\ line' = line
          /\ uart' = [state |-> "BUSY", data |-> Head(queue)]
      BY <2>1, <2>5 DEF Sends, queue
    <3>2. InFlight' = <<Head(queue)>>
      <4>1. <<Head(queue)>> \o << >> = <<Head(queue)>>
        BY ConcatEmptySeq
      <4>2. uart'.state = "BUSY" /\ uart'.data = Head(queue)
        BY <3>1
      <4>3. QED
        BY <2>3, <4>1, <4>2 DEF InFlight
    <3>3. Lined(line, << >>, queue)
      BY <1>0, <2>4
    <3>4. /\ Lined(line', InFlight', queue')
          /\ Everything(line', InFlight', queue') = Everything(line, InFlight, queue)
      BY <2>4, <3>1, <3>2, <3>3, TakeLined
    <3>5. QED
      BY <1>0, <2>1, <2>3, <3>4 DEF Placed
  <2>6. CASE SendsNothing(TRUE)
    <3>1. /\ uart' = [uart EXCEPT !.state = "EMPTY"]
          /\ com1_transmission_queue' = com1_transmission_queue
      BY <2>6 DEF SendsNothing
    <3>2. uart'.state = "EMPTY"
      BY <3>1 DEF TypeOK
    <3>3. InFlight' = << >>
      <4>1. << >> \o << >> = << >>
        OBVIOUS
      <4>2. QED
        BY <2>3, <3>2, <4>1 DEF InFlight
    <3>4. QED
      BY <2>1, <2>3, <2>4, <3>1, <3>3, StayLined
  <2>7. QED
    BY <2>1, <2>5, <2>6
<1>13. QED
  BY <1>4, <1>5, <1>6, <1>7, <1>8, <1>9, <1>10, <1>11, <1>12 DEF Next, PutChar

(* Only a task that has found the queue too long discards.                 *)
LEMMA NextDiscarding ==
  ASSUME TypeOK, \A t \in Writer : pc[t] \in Discarding => overflowed, [Next]_vars
  PROVE  \A t \in Writer : pc'[t] \in Discarding => overflowed'
<1>0. pc \in [Writer -> Steps] /\ overflowed \in BOOLEAN
  BY DEF TypeOK
<1>1. CASE UNCHANGED vars
  BY <1>1 DEF vars
<1>2. ASSUME NEW t \in Writer, NEW to, pc' = [pc EXCEPT ![t] = to], overflowed => overflowed',
             to \in Discarding => pc[t] \in Discarding \/ overflowed'
      PROVE  \A u \in Writer : pc'[u] \in Discarding => overflowed'
  <2>1. pc'[t] = to /\ \A u \in Writer \ {t} : pc'[u] = pc[u]
    BY <1>0, <1>2
  <2>2. QED
    BY <1>2, <2>1
<1>3. ASSUME NEW t \in Writer, Enqueue(t)
      PROVE  \A u \in Writer : pc'[u] \in Discarding => overflowed'
  BY <1>2, <1>3 DEF Enqueue, Goes, Discarding
<1>4. ASSUME NEW t \in Writer, CheckLength(t)
      PROVE  \A u \in Writer : pc'[u] \in Discarding => overflowed'
  BY <1>2, <1>4 DEF CheckLength, Goes, Discarding
<1>5. ASSUME NEW t \in Writer, PutChar(t), ~CheckLength(t)
      PROVE  \A u \in Writer : pc'[u] \in Discarding => overflowed'
  <2>1. PICK to \in Steps : /\ pc' = [pc EXCEPT ![t] = to]
                            /\ to \in Discarding => pc[t] \in Discarding
    BY <1>5 DEF PutChar, TestWritable, ClearWritable, TestHead, Dequeue, Output,
                TestDiscarded, Goes, Discarding, Steps
  <2>2. overflowed' = overflowed
    BY <1>5 DEF PutChar, TestWritable, ClearWritable, TestHead, Dequeue, Output, TestDiscarded
  <2>3. overflowed => overflowed'
    BY <1>0, <2>2
  <2>4. QED
    BY <1>2, <2>1, <2>3
<1>6. CASE Transmit \/ TransmitterEmptyInterrupt
  <2>1. pc' = pc /\ overflowed' = overflowed
    BY <1>6 DEF Transmit, TransmitterEmptyInterrupt, Interrupt
  <2>2. QED
    BY <1>0, <2>1
<1>7. QED
  BY <1>1, <1>3, <1>4, <1>5, <1>6 DEF Next

LEMMA NextLined ==
  ASSUME TypeOK, PortOwned, CharactersLined, [Next]_vars  PROVE CharactersLined'
<1>1. \A t \in Writer : pc'[t] \in Discarding => overflowed'
  BY NextDiscarding DEF CharactersLined
<1> SUFFICES ASSUME ~raced'
             PROVE  InOrder(line') /\ (wild' => overflowed') /\ (~wild' => Placed')
  BY <1>1 DEF CharactersLined
<1>2. CASE UNCHANGED vars
  <2>1. UNCHANGED <<Placed, line, wild, overflowed, raced>>
    BY <1>2 DEF vars, Placed, InFlight, queue
  <2>2. QED
    BY <2>1 DEF CharactersLined
<1>3. CASE Next
  <2>1. ~raced /\ ~wild
    BY <1>3, HistoryStays
  <2>2. Placed /\ InOrder(line)
    BY <2>1 DEF CharactersLined
  <2>3. ~wild' => Placed'
    BY <1>1, <1>3, <2>1, <2>2, NextPlaced
  <2>4. CASE ~wild'
    BY <2>3, <2>4 DEF Placed, Lined
  <2>5. CASE wild'
    <3>1. PICK t \in Writer : Dequeue(t)
      <4>1. wild' # wild
        BY <2>1, <2>5
      <4>2. ASSUME NEW t \in Writer, ~Dequeue(t), Enqueue(t) \/ PutChar(t)  PROVE wild' = wild
        BY <4>2 DEF PutChar, Enqueue, TestWritable, ClearWritable, TestHead, Output,
                    CheckLength, TestDiscarded
      <4>3. ASSUME Transmit \/ TransmitterEmptyInterrupt  PROVE wild' = wild
        BY <4>3 DEF Transmit, TransmitterEmptyInterrupt, Interrupt
      <4>4. QED
        BY <1>3, <4>1, <4>2, <4>3 DEF Next
    <3>2. line' = line /\ overflowed' = overflowed /\ queue = << >>
      BY <2>1, <2>5, <3>1 DEF Dequeue
    <3>3. pc[t] = "DEQUEUE" \/ pc[t] \in Discarding
      BY <3>1 DEF Dequeue, Goes, Discarding
    <3>4. overflowed
      BY <2>2, <3>2, <3>3 DEF Placed, CharactersLined
    <3>5. QED
      BY <2>2, <2>5, <3>2, <3>4
  <2>6. QED
    BY <2>4, <2>5, <2>3
<1>4. QED
  BY <1>2, <1>3

(* Nothing is written at the start.                                       *)
LEMMA StartLined == Init => CharactersLined
<1> SUFFICES ASSUME Init  PROVE CharactersLined
  OBVIOUS
<1>1. /\ line = << >> /\ queue = << >> /\ written = 0 /\ ~overflowed /\ ~wild
      /\ \A t \in Writer : pc[t] = "IDLE"
  BY DEF Init, queue
<1>2. InFlight = << >>
  <2>1. << >> \o << >> = << >>
    OBVIOUS
  <2>2. QED
    BY <1>1, <2>1 DEF Init, InFlight
<1>3. Elements(<< >>) = {} /\ InOrder(<< >>) /\ << >> \in Seq(Character)
  BY Short
<1>4. Below({}, {})
  BY DEF Below
<1>5. Lined(line, InFlight, queue) /\ Everything(line, InFlight, queue) = {}
  BY <1>1, <1>2, <1>3, <1>4 DEF Lined, Everything
<1>6. {} \ {GARBAGE} = 1 .. written
  BY <1>1
<1>7. QED
  BY <1>1, <1>3, <1>5, <1>6 DEF CharactersLined, Placed, Discarding

(* The parts of the line make the whole.                                   *)
LEMMA LinedIsInOrder ==
  ASSUME NEW sent, NEW flight, NEW rest, Lined(sent, flight, rest)
  PROVE  /\ InOrder(sent \o flight \o rest)
         /\ Elements(sent \o flight \o rest) = Everything(sent, flight, rest)
<1>1. /\ sent \in Seq(Character) /\ flight \in Seq(Character) /\ rest \in Seq(Character)
      /\ InOrder(sent) /\ InOrder(flight) /\ InOrder(rest)
  BY DEF Lined
<1>2. /\ sent \o flight \in Seq(Character) /\ InOrder(sent \o flight)
      /\ Elements(sent \o flight) = Elements(sent) \cup Elements(flight)
  BY <1>1, Joined DEF Lined
<1>3. Below(Elements(sent) \cup Elements(flight), Elements(rest))
  BY DEF Lined, Below
<1>4. QED
  BY <1>1, <1>2, <1>3, Joined DEF Everything

(* Until two tasks have seen COM_WRITABLE at once, the characters of all   *)
(* printing tasks are in the right places.                                 *)
THEOREM CharactersStayLined == Spec => []CharactersLined
<1>1. Init => PortOwned
  BY DEF Init, PortOwned, Owning, Using
<1>2. TypeOK /\ PortOwned /\ [Next]_vars => PortOwned'
  BY NextOwned
<1>3. TypeOK /\ PortOwned /\ CharactersLined /\ [Next]_vars => CharactersLined'
  BY NextLined
<1>4. QED
  BY <1>1, <1>2, <1>3, StartLined, SerialTypes, PTL DEF Spec

(* Before the queue overflows, or two tasks write to the port at once,     *)
(* each character that any task has printed is sent, in flight or in the   *)
(* queue, once and in the order of printing.                               *)
THEOREM NoCharacterLost == Spec => []NothingLost
<1>1. CharactersLined => NothingLost
  <2> SUFFICES ASSUME CharactersLined, ~overflowed, ~raced
               PROVE  /\ InOrder(line \o InFlight \o queue)
                      /\ Elements(line \o InFlight \o queue) \ {GARBAGE} = 1 .. written
    BY DEF NothingLost
  <2>1. Placed
    BY DEF CharactersLined
  <2>2. QED
    BY <2>1, LinedIsInOrder DEF Placed
<1>2. QED
  BY <1>1, CharactersStayLined, PTL

(* What is sent is sent in order, also while a long queue is discarded     *)
(* between the interrupts of the transmitter and the steps of a task that  *)
(* is about to send.                                                       *)
THEOREM CharactersInOrder == Spec => []SentInOrder
<1>1. CharactersLined => SentInOrder
  BY DEF CharactersLined, SentInOrder
<1>2. QED
  BY <1>1, CharactersStayLined, PTL
=============================================================================
