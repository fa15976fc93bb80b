----------------------------- MODULE SerialPort -----------------------------
(***************************************************************************)
(* The transmission over COM1 once it is interrupt driven: tasks in        *)
(* put_char_serial() put characters into com1_transmission_queue, and both *)
(* they and the interrupt handler of the transmitter take them out.  The   *)
(* handler runs with interrupts off; a task can be interrupted, and        *)
(* another task can run, wherever cli_task() does not forbid it.  A        *)
(* character is the number of its enqueue().                               *)
(***************************************************************************)
EXTENDS Integers, Sequences

CONSTANTS
  Writer,                            (* the tasks that print               *)
  MAX_LENGTH_OF_TRANSMISSION_QUEUE,
  MaxWritten                         (* bound: the characters they print   *)

ASSUME SerialAssumption ==
  /\ MAX_LENGTH_OF_TRANSMISSION_QUEUE \in Nat \ {0}
  /\ MaxWritten \in Nat

VARIABLES
  com1_transmission_queue,  (* its elements                                *)
  io,                       (* the buffer into which dequeue() copies      *)
  com1_writable,            (* COM_WRITABLE of com1_flags                  *)
  pc,                       (* where each writer is in put_char_serial()   *)
  uart,                     (* the transmitter, and the character it sends *)
  written,                  (* history: the number of enqueue()s           *)
  line,                     (* history: the characters that were sent      *)
  overflowed,               (* history: a queue has been discarded         *)
  raced,                    (* history: two tasks saw the port writable    *)
  wild                      (* history: dequeue() took an element of none  *)

vars == <<com1_transmission_queue, io, com1_writable, pc, uart, written, line,
          overflowed, raced, wild>>

queue == com1_transmission_queue

(* What is read through the NULL that dequeue() returns.                   *)
GARBAGE == 0

Steps == {"IDLE", "ENQUEUED", "WRITABLE", "CLEARED", "DEQUEUE", "OUT", "NULL",
          "CHECK", "DISCARD", "DISCARD_HEAD", "DISCARD_DEQUEUE"}

Init ==
  /\ com1_transmission_queue = << >>
  /\ io = GARBAGE
  /\ com1_writable = TRUE
  /\ pc = [t \in Writer |-> "IDLE"]
  /\ uart = [state |-> "EMPTY", data |-> GARBAGE]
  /\ written = 0
  /\ line = << >>
  /\ overflowed = FALSE /\ raced = FALSE /\ wild = FALSE
-----------------------------------------------------------------------------
Goes(t, from, to) ==
  /\ ~wild
  /\ pc[t] = from
  /\ pc' = [pc EXCEPT ![t] = to]

(* The enqueue() of put_char_serial().                                     *)
Enqueue(t) ==
  /\ written < MaxWritten
  /\ Goes(t, "IDLE", "ENQUEUED")
  /\ written' = written + 1
  /\ com1_transmission_queue' = Append(queue, written')
  /\ UNCHANGED <<io, com1_writable, uart, line, overflowed, raced, wild>>

(* Between the test of COM_WRITABLE and its clearing nothing keeps another *)
(* task from the same test: both then take themselves for the port's only  *)
(* user.                                                                   *)
Races(t) == com1_writable /\ \E u \in Writer \ {t} : pc[u] = "WRITABLE"

(* Mutant: writable or not, the character is sent.                         *)
TestWritableNever(t) ==
  /\ Goes(t, "ENQUEUED", "WRITABLE")
  /\ raced' = (raced \/ Races(t))
  /\ UNCHANGED <<com1_transmission_queue, io, com1_writable, uart, written, line,
                 overflowed, wild>>

TestWritable(t) ==
  /\ Goes(t, "ENQUEUED", IF com1_writable THEN "WRITABLE" ELSE "CHECK")
  /\ raced' = (raced \/ Races(t))
  /\ UNCHANGED <<com1_transmission_queue, io, com1_writable, uart, written, line,
                 overflowed, wild>>

(* Mutant: the flag stays.                                                 *)
ClearWritableNot(t) ==
  /\ Goes(t, "WRITABLE", "CLEARED")
  /\ UNCHANGED <<com1_transmission_queue, io, com1_writable, uart, written, line,
                 overflowed, raced, wild>>

ClearWritable(t) ==
  /\ Goes(t, "WRITABLE", "CLEARED")
  /\ com1_writable' = FALSE
  /\ UNCHANGED <<com1_transmission_queue, io, uart, written, line, overflowed, raced, wild>>

(* dequeue() looks for an element before it turns interrupts off, both for *)
(* the character to send and in the loop that discards.                    *)
TestHead(t) ==
  /\ \/ Goes(t, "CLEARED", IF queue = << >> THEN "NULL" ELSE "DEQUEUE")
     \/ Goes(t, "DISCARD_HEAD", IF queue = << >> THEN "DISCARD" ELSE "DISCARD_DEQUEUE")
  /\ UNCHANGED <<com1_transmission_queue, io, com1_writable, uart, written, line,
                 overflowed, raced, wild>>

(* It then takes the head, also if that has become NULL; what would follow *)
(* is not modelled.                                                        *)
Dequeue(t) ==
  /\ Goes(t, "DEQUEUE", "OUT") \/ Goes(t, "DISCARD_DEQUEUE", "DISCARD")
  /\ IF queue = << >>
       THEN wild' = TRUE /\ UNCHANGED <<com1_transmission_queue, io>>
       ELSE /\ io' = Head(queue)
            /\ com1_transmission_queue' = Tail(queue)
            /\ wild' = wild
  /\ UNCHANGED <<com1_writable, uart, written, line, overflowed, raced>>

(* The outb() of a task, which reads the buffer, or through NULL.          *)
Output(t) ==
  /\ Goes(t, "OUT", "CHECK") \/ Goes(t, "NULL", "CHECK")
  /\ uart' = [state |-> "BUSY", data |-> IF pc[t] = "OUT" THEN io ELSE GARBAGE]
  /\ UNCHANGED <<com1_transmission_queue, io, com1_writable, written, line,
                 overflowed, raced, wild>>

(* "If COM1 doesn't react, the queue contents should be discarded          *)
(* regularly."                                                             *)
CheckLength(t) ==
  LET long == MAX_LENGTH_OF_TRANSMISSION_QUEUE < Len(queue)
  IN /\ Goes(t, "CHECK", IF long THEN "DISCARD" ELSE "IDLE")
     /\ overflowed' = (overflowed \/ long)
     /\ UNCHANGED <<com1_transmission_queue, io, com1_writable, uart, written, line, raced,
                    wild>>

TestDiscarded(t) ==
  /\ Goes(t, "DISCARD", IF Len(queue) # 0 THEN "DISCARD_HEAD" ELSE "IDLE")
  /\ UNCHANGED <<com1_transmission_queue, io, com1_writable, uart, written, line,
                 overflowed, raced, wild>>

PutChar(t) ==
  \/ TestWritable(t) \/ ClearWritable(t) \/ TestHead(t) \/ Dequeue(t)
  \/ Output(t) \/ CheckLength(t) \/ TestDiscarded(t)
-----------------------------------------------------------------------------
(* The transmitter has sent its character and asks for an interrupt.       *)
Transmit ==
  /\ uart.state = "BUSY" /\ ~wild
  /\ uart' = [uart EXCEPT !.state = "INTERRUPT"]
  /\ line' = Append(line, uart.data)
  /\ UNCHANGED <<com1_transmission_queue, io, com1_writable, pc, written, overflowed, raced, wild>>

(* What com1_interrupt_handler() does with the character c it dequeues, or *)
(* without one.                                                            *)
Sends(c) == /\ queue # << >>
            /\ io' = Head(queue)
            /\ com1_transmission_queue' = Tail(queue)
            /\ uart' = [state |-> "BUSY", data |-> c]
            /\ com1_writable' = com1_writable

SendsNothing(writable) == /\ queue = << >>
                          /\ com1_writable' = writable
                          /\ uart' = [uart EXCEPT !.state = "EMPTY"]
                          /\ UNCHANGED <<com1_transmission_queue, io>>

Interrupt(handler) == /\ uart.state = "INTERRUPT" /\ ~wild
                      /\ handler
                      /\ UNCHANGED <<pc, written, line, overflowed, raced, wild>>

(* Mutants: the handler does not mark the port writable; it sends what the *)
(* buffer held before; it takes the character for a signed one.            *)
TransmitterEmptyInterruptIgnored ==
  Interrupt(Sends(Head(queue)) \/ SendsNothing(com1_writable))

TransmitterEmptyInterruptStale == Interrupt(Sends(io) \/ SendsNothing(TRUE))

TransmitterEmptyInterruptSigned == Interrupt(Sends(-Head(queue)) \/ SendsNothing(TRUE))

(* com1_interrupt_handler() with TRANSMITTER_EMPTY_INTERRUPT.              *)
TransmitterEmptyInterrupt == Interrupt(Sends(Head(queue)) \/ SendsNothing(TRUE))

Next ==
  \/ \E t \in Writer : Enqueue(t) \/ PutChar(t)
  \/ Transmit \/ TransmitterEmptyInterrupt

Spec == Init /\ [][Next]_vars

(* Tasks get the processor in turns, and the port and its interrupts work. *)
FairSpec ==
  /\ Spec
  /\ \A t \in Writer : WF_vars(PutChar(t))
  /\ WF_vars(Transmit) /\ WF_vars(TransmitterEmptyInterrupt)
-----------------------------------------------------------------------------
Character == 0 .. MaxWritten

TypeOK ==
  /\ com1_transmission_queue \in Seq(Character)
  /\ io \in Character
  /\ com1_writable \in BOOLEAN
  /\ pc \in [Writer -> Steps]
  /\ uart \in [state : {"EMPTY", "BUSY", "INTERRUPT"}, data : Character]
  /\ written \in Character
  /\ line \in Seq(Character)
  /\ overflowed \in BOOLEAN /\ raced \in BOOLEAN /\ wild \in BOOLEAN

(* The character that left the queue and is not sent yet.                  *)
InFlight ==
  (IF uart.state = "BUSY" THEN <<uart.data>> ELSE << >>)
    \o (IF \E t \in Writer : pc[t] = "OUT" THEN <<io>> ELSE << >>)

Elements(s) == {s[i] : i \in DOMAIN s}

(* Each character once and in order, whatever garbage is between.          *)
InOrder(s) ==
  \A i, j \in DOMAIN s : i < j /\ s[i] # GARBAGE /\ s[j] # GARBAGE => s[i] < s[j]

(* Unless two tasks have found the port writable at once, a port marked    *)
(* writable does nothing and nobody is about to use it, and no two tasks   *)
(* are: otherwise outb() would overwrite a character that is being sent.   *)
WritableMeansIdle ==
  ~raced =>
    LET users == {t \in Writer : pc[t] \in {"CLEARED", "DEQUEUE", "OUT", "NULL"}}
    IN /\ com1_writable => uart.state = "EMPTY" /\ users = {}
       /\ \A t, u \in users : t = u

(* Until characters are discarded, or two tasks write to the port at once, *)
(* each one that was written is sent, in flight or in the queue, once and  *)
(* in order, whatever garbage is between.                                  *)
NothingLost ==
  LET all == line \o InFlight \o queue
  IN ~overflowed /\ ~raced => InOrder(all) /\ Elements(all) \ {GARBAGE} = 1 .. written

(* Whatever is discarded, also while another task is about to send, the    *)
(* rest is sent once and in order.                                         *)
SentInOrder == ~raced => InOrder(line)

(* Every character leaves the queue: it never waits in a queue that nobody *)
(* empties because the port seems busy.                                    *)
NobodyWaitsForever ==
  \A c \in 1 .. MaxWritten :
    written >= c ~> wild \/ c \notin Elements(InFlight \o queue)

(* "print a character to serial port COM1" (serial.c:432), and nothing     *)
(* that is not one.                                                        *)
PrintsCharacters == \A i \in 1 .. Len(line) : line[i] # GARBAGE
=============================================================================
