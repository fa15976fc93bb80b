-------------------------------- MODULE Desktop --------------------------------
(***************************************************************************)
(* Closing: how windows, consoles and applications come to an end.         *)
(*                                                                         *)
(* A window is four sheets.  They are deleted by events that the task of   *)
(* the window sends to itself: requests go down the tree of sheets, and    *)
(* responses come up from the sheets that are gone (sheet.c, window.c).  A *)
(* console is a task with a window, on which a shell runs one application  *)
(* at a time in the foreground (console.c, shell.c).  An application has   *)
(* windows too; those it has when it exits are handed over to the main     *)
(* task (system_call.c).                                                   *)
(*                                                                         *)
(* distribute_event() prohibits task switches while it handles an event,   *)
(* so a handler is one action.  Left out are drawing, the focus, the text  *)
(* of the console with its prompts, and events that change nothing here.   *)
(* A sheet, window or entry that is freed is not reused.                   *)
(***************************************************************************)
EXTENDS Naturals, Sequences, SequencesExt

CONSTANTS Applications,   \* tasks of commands
          Windows,        \* windows of applications
          Presses         \* bound: keys and buttons pressed by the user

ConsoleWindow == "console window"

ASSUME DesktopAssumption ==
    /\ Applications \cap {"main", "console", "none"} = {}
    /\ Windows \cap {ConsoleWindow, "none"} = {}
    /\ Presses \in Nat

VARIABLES queues,    \* the event queue of each task
          status,    \* "none", "running", "exiting" (in system_call_exit) or "closed"
          parent,    \* task->parent of each application
          sheets,    \* the sheets below background_sheet
          marked,    \* those with SHEET_FLAG_RECEIVED_DELETION_REQUEST
          windows,   \* the list of windows
          owner,     \* the task of the event queue of the sheets of a window
          console,   \* the Console and its Shell, see Init
          serial,    \* the serial shell, of the main task, see Init
          entries,   \* application_windows, from the head on: [window, owner_task]
          cursor,    \* application_window in delete_windows() of an exiting application
          presses,
          (* What the properties ask about the past. *)
          late,      \* applications started while their console was being closed
          disturbed, \* applications during whose delete_windows() another task freed an entry
          headFirst, \* applications that exited owning the head of the entries and another one
          faults     \* kinds of freed memory that were used
vars == <<queues, status, parent, sheets, marked, windows, owner, console, serial, entries, cursor,
          presses, late, disturbed, headFirst, faults>>
history == <<late, disturbed, headFirst>>
desktop == <<sheets, marked, windows, owner>>

Tasks == {"main", "console"} \cup Applications
AllWindows == Windows \cup {ConsoleWindow}

(***************************************************************************)
(* The sheets of a window (create_window), and events.                     *)
(***************************************************************************)
Parts == {"root", "title", "close button", "client"}
Above == [part \in Parts \ {"root"} |-> IF part = "close button" THEN "title" ELSE "root"]
SheetsOf(w) == {w} \X Parts
Root(w) == <<w, "root">>
Client(w) == <<w, "client">>
Children(s) == {t \in sheets : t[1] = s[1] /\ t[2] # "root" /\ Above[t[2]] = s[2]}

(* x is taken from a set of interchangeable values: always the same one.   *)
Fresh(x, set) == x \in set /\ x = CHOOSE y \in set : TRUE

Event(type, subject) == [type |-> type, subject |-> subject]

(* What a handler sends: events to one queue, in their order.              *)
To(task, events) == [task |-> task, events |-> events]
ToSheet(type, s) == To(owner[s[1]], <<Event(type, s)>>)
ToWindow(type, w) == To(owner[w], <<Event(type, w)>>)
Nothing == To("main", <<>>)

(* The queue of a closed task is freed: close_task().  It is the last that *)
(* is left of a console.                                                   *)
FreedQueue(t) == IF t = "console" THEN "console" ELSE "queue"
Fatal == faults \cap {"console", "queue", "entry"} # {}
Deliver(sent, from) ==
    /\ queues' = [from EXCEPT ![sent.task] = @ \o sent.events]
    /\ faults' = IF sent.events # <<>> /\ status[sent.task] = "closed"
                 THEN faults \cup {FreedQueue(sent.task)} ELSE faults
Send(sent) == Deliver(sent, queues)

(* Task t dequeues an event, and sends others.                             *)
Dequeues(t, type, subject) ==
    /\ ~Fatal
    /\ status[t] = "running"
    /\ queues[t] # <<>>
    /\ Head(queues[t]) = Event(type, subject)
Replies(t, sent) == Deliver(sent, [queues EXCEPT ![t] = Tail(@)])
Drops(t) == Replies(t, Nothing)
Misuses(t, what) ==
    /\ queues' = [queues EXCEPT ![t] = Tail(@)]
    /\ faults' = faults \cup {what}

(* distribute_event() follows the pointer to a window without a test.      *)
FollowsWindow(t, w, sent) ==
    IF w \in windows THEN Replies(t, sent)
    ELSE Misuses(t, "window")

(***************************************************************************)
(* The user: send_sheets_event and ALT + F4 in the main task.              *)
(***************************************************************************)
Press == presses < Presses /\ presses' = presses + 1

(* The close button is released. *)
ClickCloseButton(w) ==
    /\ ~Fatal /\ Press
    /\ <<w, "close button">> \in sheets
    /\ Send(ToSheet("sheet clicked", <<w, "close button">>))
    /\ UNCHANGED <<status, parent, desktop, console, entries, cursor, history, serial>>

(* Any window of the list may be the focused one. *)
AltF4(w) ==
    /\ ~Fatal /\ Press
    /\ w \in windows
    /\ Send(ToWindow("window deletion request", w))
    /\ UNCHANGED <<status, parent, desktop, console, entries, cursor, history, serial>>

(* Enter, after something has been typed at the prompt of the console. *)
Enter ==
    /\ ~Fatal /\ Press
    /\ Client(ConsoleWindow) \in sheets
    /\ Send(ToSheet("sheet keyboard", Client(ConsoleWindow)))
    /\ UNCHANGED <<status, parent, desktop, console, entries, cursor, history, serial>>

(***************************************************************************)
(* Handlers of the events of windows and sheets.                           *)
(***************************************************************************)
SheetClicked(t, s) ==
    /\ Dequeues(t, "sheet clicked", s)
    /\ Replies(t, IF s \in sheets THEN ToWindow("close button clicked", s[1]) ELSE Nothing)
    /\ UNCHANGED <<status, parent, desktop, console, entries, cursor, presses, history, serial>>

CloseButtonClicked(t, w) ==
    /\ Dequeues(t, "close button clicked", w)
    /\ FollowsWindow(t, w, IF Root(w) \in sheets THEN ToWindow("window deletion request", w) ELSE Nothing)
    /\ UNCHANGED <<status, parent, desktop, console, entries, cursor, presses, history, serial>>

(* Whether the event procedure of the root sheet is that of the console:   *)
(* console_window_root_sheet_event_procedure puts the default one in its   *)
(* place when it accepts the request.                                      *)
AsksConsole(w) == w = ConsoleWindow /\ ~console.accepted

(* Mutant: SHELL_FLAG_BUSY is not asked for.                               *)
RefusesNever(w) == FALSE

(* "Can't close this console because an application is running on it."     *)
Refuses(w) == AsksConsole(w) /\ console.busy

WindowDeletionRequest(t, w) ==
    /\ Dequeues(t, "window deletion request", w)
    /\ IF Root(w) \in sheets /\ AsksConsole(w) /\ ~console.allocated
       THEN Misuses(t, "console") /\ UNCHANGED console
       ELSE /\ FollowsWindow(t, w, IF Root(w) \in sheets /\ ~Refuses(w)
                                   THEN ToSheet("sheet deletion request", Root(w)) ELSE Nothing)
            /\ console' = [console EXCEPT !.accepted = @ \/ (Root(w) \in sheets /\ AsksConsole(w) /\ ~Refuses(w))]
    /\ UNCHANGED <<status, parent, desktop, entries, cursor, presses, history, serial>>

(* Mutant: the response goes to the sheet instead of its parent.           *)
ResponseToSelf(s) == ToSheet("sheet deletion response", s)

(* delete_sheet, after the last child, and the response to the parent; the *)
(* response to background_sheet has no effect.                             *)
Response(s) ==
    IF s[2] = "root" THEN Nothing
    ELSE ToSheet("sheet deletion response", <<s[1], Above[s[2]]>>)

(* delete_console, when the client sheet of the console is asked.          *)
DeletesConsole(s) == s = Client(ConsoleWindow) /\ console.allocated

SheetDeletionRequest(t, s) ==
    /\ Dequeues(t, "sheet deletion request", s)
    /\ console' = [console EXCEPT !.allocated = @ /\ ~(s \in sheets /\ DeletesConsole(s))]
    /\ CASE s \notin sheets -> Drops(t) /\ UNCHANGED desktop
         [] s \in sheets /\ Children(s) # {} ->
              (* The order of the children: a click pulls a sheet up. *)
              /\ marked' = marked \cup {s}
              /\ \E order \in SetToSeqs(Children(s)) :
                   Replies(t, To(owner[s[1]], [k \in DOMAIN order |-> Event("sheet deletion request", order[k])]))
              /\ UNCHANGED <<sheets, windows, owner>>
         [] OTHER ->
              /\ sheets' = sheets \ {s}
              /\ Replies(t, Response(s))
              /\ UNCHANGED <<marked, windows, owner>>
    /\ UNCHANGED <<status, parent, entries, cursor, presses, history, serial>>

(* s: the parent.  root_sheet_event_procedure deletes the window first.    *)
SheetDeletionResponse(t, s) ==
    /\ Dequeues(t, "sheet deletion response", s)
    /\ IF s \in sheets /\ s \in marked /\ Children(s) = {}
       THEN /\ sheets' = sheets \ {s}
            /\ windows' = IF s[2] = "root" THEN windows \ {s[1]} ELSE windows
            /\ Replies(t, IF s[2] = "root" THEN ToWindow("window deletion response", s[1]) ELSE Response(s))
            /\ UNCHANGED <<marked, owner>>
       ELSE Drops(t) /\ UNCHANGED desktop
    /\ UNCHANGED <<status, parent, console, entries, cursor, presses, history, serial>>

(***************************************************************************)
(* The console task.                                                       *)
(***************************************************************************)
KeyboardToConsole(t) ==
    /\ Dequeues(t, "sheet keyboard", Client(ConsoleWindow))
    /\ Replies(t, IF Client(ConsoleWindow) \in sheets
                  THEN ToSheet("command issued", Client(ConsoleWindow)) ELSE Nothing)
    /\ UNCHANGED <<status, parent, desktop, console, entries, cursor, presses, history, serial>>

(* execute_command of a shell variable, or of a file that does not exist,  *)
(* or while an application is running, changes nothing here.               *)
IgnoreCommand(t) ==
    /\ Dequeues(t, "command issued", Client(ConsoleWindow))
    /\ Drops(t)
    /\ UNCHANGED <<status, parent, desktop, console, entries, cursor, presses, history, serial>>

(* execute_command of a .com file.  A command that ends with an ampersand  *)
(* runs in the background, for the main task.                              *)
ExecuteCommand(t, a, background) ==
    /\ Dequeues(t, "command issued", Client(ConsoleWindow))
    /\ Client(ConsoleWindow) \in sheets
    /\ ~console.busy
    /\ Fresh(a, {b \in Applications : status[b] = "none"})
    /\ status' = [status EXCEPT ![a] = "running"]
    /\ parent' = [parent EXCEPT ![a] = IF background THEN "main" ELSE t]
    /\ console' = [console EXCEPT !.busy = ~background]
    /\ late' = IF console.accepted /\ ~background THEN late \cup {a} ELSE late
    /\ Drops(t)
    /\ UNCHANGED <<desktop, entries, cursor, presses, disturbed, headFirst, serial>>

(* Mutant: the console stays busy.                                         *)
AfterCommandBusy(c) == c

(* clean_up_command_task clears SHELL_FLAG_BUSY.                           *)
AfterCommand(c) == [c EXCEPT !.busy = FALSE]

(* A line comes in on the serial port: serial_console_input in the main    *)
(* task, which runs the command for itself in either case.  The events of  *)
(* COM1 change nothing else here: one is as good as handled on arrival.    *)
SerialCommand(a, background) ==
    /\ ~Fatal /\ Press
    /\ ~serial.busy
    /\ Fresh(a, {b \in Applications : status[b] = "none"})
    /\ status' = [status EXCEPT ![a] = "running"]
    /\ parent' = [parent EXCEPT ![a] = "main"]
    /\ serial' = IF background THEN serial ELSE [busy |-> TRUE, commands |-> serial.commands \cup {a}]
    /\ UNCHANGED <<queues, desktop, console, entries, cursor, history, faults>>

(* Mutant: the serial shell stays busy.                                    *)
AfterSerialCommandBusy(s) == s

(* A background command has serial_shell for its shell, too.               *)
AfterSerialCommand(s) == [s EXCEPT !.busy = FALSE]

(* EVENT_TYPE_TASK_DELETION_RESPONSE: the shell of an application is free  *)
(* for the next one, and a console closes its window if `exit' asked for it. *)
CleanUpCommandTask(t, a) ==
    /\ Dequeues(t, "task deletion response", a)
    /\ a \in Applications
    /\ IF t = "main" THEN Drops(t) /\ serial' = AfterSerialCommand(serial) /\ UNCHANGED console
       ELSE IF ~console.allocated THEN Misuses(t, "console") /\ UNCHANGED <<console, serial>>
       ELSE /\ console' = AfterCommand(console)
            /\ Replies(t, IF console.exit THEN ToWindow("window deletion request", ConsoleWindow) ELSE Nothing)
            /\ UNCHANGED serial
    /\ UNCHANGED <<status, parent, desktop, entries, cursor, presses, history>>

ConsoleWindowDeleted(t) ==
    /\ t = "console"
    /\ Dequeues(t, "window deletion response", ConsoleWindow)
    /\ Replies(t, To(t, <<Event("task deletion request", t)>>))
    /\ UNCHANGED <<status, parent, desktop, console, entries, cursor, presses, history, serial>>

(* close_task, which frees the queue with what is in it. *)
CloseConsole(t) ==
    /\ Dequeues(t, "task deletion request", t)
    /\ Deliver(To("main", <<Event("task deletion response", t)>>), [queues EXCEPT ![t] = <<>>])
    /\ status' = [status EXCEPT ![t] = "closed"]
    /\ UNCHANGED <<parent, desktop, console, entries, cursor, presses, history, serial>>

ConsoleClosed(t) ==
    /\ Dequeues(t, "task deletion response", "console")
    /\ Drops(t)
    /\ UNCHANGED <<status, parent, desktop, console, entries, cursor, presses, history, serial>>

(***************************************************************************)
(* Applications: the system calls on windows, and the end.                 *)
(***************************************************************************)
Running(a) == ~Fatal /\ status[a] = "running"

CreateWindow(a, w) ==
    /\ Running(a)
    /\ Fresh(w, {u \in Windows : owner[u] = "none"})
    /\ owner' = [owner EXCEPT ![w] = a]
    /\ sheets' = sheets \cup SheetsOf(w)
    /\ windows' = windows \cup {w}
    /\ entries' = Append(entries, [window |-> w, owner_task |-> a])
    /\ UNCHANGED <<queues, status, parent, marked, console, cursor, presses, history, faults, serial>>

(* CONSOLE_COMMAND_EXIT: get_current_shell finds the shell of the parent.  *)
RequestExit(a) ==
    /\ Running(a)
    /\ parent[a] = "console" /\ console.allocated
    /\ ~console.exit
    /\ console' = [console EXCEPT !.exit = TRUE]
    /\ UNCHANGED <<queues, status, parent, desktop, entries, cursor, presses, history, faults, serial>>

Entry(w) == CHOOSE k \in DOMAIN entries : entries[k].window = w
Listed(w) == \E k \in DOMAIN entries : entries[k].window = w
Without(w) == IF Listed(w) THEN RemoveAt(entries, Entry(w)) ELSE entries
Exiting(a) == {b \in Applications \ {a} : status[b] = "exiting"}

(* WINDOW_COMMAND_PROCESS_EVENT of EVENT_TYPE_WINDOW_DELETION_RESPONSE.    *)
WindowDeleted(t, w) ==
    /\ Dequeues(t, "window deletion response", w)
    /\ w # ConsoleWindow
    /\ Drops(t)
    /\ entries' = IF t = "main" THEN entries ELSE Without(w)
    /\ disturbed' = IF entries' = entries THEN disturbed ELSE disturbed \cup Exiting(t)
    /\ UNCHANGED <<status, parent, desktop, console, cursor, presses, late, headFirst, serial>>

(* SYSTEM_CALL_EXIT allows switching again: system_call_exit up to the     *)
(* loop of delete_windows, of which a round is a step.                     *)
Exit(a) ==
    /\ Running(a)
    /\ status' = [status EXCEPT ![a] = "exiting"]
    /\ cursor' = [cursor EXCEPT ![a] = IF entries = <<>> THEN "none" ELSE entries[1].window]
    /\ headFirst' = IF /\ entries # <<>> /\ entries[1].owner_task = a
                       /\ \E k \in DOMAIN entries \ {1} : entries[k].owner_task = a
                    THEN headFirst \cup {a} ELSE headFirst
    /\ UNCHANGED <<queues, parent, desktop, console, entries, presses, late, disturbed, faults, serial>>

(* Mutant: the loop goes on with the head.                                 *)
AfterHead(k) == entries[1].window

(* The entry after the k-th of the ring, read before the k-th is freed.    *)
After(k) == entries[(k % Len(entries)) + 1].window

(* One round of the loop.  The head of the remaining entries ends it.      *)
DeleteWindow(a, w, next) ==
    LET own == entries[Entry(w)].owner_task = a
    IN  /\ entries' = IF own THEN Without(w) ELSE entries
        /\ disturbed' = IF own THEN disturbed \cup Exiting(a) ELSE disturbed
        /\ IF own
           THEN /\ owner' = [owner EXCEPT ![w] = "main"]
                /\ queues' = [queues EXCEPT !["main"] = Append(@, Event("window deletion request", w))]
                /\ faults' = faults \cup (IF w \in windows THEN {} ELSE {"window"})
           ELSE UNCHANGED <<owner, queues, faults>>
        /\ cursor' = [cursor EXCEPT ![a] = IF entries' = <<>> \/ next = entries'[1].window THEN "none" ELSE next]
DeleteWindows(a) ==
    /\ ~Fatal /\ status[a] = "exiting" /\ cursor[a] # "none"
    /\ IF Listed(cursor[a])
       THEN DeleteWindow(a, cursor[a], After(Entry(cursor[a])))
       ELSE /\ faults' = faults \cup {"entry"}
            /\ UNCHANGED <<entries, disturbed, owner, queues, cursor>>
    /\ UNCHANGED <<status, parent, sheets, marked, windows, console, presses, late, headFirst, serial>>

(* close_task, at the end of command_task_procedure.                       *)
CloseTask(a) ==
    /\ ~Fatal /\ status[a] = "exiting" /\ cursor[a] = "none"
    /\ Deliver(To(parent[a], <<Event("task deletion response", a)>>), [queues EXCEPT ![a] = <<>>])
    /\ status' = [status EXCEPT ![a] = "closed"]
    /\ UNCHANGED <<parent, desktop, console, entries, cursor, presses, history, serial>>

(***************************************************************************)
(* The specification.                                                      *)
(***************************************************************************)

(* A console waits at its prompt. *)
Init ==
    /\ queues = [t \in Tasks |-> <<>>]
    /\ status = [t \in Tasks |-> IF t \in Applications THEN "none" ELSE "running"]
    /\ parent = [a \in Applications |-> "none"]
    /\ sheets = SheetsOf(ConsoleWindow)
    /\ marked = {}
    /\ windows = {ConsoleWindow}
    /\ owner = [w \in AllWindows |-> IF w = ConsoleWindow THEN "console" ELSE "none"]
    /\ console = [allocated |-> TRUE, accepted |-> FALSE, busy |-> FALSE, exit |-> FALSE]
    /\ serial = [busy |-> FALSE, commands |-> {}]   \* commands: those in the foreground so far
    /\ entries = <<>>
    /\ cursor = [a \in Applications |-> "none"]
    /\ presses = 0
    /\ late = {} /\ disturbed = {} /\ headFirst = {} /\ faults = {}

User ==
    \/ \E w \in AllWindows : ClickCloseButton(w) \/ AltF4(w)
    \/ Enter
    \/ \E a \in Applications, background \in BOOLEAN : SerialCommand(a, background)

(* subject: the window, sheet or task that the first event of the queue is about. *)
HandleEvent(t) ==
    /\ queues[t] # <<>>
    /\ LET subject == Head(queues[t]).subject
       IN  \/ SheetClicked(t, subject)
           \/ CloseButtonClicked(t, subject)
           \/ WindowDeletionRequest(t, subject)
           \/ WindowDeleted(t, subject)
           \/ SheetDeletionRequest(t, subject)
           \/ SheetDeletionResponse(t, subject)
           \/ KeyboardToConsole(t)
           \/ IgnoreCommand(t)
           \/ \E a \in Applications, background \in BOOLEAN : ExecuteCommand(t, a, background)
           \/ CleanUpCommandTask(t, subject)
           \/ ConsoleWindowDeleted(t)
           \/ CloseConsole(t)
           \/ ConsoleClosed(t)

Application(a) ==
    \/ RequestExit(a) \/ Exit(a) \/ DeleteWindows(a) \/ CloseTask(a)
    \/ \E w \in Windows : CreateWindow(a, w)

Next == User \/ (\E t \in Tasks : HandleEvent(t)) \/ (\E a \in Applications : Application(a))

(* Every task is given the processor again and again; the main task and    *)
(* the console handle their events, an application need not: weak fairness *)
(* of HandleEvent, with its guard written out in place of ENABLED.         *)
HasEvent(t) == ~Fatal /\ status[t] = "running" /\ queues[t] # <<>>

Fairness ==
    \A t \in {"main", "console"} :
        []<>~HasEvent(t) \/ []<><<HandleEvent(t)>>_vars
Spec == Init /\ [][Next]_vars /\ Fairness

(***************************************************************************)
(* Properties.                                                             *)
(***************************************************************************)

(* Nobody uses a console or its shell after delete_console, or the queue   *)
(* of its closed task, but for one reason: an application was started by a *)
(* command that was still in the queue when the console accepted its       *)
(* deletion (console.c:21 asks for SHELL_FLAG_BUSY too early), and its end *)
(* is reported to what is freed.                                           *)
ConsoleOutlivesUse == "console" \in faults => late # {}

(* SHELL_FLAG_BUSY is set as long as an application runs in the foreground *)
(* of the console or its end is not yet reported.                          *)
InForeground(a) ==
    /\ parent[a] = "console"
    /\ \/ status[a] \in {"running", "exiting"}
       \/ Event("task deletion response", a) \in ToSet(queues["console"])
BusyMeansRunning ==
    console.allocated => /\ console.busy <=> \E a \in Applications : InForeground(a)
                         /\ \A a, b \in Applications : InForeground(a) /\ InForeground(b) => a = b

(* The serial shell is busy only while one of its foreground commands runs *)
(* or its end is on its way; and it is free during one only because the    *)
(* end of a command in the background was taken for its own (shell.c:507). *)
OfSerial(a) ==
    /\ parent[a] = "main"
    /\ \/ status[a] \in {"running", "exiting"}
       \/ Event("task deletion response", a) \in ToSet(queues["main"])
SerialBusyMeansRunning ==
    LET foreground == {a \in serial.commands : OfSerial(a)}
    IN  /\ serial.busy => foreground # {}
        /\ foreground # {} /\ ~serial.busy =>
             \E a \in Applications \ serial.commands : parent[a] = "main" /\ ~OfSerial(a)

(* An application that has exited leaves no window behind whose events go  *)
(* to its freed queue, if delete_windows is not disturbed by another task, *)
(* and does not stop at its first round (system_call.c:380) because the    *)
(* application owned the head of the list and more.                        *)
ExitTakesWindows ==
    \A a \in Applications \ (disturbed \cup headFirst) :
        status[a] = "closed" => \A w \in windows : owner[w] # a

(* The desktop always settles: a window whose deletion is accepted by the  *)
(* console, or that an application which exited hands over to the main     *)
(* task, is deleted in the end, and the console task closed; unless its    *)
(* root sheet gets a second request after its children are gone, and       *)
(* deletes itself without its window (sheet.c:146).                        *)
Orphan(w) == w \in windows /\ Root(w) \notin sheets
Settled ==
    /\ console.accepted => status["console"] = "closed" \/ Orphan(ConsoleWindow)
    /\ \A w \in Windows \cap windows : owner[w] = "main" => Orphan(w)
CloseCompletes == []<>(Settled \/ Fatal)
================================================================================
