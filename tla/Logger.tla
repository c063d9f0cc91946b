------------------------------- MODULE Logger -------------------------------
(***************************************************************************)
(* The life of one run of the simulation (soipc_p/simulation.cpp: main,    *)
(* initSimulation, go, finish and the handler of SIGINT) and the logger    *)
(* (logger.cpp), to which every process sends what it shows: a slot in     *)
(* shared memory behind two System V semaphores, read by the logger's      *)
(* message thread, which queues the events for its main thread to print.   *)
(*                                                                         *)
(* Semaphores and shared memory belong to the kernel and outlive the       *)
(* processes, so several runs follow one another here, each with what the  *)
(* one before it has left.  What students and librarian do between two     *)
(* events, and how an event is drawn, is left out.  psemop and pshmat stop *)
(* a process that they fail for (process.cpp).                             *)
(***************************************************************************)
EXTENDS Integers, Sequences, FiniteSets

CONSTANTS
    Students, Librarian, Main,  \* the processes that send
    MaxLogs                     \* bound: how many events each but Main sends

ASSUME LoggerAssumption ==
    /\ Main # Librarian /\ {Main, Librarian} \cap Students = {}
    /\ IsFiniteSet(Students)
    /\ MaxLogs \in Nat

VARIABLES
    exists,     \* the IPC objects in the kernel
    access,     \* semaphore 0 of the logger: how many may write to the slot
    message,    \* semaphore 1 of the logger: how many events are to be read
    slot,       \* the slot: the logId and the text in it
    opened,     \* did shmget give Main, and so its children, the slot?
    stage,      \* where the Main process is
    at,         \* where each process is within sendLog
    logs,       \* how many events each process has sent
    reader,     \* where the message thread is
    printer,    \* where the main thread of the logger is
    queue,      \* how many events there are between the two
    last,       \* history: the last event the message thread read
    raced,      \* history: have the two threads been in the queue together?
    signalled   \* history: has a run ended by ^C, and left something behind?

kernel == <<exists, access, message, slot>>
senders == <<at, logs>>
logger == <<reader, printer, queue, last, raced>>
vars == <<kernel, opened, stage, senders, logger, signalled>>

Processes == Students \union {Librarian, Main}
NUM_STUDENTS == Cardinality(Students)
Nothing == <<Main, <<Main, 0>>>>
LoggerObjects == {"semaphores", "slot"}

(* initLibrary, initLibrarian, initAllCourses, initSimulation and          *)
(* newStudent send an event each, initLibrary two.                         *)
InitialLogs == NUM_STUDENTS + 5

Init ==
    /\ exists = {} /\ access = 0 /\ message = 0 /\ slot = Nothing
    /\ opened = FALSE
    /\ stage = "initLogger"
    /\ at = [p \in Processes |-> "off"] /\ logs = [p \in Processes |-> 0]
    /\ reader = "off" /\ printer = "off" /\ queue = 0 /\ last = Nothing
    /\ raced = FALSE /\ signalled = FALSE

-----------------------------------------------------------------------------
(* sendLog, by Main before there is a logger too.                          *)

MaySend(p) ==
    \/ p # Main /\ logs[p] < MaxLogs
    \/ p = Main /\ \/ stage = "initLibrary" /\ logs[p] < 2
                   \/ stage = "initSimulation" /\ logs[p] < InitialLogs
                   \/ stage = "reqTermination" /\ logs[p] = InitialLogs

\* psem_down, then pshmat, which fails for the identifier of a failed shmget
SendDown(p) ==
    /\ at[p] = "busy" /\ MaySend(p)
    /\ access > 0
    /\ access' = access - 1
    /\ IF opened THEN at' = [at EXCEPT ![p] = "id"] /\ UNCHANGED stage
                 ELSE at' = [at EXCEPT ![p] = "off"] /\ stage' = "crashed"
    /\ UNCHANGED <<exists, message, slot, opened, logs, logger, signalled>>

SendId(p) ==
    /\ at[p] = "id"
    /\ slot' = <<p, slot[2]>>
    /\ at' = [at EXCEPT ![p] = "text"]
    /\ UNCHANGED <<exists, access, message, opened, stage, logs, logger, signalled>>

SendText(p) ==
    /\ at[p] = "text"
    /\ slot' = <<slot[1], <<p, logs[p] + 1>>>>
    /\ at' = [at EXCEPT ![p] = "up"]
    /\ UNCHANGED <<exists, access, message, opened, stage, logs, logger, signalled>>

\* Mutant of SendUp: the sender gives its permit back itself.
SendUpBoth(p) ==
    /\ at[p] = "up"
    /\ message' = message + 1 /\ access' = access + 1
    /\ logs' = [logs EXCEPT ![p] = @ + 1]
    /\ at' = [at EXCEPT ![p] = "busy"]
    /\ UNCHANGED <<exists, slot, opened, stage, logger, signalled>>

SendUp(p) ==
    /\ at[p] = "up"
    /\ message' = message + 1
    /\ logs' = [logs EXCEPT ![p] = @ + 1]
    /\ at' = [at EXCEPT ![p] = "busy"]
    /\ UNCHANGED <<exists, access, slot, opened, stage, logger, signalled>>

\* Mutants of SendId and SendText that together raise the semaphore before the text is
\* there; a mutant of sendLog made of them.
SendIdUp(p) ==
    /\ at[p] = "id"
    /\ slot' = <<p, slot[2]>>
    /\ message' = message + 1
    /\ at' = [at EXCEPT ![p] = "text"]
    /\ UNCHANGED <<exists, access, opened, stage, logs, logger, signalled>>
SendTextLast(p) ==
    /\ at[p] = "text"
    /\ slot' = <<slot[1], <<p, logs[p] + 1>>>>
    /\ logs' = [logs EXCEPT ![p] = @ + 1]
    /\ at' = [at EXCEPT ![p] = "busy"]
    /\ UNCHANGED <<exists, access, message, opened, stage, logger, signalled>>
sendLogEarly(p) == SendDown(p) \/ SendIdUp(p) \/ SendTextLast(p)

sendLog(p) == SendDown(p) \/ SendId(p) \/ SendText(p) \/ SendUp(p)

-----------------------------------------------------------------------------
(* The logger process.  alive() is TRUE in it at all times: termLogger     *)
(* clears the variable _alive_ of Main, which is another one.              *)

\* A semaphore or a list that is not there stops the process.
Crash == reader' = "dead" /\ printer' = "dead"

MessageDown ==
    /\ reader = "down"
    /\ IF "semaphores" \notin exists
       THEN Crash /\ UNCHANGED message
       ELSE /\ message > 0
            /\ message' = message - 1
            /\ reader' = "read" /\ UNCHANGED printer
    /\ UNCHANGED <<exists, access, slot, opened, stage, senders, queue, last, raced, signalled>>

MessageRead ==
    /\ reader = "read"
    /\ last' = slot
    /\ reader' = "inQueue"
    /\ raced' = (raced \/ printer = "outQueue")
    /\ UNCHANGED <<kernel, opened, stage, senders, printer, queue, signalled>>

\* Two calls that overlap, or that follow such calls, may lose the event and stop the
\* process: module Librarian has the steps of queue.cpp they are made of.
InQueue ==
    /\ reader = "inQueue"
    /\ \/ reader' = "up" /\ queue' = queue + 1 /\ UNCHANGED printer
       \/ raced /\ reader' = "up" /\ UNCHANGED <<queue, printer>>
       \/ raced /\ Crash /\ UNCHANGED queue
    /\ UNCHANGED <<kernel, opened, stage, senders, last, raced, signalled>>

\* Mutant of MessageUp: the permit is not given back.
MessageUpNot ==
    /\ reader = "up"
    /\ reader' = "down"
    /\ UNCHANGED <<kernel, opened, stage, senders, printer, queue, last, raced, signalled>>

MessageUp ==
    /\ reader = "up"
    /\ IF "semaphores" \in exists
       THEN access' = access + 1 /\ reader' = "down" /\ UNCHANGED printer
       ELSE Crash /\ UNCHANGED access
    /\ UNCHANGED <<exists, message, slot, opened, stage, senders, queue, last, raced, signalled>>

processMessageChannel == MessageDown \/ MessageRead \/ InQueue \/ MessageUp

\* while(emptyQueue(queue)), then outQueue
PrintNext ==
    /\ printer = "wait"
    /\ queue > 0
    /\ printer' = "outQueue"
    /\ raced' = (raced \/ reader = "inQueue")
    /\ UNCHANGED <<kernel, opened, stage, senders, reader, queue, last, signalled>>

OutQueue ==
    /\ printer = "outQueue"
    /\ \/ printer' = "wait" /\ queue' = queue - 1 /\ UNCHANGED reader
       \/ raced /\ Crash /\ UNCHANGED queue
    /\ UNCHANGED <<kernel, opened, stage, senders, last, raced, signalled>>

processEvents == PrintNext \/ OutQueue

-----------------------------------------------------------------------------
(* The Main process.                                                       *)

\* Mutant of initLogger: a permit for each student and four more.
initLoggerFour ==
    /\ stage = "initLogger"
    /\ IF "semaphores" \in exists
       THEN UNCHANGED <<access, message>>
       ELSE access' = NUM_STUDENTS + 4 /\ message' = 0
    /\ opened' = ("slot" \notin exists)
    /\ slot' = IF opened' THEN Nothing ELSE slot
    /\ exists' = exists \union LoggerObjects
    /\ stage' = "allocLibrary"
    /\ UNCHANGED <<senders, logger, signalled>>

\* IPC_EXCL: what exists is not touched, and that the calls fail is not looked at
initLogger ==
    /\ stage = "initLogger"
    /\ IF "semaphores" \in exists
       THEN UNCHANGED <<access, message>>
       ELSE access' = NUM_STUDENTS + 5 /\ message' = 0
    /\ opened' = ("slot" \notin exists)
    /\ slot' = IF opened' THEN Nothing ELSE slot
    /\ exists' = exists \union LoggerObjects
    /\ stage' = "allocLibrary"
    /\ UNCHANGED <<senders, logger, signalled>>

\* allocLibraryDataStructure and initLibrarian: pshmat and psemget fail for what exists
Create(object, from, to) ==
    /\ stage = from
    /\ IF object \in exists
       THEN stage' = "crashed" /\ UNCHANGED <<exists, at>>
       ELSE /\ exists' = exists \union {object}
            /\ stage' = to
            /\ at' = [at EXCEPT ![Main] = "busy"]
    /\ UNCHANGED <<access, message, slot, opened, logs, logger, signalled>>

allocLibrary == Create("library", "allocLibrary", "initLibrary")
initLibrarian ==
    /\ logs[Main] = 2
    /\ Create("librarian", "initLibrary", "initSimulation")

\* Mutant of Fork: the logger runs without its message thread.
ForkDeaf ==
    /\ stage = "initSimulation" /\ logs[Main] = InitialLogs /\ at[Main] = "busy"
    /\ stage' = "students"
    /\ at' = [p \in Processes |-> "busy"]
    /\ printer' = "wait"
    /\ UNCHANGED <<kernel, opened, logs, reader, queue, last, raced, signalled>>

\* go: logger, librarian and students are forked
Fork ==
    /\ stage = "initSimulation" /\ logs[Main] = InitialLogs /\ at[Main] = "busy"
    /\ stage' = "students"
    /\ at' = [p \in Processes |-> "busy"]
    /\ reader' = "down" /\ printer' = "wait"
    /\ UNCHANGED <<kernel, opened, logs, queue, last, raced, signalled>>

\* A student ends when it likes, the librarian when it has been asked to.
Exit(p) ==
    /\ p # Main /\ at[p] = "busy" /\ stage \in {"students", "reqTermination", "librarian"}
    /\ p = Librarian => stage # "students"
    /\ at' = [at EXCEPT ![p] = "off"]
    /\ UNCHANGED <<kernel, opened, stage, logs, logger, signalled>>

WaitStudents ==
    /\ stage = "students"
    /\ \A s \in Students : at[s] = "off"
    /\ stage' = "reqTermination"
    /\ UNCHANGED <<kernel, opened, senders, logger, signalled>>

Requested ==
    /\ stage = "reqTermination" /\ logs[Main] = InitialLogs + 1
    /\ stage' = "librarian"
    /\ UNCHANGED <<kernel, opened, senders, logger, signalled>>

\* Mutant of termLogger: the slot stays.
termLoggerSlot ==
    /\ stage = "librarian" /\ at[Librarian] = "off"
    /\ exists' = exists \ {"semaphores"} /\ access' = 0 /\ message' = 0
    /\ stage' = "logger"
    /\ UNCHANGED <<slot, opened, senders, logger, signalled>>

termLogger ==
    /\ stage = "librarian" /\ at[Librarian] = "off"
    /\ exists' = exists \ LoggerObjects /\ access' = 0 /\ message' = 0
    /\ stage' = "logger"
    /\ UNCHANGED <<slot, opened, senders, logger, signalled>>

destroyLibrary(objects) == objects \ {"library"}
destroyLibrarian(objects) == objects \ {"librarian"}

\* the logger is waited for, then finish()
finish ==
    /\ stage = "logger"
    /\ reader = "dead"
    /\ exists' = destroyLibrarian(destroyLibrary(exists))
    /\ stage' = "returned"
    /\ UNCHANGED <<access, message, slot, opened, senders, logger, signalled>>

main ==
    \/ initLogger \/ allocLibrary \/ initLibrarian \/ Fork
    \/ WaitStudents \/ Requested \/ termLogger \/ finish

-----------------------------------------------------------------------------
(* The user.                                                               *)

\* my_handler, in every process: finish and exit, with nothing of the logger's removed.
\* Without a library finish gets nowhere; before initLibrarian it removes the semaphores
\* with the identifier 0, which may be the logger's.
my_handler ==
    /\ stage \notin {"returned", "crashed", "interrupted"}
    /\ signalled' = TRUE
    /\ stage' = "interrupted"
    /\ \E lost \in {{}, {"semaphores"}} :
          exists' = CASE stage \in {"initLogger", "allocLibrary"} -> exists
                      [] stage = "initLibrary" -> destroyLibrary(exists) \ lost
                      [] OTHER                 -> destroyLibrarian(destroyLibrary(exists))
    /\ at' = [p \in Processes |-> "off"]
    /\ logs' = [p \in Processes |-> 0]
    /\ reader' = "dead" /\ printer' = "dead" /\ queue' = 0 /\ last' = Nothing
    /\ UNCHANGED <<access, message, slot, opened, raced>>

RunAgain ==
    /\ stage \in {"returned", "crashed", "interrupted"}
    /\ stage' = "initLogger" /\ opened' = FALSE
    /\ at' = [p \in Processes |-> "off"] /\ logs' = [p \in Processes |-> 0]
    /\ reader' = "off" /\ printer' = "off" /\ queue' = 0 /\ last' = Nothing
    /\ slot' = IF "slot" \in exists THEN slot ELSE Nothing
    /\ raced' = FALSE /\ signalled' = (signalled /\ exists # {})
    /\ UNCHANGED <<exists, access, message>>

-----------------------------------------------------------------------------
Next ==
    \/ \E p \in Processes : sendLog(p) \/ Exit(p)
    \/ processMessageChannel \/ processEvents
    \/ main
    \/ my_handler \/ RunAgain

(* Processes and threads are scheduled fairly, the user owes nothing.      *)
FairSpec ==
    /\ Init /\ [][Next]_vars
    /\ \A p \in Processes : WF_vars(sendLog(p)) /\ WF_vars(Exit(p))
    /\ WF_vars(processMessageChannel) /\ WF_vars(processEvents) /\ WF_vars(main)
Spec == Init /\ [][Next]_vars

-----------------------------------------------------------------------------
(* Properties                                                              *)

Ended == {"returned", "crashed", "interrupted"}
Stages == Ended \union {"initLogger", "allocLibrary", "initLibrary", "initSimulation",
                        "students", "reqTermination", "librarian", "logger"}
Sending == {p \in Processes : at[p] \in {"id", "text", "up"}}
Receiving == IF reader \in {"read", "inQueue", "up"} THEN 1 ELSE 0

\* Type invariant.
TypeOK ==
    /\ exists \subseteq LoggerObjects \union {"library", "librarian"}
    /\ access \in 0 .. InitialLogs /\ message \in 0 .. InitialLogs
    /\ slot \in Processes \X (Processes \X Nat)
    /\ last \in Processes \X (Processes \X Nat)
    /\ opened \in BOOLEAN /\ queue \in Nat /\ raced \in BOOLEAN /\ signalled \in BOOLEAN
    /\ stage \in Stages
    /\ at \in [Processes -> {"off", "busy", "id", "text", "up"}]
    /\ logs \in [Processes -> Nat]
    /\ reader \in {"off", "down", "read", "inQueue", "up", "dead"}
    /\ printer \in {"off", "wait", "outQueue", "dead"}

\* The permits of the slot are neither lost nor multiplied while a run and its logger live:
\* each is free, or with a sender, or with an event not read yet, or with the message
\* thread (initLogger, sendLog, processMessageChannel).
Permits ==
    opened /\ "semaphores" \in exists /\ reader # "dead" =>
        access + message + Cardinality(Sending) + Receiving = NUM_STUDENTS + 5

\* The slot has many permits, so that senders overwrite and mix each other's events.  What
\* the logger has read last is nevertheless what the slot holds, whenever nobody is sending
\* and nothing is left to be read: the latest state of things does get through.
LatestShown ==
    Sending = {} /\ message = 0 /\ reader = "down" /\ "semaphores" \in exists => last = slot

\* A run that returns has removed all it created, and a run only fails to start after one
\* that was interrupted: my_handler leaves semaphores and slot of the logger behind, and
\* the next run stops at its first event, when pshmat fails (or waits for ever for it).
LeavesNothing ==
    /\ stage = "returned" => exists = {}
    /\ stage = "crashed" => signalled

\* initSimulation sends NUM_STUDENTS + 5 events before there is a process that could read
\* one, and it gets to its end: the permits are enough for all of them.
InitEnds == [](~signalled) => (stage = "initLogger" ~> stage = "students")

\* A run returns (go, finish), although nothing ever tells the logger to end: termLogger
\* takes its semaphores away, which stops it, wherever it is.  When the two threads have
\* damaged the queue and so stopped the logger too early, the run may wait for ever.
Returns == [](~signalled /\ ~raced) => (stage = "initLogger" ~> stage = "returned")
=============================================================================
