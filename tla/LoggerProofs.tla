---------------------------- MODULE LoggerProofs ----------------------------
(***************************************************************************)
(* Proofs about Logger, for any number of students and of events: the      *)
(* permits of the slot, what the logger has read last, and what a run      *)
(* leaves behind, by one inductive invariant.                              *)
(***************************************************************************)
EXTENDS Logger, TLAPS, FiniteSetTheorems

InSlot == {"id", "text", "up"}
Early == stage \in {"initLogger", "allocLibrary", "initLibrary", "initSimulation"}

\* TypeOK, with the semaphores not yet bounded.
Types ==
    /\ exists \subseteq LoggerObjects \union {"library", "librarian"}
    /\ access \in Nat /\ message \in Nat
    /\ slot \in Processes \X (Processes \X Nat)
    /\ last \in Processes \X (Processes \X Nat)
    /\ opened \in BOOLEAN /\ queue \in Nat /\ raced \in BOOLEAN /\ signalled \in BOOLEAN
    /\ stage \in Stages
    /\ at \in [Processes -> {"off", "busy"} \union InSlot]
    /\ logs \in [Processes -> Nat]
    /\ reader \in {"off", "down", "read", "inQueue", "up", "dead"}
    /\ printer \in {"off", "wait", "outQueue", "dead"}

\* Who takes an event from the queue has seen that there is one.
QueueFilled == printer = "outQueue" => queue > 0

\* initLogger and termLogger create and remove the two objects together, and my_handler
\* can only lose the semaphores.
Objects ==
    /\ "semaphores" \in exists => "slot" \in exists
    /\ stage = "logger" => exists \intersect LoggerObjects = {}

\* Until the logger is forked there is no process but Main, and what it has sent is what
\* is to be read.
Alone ==
    Early =>
        /\ reader = "off" /\ printer = "off"
        /\ \A p \in Processes \ {Main} : at[p] = "off"
        /\ at[Main] \in InSlot \/ logs[Main] > 0 => opened
        /\ opened => message = logs[Main]
Started ==
    /\ stage = "initLogger" => ~opened
    /\ stage \in {"initLogger", "allocLibrary"} => at[Main] = "off" /\ logs[Main] = 0
    /\ stage = "initLibrary" /\ at[Main] \in InSlot => logs[Main] < 2

\* Each permit is somewhere; without a logger, or with semaphores of an earlier run, some
\* may be missing.
Held == access + message + Cardinality(Sending) + Receiving
Counted ==
    /\ Held <= InitialLogs
    /\ opened /\ "semaphores" \in exists /\ reader # "dead" => Held = InitialLogs

Latest ==
    Sending = {} /\ message = 0 /\ reader \in {"down", "inQueue", "up"} /\ "semaphores" \in exists
        => last = slot

\* Without ^C a run starts with nothing, and so nothing fails.
Clean ==
    ~signalled =>
        /\ stage \notin {"crashed", "interrupted"}
        /\ stage = "initLogger" => exists = {}
        /\ stage = "allocLibrary" => exists = LoggerObjects
        /\ stage = "initLibrary" => exists = LoggerObjects \union {"library"}
        /\ stage # "initLogger" => opened
Removed == stage = "returned" => exists = {}

IInv ==
    /\ Types /\ QueueFilled /\ Objects /\ Alone /\ Started /\ Counted /\ Latest
    /\ Clean /\ Removed
-----------------------------------------------------------------------------
USE DEF Processes, kernel, senders, logger, InSlot, LoggerObjects

LEMMA Constants ==
  /\ Main # Librarian /\ Main \notin Students /\ Librarian \notin Students
  /\ MaxLogs \in Nat
  /\ IsFiniteSet(Processes)
  /\ NUM_STUDENTS \in Nat
  /\ InitialLogs \in Nat /\ InitialLogs >= 5
<1>1. IsFiniteSet(Students) /\ IsFiniteSet({Librarian, Main})
  <2>1. {Librarian, Main} = {Librarian} \union {Main}
    OBVIOUS
  <2>2. IsFiniteSet({Librarian, Main})
    <3>1. IsFiniteSet({Librarian}) /\ IsFiniteSet({Main})
      BY FS_Singleton
    <3>2. QED
      BY <2>1, <3>1, FS_Union
  <2>3. QED
    BY <2>2, LoggerAssumption
<1>2. IsFiniteSet(Processes) /\ NUM_STUDENTS \in Nat
  BY <1>1, FS_Union, FS_CardinalityType DEF NUM_STUDENTS
<1>3. QED
  BY <1>2, LoggerAssumption DEF InitialLogs

\* A process enters the slot, leaves it, or does neither.
LEMMA SendingFinite ==
  IsFiniteSet(Sending) /\ Cardinality(Sending) \in Nat
BY Constants, FS_Subset, FS_CardinalityType DEF Sending

LEMMA Enters ==
  ASSUME Types, NEW p \in Processes, at[p] \notin InSlot,
         NEW x \in InSlot, at' = [at EXCEPT ![p] = x]
  PROVE  /\ Cardinality(Sending') = Cardinality(Sending) + 1
         /\ Sending' # {}
<1>1. Sending' = Sending \union {p} /\ p \notin Sending
  BY DEF Types, Sending
<1>2. QED
  BY <1>1, SendingFinite, FS_AddElement

LEMMA Leaves ==
  ASSUME Types, NEW p \in Processes, at[p] \in InSlot,
         NEW x, x \notin InSlot, at' = [at EXCEPT ![p] = x]
  PROVE  /\ Cardinality(Sending') = Cardinality(Sending) - 1
         /\ Sending # {}
<1>1. Sending' = Sending \ {p} /\ p \in Sending
  BY DEF Types, Sending
<1>2. QED
  BY <1>1, SendingFinite, FS_RemoveElement

LEMMA Empty ==
  ASSUME \A p \in Processes : at[p] \notin InSlot
  PROVE  Sending = {} /\ Cardinality(Sending) = 0
BY FS_EmptySet DEF Sending

LEMMA EmptyNext ==
  ASSUME \A p \in Processes : at'[p] \notin InSlot
  PROVE  Sending' = {} /\ Cardinality(Sending') = 0
BY FS_EmptySet DEF Sending

LEMMA ReceivingType == Receiving \in {0, 1}
BY DEF Receiving

LEMMA InitIInv == Init => IInv
<1> SUFFICES ASSUME Init PROVE IInv
  OBVIOUS
<1>1. Types
  BY DEF Init, Types, Stages, Ended, Nothing
<1>5. QueueFilled /\ Objects /\ Alone /\ Started /\ Latest /\ Clean /\ Removed
  BY DEF Init, QueueFilled, Objects, Alone, Early, Started, Latest, Clean, Removed
<1>2. Cardinality(Sending) = 0
  BY Empty DEF Init
<1>3. Counted
  BY <1>2, Constants DEF Init, Counted, Held, Receiving
<1>4. QED
  BY <1>1, <1>3, <1>5 DEF IInv

-----------------------------------------------------------------------------
(* sendLog *)

LEMMA StepSendDown ==
  ASSUME IInv, NEW p \in Processes, SendDown(p)
  PROVE  IInv'
<1> USE Constants, ReceivingType, SendingFinite DEF IInv, SendDown
<1>1. CASE opened
  <2>1. Cardinality(Sending') = Cardinality(Sending) + 1 /\ Sending' # {}
    BY <1>1, Enters
  <2>2. Types' /\ QueueFilled' /\ Objects' /\ Alone' /\ Started' /\ Clean' /\ Removed'
    BY <1>1 DEF Types, QueueFilled, Objects, Alone, Early, Started, Clean, Removed, MaySend
  <2>3. Counted' /\ Latest'
    BY <1>1, <2>1 DEF Counted, Held, Receiving, Latest, Types
  <2>4. QED
    BY <2>2, <2>3
<1>2. CASE ~opened
  <2>1. Sending' = Sending
    BY <1>2 DEF Types, Sending
  <2>2. Types' /\ QueueFilled' /\ Objects' /\ Alone' /\ Started' /\ Clean' /\ Removed'
    BY <1>2 DEF Types, Stages, Ended, QueueFilled, Objects, Alone, Early, Started, Clean, Removed
  <2>3. Counted' /\ Latest'
    BY <1>2, <2>1 DEF Counted, Held, Receiving, Latest, Types
  <2>4. QED
    BY <2>2, <2>3
<1>3. QED
  BY <1>1, <1>2 DEF Types

LEMMA StepSendId ==
  ASSUME IInv, NEW p \in Processes, SendId(p)
  PROVE  IInv'
<1> USE Constants, ReceivingType, SendingFinite DEF IInv, SendId
<1>1. Sending' = Sending /\ Sending' # {}
  BY DEF Sending, Types
<1>2. Types'
  BY DEF Types
<1>3. QueueFilled' /\ Objects' /\ Alone' /\ Started' /\ Clean' /\ Removed'
  BY DEF Types, QueueFilled, Objects, Alone, Early, Started, Clean, Removed
<1>4. Counted' /\ Latest'
  BY <1>1 DEF Counted, Held, Receiving, Latest, Types
<1>5. QED
  BY <1>2, <1>3, <1>4

LEMMA StepSendText ==
  ASSUME IInv, NEW p \in Processes, SendText(p)
  PROVE  IInv'
<1> USE Constants, ReceivingType, SendingFinite DEF IInv, SendText
<1>1. Sending' = Sending /\ Sending' # {}
  BY DEF Sending, Types
<1>2. Types'
  BY DEF Types
<1>3. QueueFilled' /\ Objects' /\ Alone' /\ Started' /\ Clean' /\ Removed'
  BY DEF Types, QueueFilled, Objects, Alone, Early, Started, Clean, Removed
<1>4. Counted' /\ Latest'
  BY <1>1 DEF Counted, Held, Receiving, Latest, Types
<1>5. QED
  BY <1>2, <1>3, <1>4

LEMMA StepSendUp ==
  ASSUME IInv, NEW p \in Processes, SendUp(p)
  PROVE  IInv'
<1> USE Constants, ReceivingType, SendingFinite DEF IInv, SendUp
<1>1. Cardinality(Sending') = Cardinality(Sending) - 1
  BY Leaves
<1>2. Types'
  BY DEF Types
<1>3. QueueFilled' /\ Objects' /\ Alone' /\ Started' /\ Clean' /\ Removed'
  BY DEF Types, QueueFilled, Objects, Alone, Early, Started, Clean, Removed
<1>4. Counted' /\ Latest'
  BY <1>1 DEF Counted, Held, Receiving, Latest, Types
<1>5. QED
  BY <1>2, <1>3, <1>4

-----------------------------------------------------------------------------
(* The logger *)

LEMMA StepMessageDown ==
  ASSUME IInv, MessageDown
  PROVE  IInv'
<1> USE Constants, ReceivingType, SendingFinite DEF IInv, MessageDown
<1>1. Sending' = Sending
  BY DEF Sending
<1>2. Types'
  BY DEF Types, Crash
<1>3. QueueFilled' /\ Objects' /\ Alone' /\ Started' /\ Clean' /\ Removed'
  BY DEF Types, QueueFilled, Objects, Alone, Early, Started, Clean, Removed, Crash
<1>4. Counted' /\ Latest'
  BY <1>1 DEF Counted, Held, Receiving, Latest, Types, Crash
<1>5. QED
  BY <1>2, <1>3, <1>4

LEMMA StepMessageRead ==
  ASSUME IInv, MessageRead
  PROVE  IInv'
<1> USE Constants, ReceivingType, SendingFinite DEF IInv, MessageRead
<1>1. Sending' = Sending
  BY DEF Sending
<1>2. Types'
  BY DEF Types
<1>3. QueueFilled' /\ Objects' /\ Alone' /\ Started' /\ Clean' /\ Removed'
  BY DEF Types, QueueFilled, Objects, Alone, Early, Started, Clean, Removed
<1>4. Counted' /\ Latest'
  BY <1>1 DEF Counted, Held, Receiving, Latest, Types
<1>5. QED
  BY <1>2, <1>3, <1>4

LEMMA StepInQueue ==
  ASSUME IInv, InQueue
  PROVE  IInv'
<1> USE Constants, ReceivingType, SendingFinite DEF IInv, InQueue
<1>1. Sending' = Sending
  BY DEF Sending
<1>2. Types'
  BY DEF Types, Crash
<1>3. QueueFilled' /\ Objects' /\ Alone' /\ Started' /\ Clean' /\ Removed'
  BY DEF Types, QueueFilled, Objects, Alone, Early, Started, Clean, Removed, Crash
<1>4. Counted' /\ Latest'
  BY <1>1 DEF Counted, Held, Receiving, Latest, Types, Crash
<1>5. QED
  BY <1>2, <1>3, <1>4

LEMMA StepMessageUp ==
  ASSUME IInv, MessageUp
  PROVE  IInv'
<1> USE Constants, ReceivingType, SendingFinite DEF IInv, MessageUp
<1>1. Sending' = Sending
  BY DEF Sending
<1>2. Types'
  BY DEF Types, Crash
<1>3. QueueFilled' /\ Objects' /\ Alone' /\ Started' /\ Clean' /\ Removed'
  BY DEF Types, QueueFilled, Objects, Alone, Early, Started, Clean, Removed, Crash
<1>4. Counted' /\ Latest'
  BY <1>1 DEF Counted, Held, Receiving, Latest, Types, Crash
<1>5. QED
  BY <1>2, <1>3, <1>4

LEMMA StepPrintNext ==
  ASSUME IInv, PrintNext
  PROVE  IInv'
<1> USE Constants, ReceivingType, SendingFinite DEF IInv, PrintNext
<1>1. Sending' = Sending
  BY DEF Sending
<1>2. Types'
  BY DEF Types
<1>3. QueueFilled' /\ Objects' /\ Alone' /\ Started' /\ Clean' /\ Removed'
  BY DEF Types, QueueFilled, Objects, Alone, Early, Started, Clean, Removed
<1>4. Counted' /\ Latest'
  BY <1>1 DEF Counted, Held, Receiving, Latest, Types
<1>5. QED
  BY <1>2, <1>3, <1>4

LEMMA StepOutQueue ==
  ASSUME IInv, OutQueue
  PROVE  IInv'
<1> USE Constants, ReceivingType, SendingFinite DEF IInv, OutQueue
<1>1. Sending' = Sending
  BY DEF Sending
<1>2. Types'
  BY DEF Types, QueueFilled, Crash
<1>3. QueueFilled' /\ Objects' /\ Alone' /\ Started' /\ Clean' /\ Removed'
  BY DEF Types, QueueFilled, Objects, Alone, Early, Started, Clean, Removed, Crash
<1>4. Counted' /\ Latest'
  BY <1>1 DEF Counted, Held, Receiving, Latest, Types, Crash
<1>5. QED
  BY <1>2, <1>3, <1>4

-----------------------------------------------------------------------------
(* Main, and the user *)

LEMMA StepInitLogger ==
  ASSUME IInv, initLogger
  PROVE  IInv'
<1> USE Constants, ReceivingType, SendingFinite DEF IInv, initLogger
<1>1. Sending = {} /\ Sending' = {} /\ Cardinality(Sending) = 0 /\ Cardinality(Sending') = 0
  BY Empty, EmptyNext DEF Alone, Early, Started, Types
<1>2. Types'
  BY DEF Types, Stages, Nothing
<1>3. QueueFilled' /\ Objects' /\ Alone' /\ Started' /\ Clean' /\ Removed'
  BY DEF Types, QueueFilled, Objects, Alone, Early, Started, Clean, Removed, Stages
<1>4. Counted' /\ Latest'
  <2>1. Receiving = 0 /\ Receiving' = 0 /\ reader' = "off"
    BY DEF Receiving, Alone, Early
  <2>2. Held = access + message /\ Held' = access' + message'
    BY <1>1, <1>2, <2>1 DEF Held, Types
  <2>3. Held' <= InitialLogs /\ (opened' => Held' = InitialLogs)
    <3>1. CASE "semaphores" \in exists
      <4>1. Held' = Held /\ ~opened'
        BY <2>2, <3>1 DEF Objects
      <4>2. QED
        BY <4>1 DEF Counted
    <3>2. CASE "semaphores" \notin exists
      BY <2>2, <3>2 DEF InitialLogs
    <3>3. QED
      BY <3>1, <3>2
  <2>4. QED
    BY <2>1, <2>3 DEF Counted, Latest
<1>5. QED
  BY <1>2, <1>3, <1>4

LEMMA StepCreate ==
  ASSUME IInv, NEW object \in {"library", "librarian"},
         NEW from \in {"allocLibrary", "initLibrary"}, NEW to \in {"initLibrary", "initSimulation"},
         Create(object, from, to),
         from = "allocLibrary" => object = "library" /\ to = "initLibrary",
         from = "initLibrary" => object = "librarian" /\ to = "initSimulation" /\ logs[Main] = 2
  PROVE  IInv'
<1> USE Constants, ReceivingType, SendingFinite DEF IInv, Create
<1>1. Sending = {} /\ Sending' = {} /\ Cardinality(Sending) = 0 /\ Cardinality(Sending') = 0
  BY Empty, EmptyNext DEF Alone, Early, Started, Types
<1>2. Types'
  BY DEF Types, Stages, Ended
<1>3. QueueFilled' /\ Objects' /\ Alone' /\ Started' /\ Clean' /\ Removed'
  BY DEF Types, QueueFilled, Objects, Alone, Early, Started, Clean, Removed
<1>4. Counted' /\ Latest'
  BY <1>1 DEF Counted, Held, Receiving, Latest, Types, Alone, Early
<1>5. QED
  BY <1>2, <1>3, <1>4

LEMMA StepFork ==
  ASSUME IInv, Fork
  PROVE  IInv'
<1> USE Constants, ReceivingType, SendingFinite DEF IInv, Fork
<1>1. Sending = {} /\ Sending' = {} /\ Cardinality(Sending) = 0 /\ Cardinality(Sending') = 0
  BY Empty, EmptyNext DEF Alone, Early, Started, Types
<1>2. Types'
  BY DEF Types, Stages
<1>3. QueueFilled' /\ Objects' /\ Alone' /\ Started' /\ Clean' /\ Removed'
  BY DEF Types, QueueFilled, Objects, Alone, Early, Started, Clean, Removed, Stages
<1>4. Counted' /\ Latest'
  BY <1>1 DEF Counted, Held, Receiving, Latest, Types, Alone, Early
<1>5. QED
  BY <1>2, <1>3, <1>4

LEMMA StepExit ==
  ASSUME IInv, NEW p \in Processes, Exit(p)
  PROVE  IInv'
<1> USE Constants, ReceivingType, SendingFinite DEF IInv, Exit
<1>1. Sending' = Sending
  BY DEF Sending, Types
<1>2. Types'
  BY DEF Types
<1>3. QueueFilled' /\ Objects' /\ Alone' /\ Started' /\ Clean' /\ Removed'
  BY DEF Types, QueueFilled, Objects, Alone, Early, Started, Clean, Removed
<1>4. Counted' /\ Latest'
  BY <1>1 DEF Counted, Held, Receiving, Latest, Types
<1>5. QED
  BY <1>2, <1>3, <1>4

LEMMA StepWaitStudents ==
  ASSUME IInv, WaitStudents
  PROVE  IInv'
<1> USE Constants, ReceivingType, SendingFinite DEF IInv, WaitStudents
<1>1. Sending' = Sending
  BY DEF Sending
<1>2. Types'
  BY DEF Types, Stages
<1>3. QueueFilled' /\ Objects' /\ Alone' /\ Started' /\ Clean' /\ Removed'
  BY DEF Types, QueueFilled, Objects, Alone, Early, Started, Clean, Removed, Stages
<1>4. Counted' /\ Latest'
  BY <1>1 DEF Counted, Held, Receiving, Latest, Types, Stages
<1>5. QED
  BY <1>2, <1>3, <1>4

LEMMA StepRequested ==
  ASSUME IInv, Requested
  PROVE  IInv'
<1> USE Constants, ReceivingType, SendingFinite DEF IInv, Requested
<1>1. Sending' = Sending
  BY DEF Sending
<1>2. Types'
  BY DEF Types, Stages
<1>3. QueueFilled' /\ Objects' /\ Alone' /\ Started' /\ Clean' /\ Removed'
  BY DEF Types, QueueFilled, Objects, Alone, Early, Started, Clean, Removed, Stages
<1>4. Counted' /\ Latest'
  BY <1>1 DEF Counted, Held, Receiving, Latest, Types, Stages
<1>5. QED
  BY <1>2, <1>3, <1>4

LEMMA StepTermLogger ==
  ASSUME IInv, termLogger
  PROVE  IInv'
<1> USE Constants, ReceivingType, SendingFinite DEF IInv, termLogger
<1>1. Sending' = Sending
  BY DEF Sending
<1>2. Types'
  BY DEF Types, Stages
<1>3. QueueFilled' /\ Objects' /\ Alone' /\ Started' /\ Clean' /\ Removed'
  BY DEF Types, QueueFilled, Objects, Alone, Early, Started, Clean, Removed, Stages
<1>4. Counted' /\ Latest'
  BY <1>1 DEF Counted, Held, Receiving, Latest, Types, Stages
<1>5. QED
  BY <1>2, <1>3, <1>4

LEMMA StepFinish ==
  ASSUME IInv, finish
  PROVE  IInv'
<1> USE Constants, ReceivingType, SendingFinite DEF IInv, finish
<1>1. Sending' = Sending
  BY DEF Sending
<1>2. Types'
  BY DEF Types, Stages, Ended, destroyLibrary, destroyLibrarian
<1>3. QueueFilled' /\ Objects' /\ Alone' /\ Started' /\ Clean' /\ Removed'
  BY DEF Types, QueueFilled, Objects, Alone, Early, Started, Clean, Removed, Stages, Ended, destroyLibrary, destroyLibrarian
<1>4. Counted' /\ Latest'
  BY <1>1 DEF Counted, Held, Receiving, Latest, Types, Stages, Ended, destroyLibrary, destroyLibrarian
<1>5. QED
  BY <1>2, <1>3, <1>4

LEMMA StepMyHandler ==
  ASSUME IInv, my_handler
  PROVE  IInv'
<1> USE Constants, ReceivingType, SendingFinite DEF IInv, my_handler
<1>1. Sending' = {} /\ Cardinality(Sending') = 0
  BY EmptyNext
<1>2. Types'
  BY DEF Types, Stages, Ended, destroyLibrary, destroyLibrarian, Nothing
<1>3. QueueFilled' /\ Objects' /\ Alone' /\ Started' /\ Clean' /\ Removed'
  BY DEF Types, QueueFilled, Objects, Alone, Early, Started, Clean, Removed, Stages, Ended, destroyLibrary, destroyLibrarian, Nothing
<1>4. Counted' /\ Latest'
  BY <1>1 DEF Counted, Held, Receiving, Latest, Types, Stages, Ended, destroyLibrary, destroyLibrarian, Nothing
<1>5. QED
  BY <1>2, <1>3, <1>4

LEMMA StepRunAgain ==
  ASSUME IInv, RunAgain
  PROVE  IInv'
<1> USE Constants, ReceivingType, SendingFinite DEF IInv, RunAgain
<1>1. Sending' = {} /\ Cardinality(Sending') = 0
  BY EmptyNext
<1>2. Types'
  BY DEF Types, Stages, Ended, Nothing
<1>3. QueueFilled' /\ Objects' /\ Alone' /\ Started' /\ Clean' /\ Removed'
  BY DEF Types, QueueFilled, Objects, Alone, Early, Started, Clean, Removed, Stages, Ended, Nothing
<1>4. Counted' /\ Latest'
  BY <1>1 DEF Counted, Held, Receiving, Latest, Types, Stages, Ended, Nothing
<1>5. QED
  BY <1>2, <1>3, <1>4

LEMMA Stutter == IInv /\ UNCHANGED vars => IInv'
<1> SUFFICES ASSUME IInv, UNCHANGED vars PROVE IInv'
  OBVIOUS
<1> USE DEF IInv, vars
<1>1. Sending' = Sending
  BY DEF Sending
<1>2. Types' /\ QueueFilled' /\ Objects' /\ Alone' /\ Started' /\ Clean' /\ Removed'
  BY DEF Types, QueueFilled, Objects, Alone, Early, Started, Clean, Removed
<1>3. Counted' /\ Latest'
  BY <1>1 DEF Counted, Held, Receiving, Latest
<1>4. QED
  BY <1>2, <1>3

LEMMA NextIInv == IInv /\ [Next]_vars => IInv'
<1> SUFFICES ASSUME IInv, [Next]_vars PROVE IInv'
  OBVIOUS
<1>1. ASSUME NEW p \in Processes, sendLog(p) \/ Exit(p) PROVE IInv'
  BY <1>1, StepSendDown, StepSendId, StepSendText, StepSendUp, StepExit DEF sendLog
<1>2. CASE processMessageChannel
  BY <1>2, StepMessageDown, StepMessageRead, StepInQueue, StepMessageUp
  DEF processMessageChannel
<1>3. CASE processEvents
  BY <1>3, StepPrintNext, StepOutQueue DEF processEvents
<1>4. CASE main
  <2>1. CASE allocLibrary
    BY <2>1, StepCreate DEF allocLibrary
  <2>2. CASE initLibrarian
    BY <2>2, StepCreate DEF initLibrarian
  <2>3. QED
    BY <1>4, <2>1, <2>2, StepInitLogger, StepFork, StepWaitStudents, StepRequested,
       StepTermLogger, StepFinish DEF main
<1>5. CASE my_handler \/ RunAgain
  BY <1>5, StepMyHandler, StepRunAgain
<1>6. CASE UNCHANGED vars
  BY <1>6, Stutter
<1>7. QED
  BY <1>1, <1>2, <1>3, <1>4, <1>5, <1>6 DEF Next
-----------------------------------------------------------------------------
\* The inductive invariant holds in every reachable state.
THEOREM Inductive == Spec => []IInv
BY InitIInv, NextIInv, PTL DEF Spec

\* The semaphores of the logger never count more than the permits initLogger made, through
\* any number of runs, interrupted or not, and nobody takes from an empty queue.
THEOREM TypeCorrect == Spec => []TypeOK
<1>1. IInv => TypeOK
  BY Constants, SendingFinite, ReceivingType
  DEF IInv, Types, Counted, Held, TypeOK, InSlot
<1>2. QED
  BY <1>1, Inductive, PTL

\* No permit is lost or multiplied while a run and its logger live, for any number of
\* senders (initLogger, sendLog, processMessageChannel).
THEOREM PermitsKept == Spec => []Permits
<1>1. IInv => Permits
  BY DEF IInv, Counted, Held, Permits, InitialLogs
<1>2. QED
  BY <1>1, Inductive, PTL

\* However many senders overwrite one another's events in the slot, the logger has read
\* its last state once all is quiet (sendLog, processMessageChannel).
THEOREM LatestIsShown == Spec => []LatestShown
<1>1. IInv => LatestShown
  BY DEF IInv, Latest, LatestShown
<1>2. QED
  BY <1>1, Inductive, PTL

\* A run that returns has removed all IPC objects, and only an interrupted run lets a
\* later one fail to start (termLogger, finish, my_handler, initLogger).
THEOREM NothingLeft == Spec => []LeavesNothing
<1>1. IInv => LeavesNothing
  BY DEF IInv, Clean, Removed, LeavesNothing
<1>2. QED
  BY <1>1, Inductive, PTL
=============================================================================
