------------------------------ MODULE Librarian ------------------------------
(***************************************************************************)
(* The librarian process (soipc_p/librarian.cpp) and how requests reach    *)
(* it.  Students and the main process post requests in a mailbox of one    *)
(* slot in shared memory (inQueueShm); the librarian's message thread      *)
(* moves them to the queue reqQueue (outQueueShm), and its main thread     *)
(* takes them from there once or twice a day (life, handleRequests).  The  *)
(* mailbox is guarded by two semaphores.  The queue (queue.cpp) is not     *)
(* guarded at all, so its operations are split where the two threads can   *)
(* get between each other's steps; n++ and n-- are a load and a store.     *)
(* What collectBooks does to the seats is in module Library; sleeping,     *)
(* eating and fun only spend time and log, and are left out.               *)
(***************************************************************************)
EXTENDS Integers, Sequences, FiniteSets

CONSTANTS
    Students,     \* the student processes
    Main,         \* the process that started them (simulation.cpp, go)
    NULL,         \* the null pointer
    NumStudies,   \* bound: how often each student studies
    MinRequests,  \* MIN_REQUESTS_PER_PERIOD
    MaxRequests   \* MAX_REQUESTS_PER_PERIOD

ASSUME LibrarianAssumption ==
    /\ Main \notin Students
    /\ NumStudies \in Nat
    /\ MinRequests \in Nat /\ MaxRequests \in Nat /\ MinRequests <= MaxRequests
    /\ IsFiniteSet(Students)

Clients == Students \union {Main}

(* A request is named by its sender and its place in what the sender does: *)
(* a student enrolls, asks for a collection after each study, and leaves.  *)
LastRequest(c) == IF c = Main THEN 1 ELSE NumStudies + 2
Requests == {r \in Clients \X (1 .. NumStudies + 2) : r[2] <= LastRequest(r[1])}

ASSUME NullAssumption == NULL \notin Requests

REQ_TERMINATION == "REQ_TERMINATION"
REQ_COLLECT_BOOKS == "REQ_COLLECT_BOOKS"
REQ_ENROLL_STUDENT == "REQ_ENROLL_STUDENT"
REQ_DISENROLL_STUDENT == "REQ_DISENROLL_STUDENT"
id(r) == IF r[1] = Main THEN REQ_TERMINATION
         ELSE CASE r[2] = 1                 -> REQ_ENROLL_STUDENT
                [] r[2] = LastRequest(r[1]) -> REQ_DISENROLL_STUDENT
                [] OTHER                    -> REQ_COLLECT_BOOKS

VARIABLES
    access, message,        \* the semaphores of semid_librarian ...
    slot,                   \* ... and the slot they guard
    head, tail, next, size, \* reqQueue; an Item is named by the request it holds (each is
                            \* queued once, as long as outQueue is still called)
    cpc, sent,              \* each client: where it is, how many requests it made
    mpc, copyRequest, mreg, \* message thread: where, its request, a loaded size
    lpc, req, lreg,         \* life thread: where, its request, a loaded size
    period, left,           \* ... which half of the day, requests left in it
    back, dropped,          \* ... where outQueue returns to, requests dropped so far
    alive, enrolledStudents,
    received, handled,      \* history: requests given to inQueue and handleRequest
    raced                   \* history: has outQueue ever overlapped inQueue?

mailbox == <<access, message, slot>>
queue   == <<head, tail, next, size>>
clients == <<cpc, sent>>
thread  == <<mpc, copyRequest, mreg>>
loop    == <<period, left, back, dropped>>
day     == <<lpc, req, lreg, loop>>
desk    == <<alive, enrolledStudents, handled>>
\* all a step of the life thread leaves alone, unless it touches the queue
others  == <<mailbox, clients, thread, received>>
vars    == <<mailbox, queue, clients, thread, day, desk, received, raced>>

(* initLibrarian, and the global variables of librarian.cpp *)
Init ==
    /\ access = 1 /\ message = 0 /\ slot = NULL
    /\ head = NULL /\ tail = NULL /\ size = 0
    /\ next = [r \in Requests |-> NULL]
    /\ cpc = [c \in Clients |-> "busy"] /\ sent = [c \in Clients |-> 0]
    /\ mpc = "while" /\ copyRequest = NULL /\ mreg = 0
    /\ lpc = "while" /\ req = NULL /\ lreg = 0
    /\ period = 1 /\ left = 0 /\ back = "next" /\ dropped = 0
    /\ alive = TRUE /\ enrolledStudents = 0
    /\ received = <<>> /\ handled = <<>> /\ raced = FALSE

emptyQueue == size = 0
aliveLibrarian == alive \/ ~emptyQueue

Inside == {"inNext", "inHead", "inTail", "inLoad", "inStore"}
OutSide == {"outAdvance", "outLast", "outTail", "outLoad", "outStore"}

\* An assert or a null pointer stops the process, with both its threads.
Crash == mpc' = "crashed" /\ lpc' = "crashed"

-----------------------------------------------------------------------------
(* Clients: reqEnrollStudent, reqCollectBooks, reqDisenrollStudent and     *)
(* reqTermination all post with inQueueShm.                                *)

\* Mutant: the main process does not wait for the students.
MayPostEarly(c) == sent[c] < LastRequest(c)

MayPost(c) ==
    /\ sent[c] < LastRequest(c)
    /\ c = Main => \A s \in Students : cpc[s] = "exited"

\* Mutant: the mailbox is written without its semaphore.
PostDownFree(c) ==
    /\ cpc[c] = "busy"
    /\ MayPost(c)
    /\ cpc' = [cpc EXCEPT ![c] = "write"]
    /\ UNCHANGED <<mailbox, queue, sent, thread, day, desk, received, raced>>

PostDown(c) ==
    /\ cpc[c] = "busy"
    /\ MayPost(c)
    /\ access > 0
    /\ access' = access - 1
    /\ cpc' = [cpc EXCEPT ![c] = "write"]
    /\ UNCHANGED <<message, slot, queue, sent, thread, day, desk, received, raced>>

PostWrite(c) ==
    /\ cpc[c] = "write"
    /\ slot' = <<c, sent[c] + 1>>
    /\ cpc' = [cpc EXCEPT ![c] = "post"]
    /\ UNCHANGED <<access, message, queue, sent, thread, day, desk, received, raced>>

PostUp(c) ==
    /\ cpc[c] = "post"
    /\ message' = message + 1
    /\ sent' = [sent EXCEPT ![c] = @ + 1]
    /\ cpc' = [cpc EXCEPT ![c] = IF c # Main /\ sent'[c] = LastRequest(c)
                                 THEN "exited" ELSE "busy"]
    /\ UNCHANGED <<access, slot, queue, thread, day, desk, received, raced>>

\* go() waits for the librarian process after it asked it to terminate.
MainExit ==
    /\ cpc[Main] = "busy"
    /\ sent[Main] = 1
    /\ lpc \in {"exited", "crashed"}
    /\ cpc' = [cpc EXCEPT ![Main] = "exited"]
    /\ UNCHANGED <<mailbox, queue, sent, thread, day, desk, received, raced>>

-----------------------------------------------------------------------------
(* The message thread: outQueueShm and inQueue.                            *)

MessageWhile ==
    /\ mpc = "while"
    /\ mpc' = IF aliveLibrarian THEN "down" ELSE "exited"
    /\ UNCHANGED <<mailbox, queue, clients, copyRequest, mreg, day, desk, received, raced>>

MessageDown ==
    /\ mpc = "down"
    /\ message > 0
    /\ message' = message - 1
    /\ mpc' = "test"
    /\ UNCHANGED <<access, slot, queue, clients, copyRequest, mreg, day, desk, received, raced>>

MessageTest ==
    /\ mpc = "test"
    /\ mpc' = IF aliveLibrarian THEN "copy" ELSE "exited"
    /\ UNCHANGED <<mailbox, queue, clients, copyRequest, mreg, day, desk, received, raced>>

MessageCopy ==
    /\ mpc = "copy"
    /\ copyRequest' = slot
    /\ mpc' = "inQueue"
    /\ UNCHANGED <<mailbox, queue, clients, mreg, day, desk, received, raced>>

\* if (queue->tail != NULL)
InTest ==
    /\ mpc = "inQueue"
    /\ mpc' = IF tail # NULL THEN "inNext" ELSE "inHead"
    /\ received' = Append(received, copyRequest)
    /\ raced' = (raced \/ lpc \in OutSide)
    /\ UNCHANGED <<mailbox, queue, clients, copyRequest, mreg, day, desk>>

\* queue->tail->next = item
InNext ==
    /\ mpc = "inNext"
    /\ IF tail = NULL
       THEN Crash /\ UNCHANGED next
       ELSE /\ next' = [next EXCEPT ![tail] = copyRequest]
            /\ mpc' = "inTail"
            /\ UNCHANGED lpc
    /\ UNCHANGED <<mailbox, head, tail, size, clients, copyRequest, mreg, req, lreg,
                   loop, desk, received, raced>>

\* queue->head = item
InHead ==
    /\ mpc = "inHead"
    /\ head' = copyRequest
    /\ mpc' = "inTail"
    /\ UNCHANGED <<mailbox, tail, next, size, clients, copyRequest, mreg, day, desk,
                   received, raced>>

InTail ==
    /\ mpc = "inTail"
    /\ tail' = copyRequest
    /\ mpc' = "inLoad"
    /\ UNCHANGED <<mailbox, head, next, size, clients, copyRequest, mreg, day, desk,
                   received, raced>>

InLoad ==
    /\ mpc = "inLoad"
    /\ mreg' = size
    /\ mpc' = "inStore"
    /\ UNCHANGED <<mailbox, queue, clients, copyRequest, day, desk, received, raced>>

InStore ==
    /\ mpc = "inStore"
    /\ size' = mreg + 1
    /\ mreg' = 0
    /\ mpc' = "up"
    /\ UNCHANGED <<mailbox, head, tail, next, clients, copyRequest, day, desk, received, raced>>

MessageUp ==
    /\ mpc = "up"
    /\ access' = access + 1
    /\ copyRequest' = NULL
    /\ mpc' = "while"
    /\ UNCHANGED <<message, slot, queue, clients, mreg, day, desk, received, raced>>

-----------------------------------------------------------------------------
(* The life thread.                                                        *)

LifeWhile ==
    /\ lpc = "while"
    /\ lpc' = IF aliveLibrarian THEN "handle" ELSE "done"
    /\ UNCHANGED <<others, queue, req, lreg, loop, desk, raced>>

\* Mutant: the librarian waits for a request before its work goes on.
HandleRequestsBlocking ==
    /\ lpc = "handle"
    /\ emptyQueue => ~alive
    /\ IF alive
       THEN lpc' = "next" /\ left' \in MinRequests .. MaxRequests
       ELSE lpc' = "collect" /\ UNCHANGED left
    /\ UNCHANGED <<others, queue, req, lreg, period, back, dropped, desk, raced>>

\* handleRequests(): nothing at all once termination was requested
HandleRequests ==
    /\ lpc = "handle"
    /\ IF alive
       THEN lpc' = "next" /\ left' \in MinRequests .. MaxRequests
       ELSE lpc' = "collect" /\ UNCHANGED left
    /\ UNCHANGED <<others, queue, req, lreg, period, back, dropped, desk, raced>>

\* Mutant: the number of requests of the period is not a limit.
NextRequestUnbounded ==
    /\ lpc = "next"
    /\ IF emptyQueue
       THEN lpc' = "collect" /\ left' = 0
       ELSE lpc' = "outQueue" /\ left' = left - 1
    /\ back' = "request"
    /\ UNCHANGED <<others, queue, req, lreg, period, dropped, desk, raced>>

NextRequest ==
    /\ lpc = "next"
    /\ IF left = 0 \/ emptyQueue
       THEN lpc' = "collect" /\ left' = 0
       ELSE lpc' = "outQueue" /\ left' = left - 1
    /\ back' = "request"
    /\ UNCHANGED <<others, queue, req, lreg, period, dropped, desk, raced>>

\* assert (sizeQueue(queue) > 0); res = queue->head->elem
OutFirst ==
    /\ lpc = "outQueue"
    /\ raced' = (raced \/ mpc \in Inside)
    /\ IF size > 0 /\ head # NULL
       THEN lpc' = "outAdvance" /\ req' = head /\ UNCHANGED mpc
       ELSE Crash /\ UNCHANGED req
    /\ UNCHANGED <<mailbox, queue, clients, copyRequest, mreg, lreg, loop, desk, received>>

\* queue->head = queue->head->next
OutAdvance ==
    /\ lpc = "outAdvance"
    /\ head' = next[head]
    /\ lpc' = "outLast"
    /\ UNCHANGED <<others, tail, next, size, req, lreg, loop, desk, raced>>

\* if (queue->head == NULL)
OutLast ==
    /\ lpc = "outLast"
    /\ lpc' = IF head = NULL THEN "outTail" ELSE "outLoad"
    /\ UNCHANGED <<others, queue, req, lreg, loop, desk, raced>>

\* Mutant: the tail still points to the last element taken.
OutTailKept ==
    /\ lpc = "outTail"
    /\ lpc' = "outLoad"
    /\ UNCHANGED <<others, queue, req, lreg, loop, desk, raced>>

OutTail ==
    /\ lpc = "outTail"
    /\ tail' = NULL
    /\ lpc' = "outLoad"
    /\ UNCHANGED <<others, head, next, size, req, lreg, loop, desk, raced>>

OutLoad ==
    /\ lpc = "outLoad"
    /\ lreg' = size
    /\ lpc' = "outStore"
    /\ UNCHANGED <<others, queue, req, loop, desk, raced>>

OutStore ==
    /\ lpc = "outStore"
    /\ size' = lreg - 1
    /\ lreg' = 0
    /\ lpc' = back
    /\ UNCHANGED <<others, head, tail, next, req, loop, desk, raced>>

HandleRequest ==
    /\ lpc = "request"
    /\ handled' = Append(handled, req)
    /\ req' = NULL
    /\ dropped' = 0
    /\ alive' = (alive /\ id(req) # REQ_TERMINATION)
    /\ enrolledStudents' =
          CASE id(req) = REQ_ENROLL_STUDENT    -> enrolledStudents + 1
            [] id(req) = REQ_DISENROLL_STUDENT -> enrolledStudents - 1
            [] OTHER                           -> enrolledStudents
    /\ lpc' = IF id(req) = REQ_TERMINATION THEN "drop" ELSE "next"
    /\ UNCHANGED <<others, queue, lreg, period, left, back, raced>>

\* for(int i=0;i<sizeQueue(reqQueue);i++) outQueue(reqQueue)
Drop ==
    /\ lpc = "drop"
    /\ req' = NULL
    /\ IF dropped < size
       THEN lpc' = "outQueue" /\ dropped' = dropped + 1
       ELSE lpc' = "collect" /\ UNCHANGED dropped
    /\ back' = "drop"
    /\ left' = 0
    /\ UNCHANGED <<others, queue, lreg, period, desk, raced>>

\* collectBooks(), twice a day
CollectBooks ==
    /\ lpc = "collect"
    /\ lpc' = IF period = 1 THEN "handle" ELSE "while"
    /\ period' = 3 - period
    /\ UNCHANGED <<others, queue, req, lreg, left, back, dropped, desk, raced>>

\* Mutant: nobody wakes the message thread up.
DoneNoWake ==
    /\ lpc = "done"
    /\ lpc' = "join"
    /\ UNCHANGED <<others, queue, req, lreg, loop, desk, raced>>

\* mainLibrarian wakes the message thread up after life() ...
DoneUp ==
    /\ lpc = "done"
    /\ message' = message + 1
    /\ lpc' = "join"
    /\ UNCHANGED <<access, slot, queue, clients, thread, req, lreg, loop, desk,
                   received, raced>>

\* ... and joins it
Join ==
    /\ lpc = "join"
    /\ mpc = "exited"
    /\ lpc' = "exited"
    /\ UNCHANGED <<others, queue, req, lreg, loop, desk, raced>>
-----------------------------------------------------------------------------
Post(c) == PostDown(c) \/ PostWrite(c) \/ PostUp(c)
inQueue == InTest \/ InNext \/ InHead \/ InTail \/ InLoad \/ InStore
outQueue == OutFirst \/ OutAdvance \/ OutLast \/ OutTail \/ OutLoad \/ OutStore
MessageThread == MessageWhile \/ MessageDown \/ MessageTest \/ MessageCopy \/ inQueue \/ MessageUp
Life == \/ LifeWhile \/ HandleRequests \/ NextRequest \/ outQueue \/ HandleRequest \/ Drop
        \/ CollectBooks \/ DoneUp \/ Join

Next == MainExit \/ MessageThread \/ Life \/ \E c \in Clients : Post(c)

Spec == Init /\ [][Next]_vars

(* The librarian's two threads and the main process are scheduled fairly.  *)
(* A client owes nothing: a student may wait for books as long as it likes.*)
FairSpec == Spec /\ WF_vars(MainExit) /\ WF_vars(MessageThread) /\ WF_vars(Life)

-----------------------------------------------------------------------------
(* Properties. *)

MessageLabels == Inside \union {"while", "down", "test", "copy", "inQueue", "up", "exited", "crashed"}
LifeLabels == OutSide \union {"while", "handle", "next", "outQueue", "request", "drop", "collect",
                "done", "join", "exited", "crashed"}

\* Type invariant.
TypeOK ==
    /\ access \in 0 .. 2 /\ message \in 0 .. 2 /\ slot \in Requests \union {NULL}
    /\ {head, tail} \subseteq Requests \union {NULL} /\ size \in Int
    /\ next \in [Requests -> Requests \union {NULL}]
    /\ cpc \in [Clients -> {"busy", "write", "post", "exited"}]
    /\ \A c \in Clients : sent[c] \in 0 .. LastRequest(c)
    /\ mpc \in MessageLabels /\ copyRequest \in Requests \union {NULL} /\ mreg \in Int
    /\ lpc \in LifeLabels /\ req \in Requests \union {NULL} /\ lreg \in Int
    /\ period \in {1, 2} /\ left \in 0 .. MaxRequests /\ back \in {"request", "drop", "next"}
    /\ dropped \in Nat /\ alive \in BOOLEAN /\ enrolledStudents \in Int
    /\ {received, handled} \subseteq Seq(Requests) /\ raced \in BOOLEAN

Posted == {r \in Requests : r[2] <= sent[r[1]]}
Count(r, s) == Cardinality({k \in DOMAIN s : s[k] = r})

\* The one slot of the mailbox loses nothing and repeats nothing while life() runs, whatever
\* becomes of the queue behind it: a posted request is received once, and until then it is
\* still in the slot and the message thread has been or will be told (inQueueShm,
\* outQueueShm).  Later the wake-up of mainLibrarian may pass for a request.
EachReceivedOnce ==
    lpc \notin {"join", "exited", "crashed"} =>
        /\ \A r \in Requests : Count(r, received) <= (IF r \in Posted THEN 1 ELSE 0)
        /\ \A r \in Posted : Count(r, received) = 0 =>
              /\ r = slot
              /\ message > 0 \/ mpc \in {"test", "copy", "inQueue"}

\* The queue is a list of these requests, in this order, from the head to the tail.
Holds(requests) ==
    LET n == Len(requests)
    IN  /\ size = n
        /\ head = IF n = 0 THEN NULL ELSE requests[1]
        /\ tail = IF n = 0 THEN NULL ELSE requests[n]
        /\ \A k \in 1 .. n : next[requests[k]] = IF k = n THEN NULL ELSE requests[k + 1]

\* As long as the two threads never get into the queue together, requests are handled
\* in the order they were received, and those not yet handled are in the queue.
InOrder ==
    ~raced /\ mpc \notin Inside /\ lpc \notin OutSide \union {"request", "crashed"} =>
        /\ handled = SubSeq(received, 1, Len(handled))
        /\ Holds(SubSeq(received, Len(handled) + 1, Len(received)))

\* The count of students still active is right at every moment, and no student is left
\* enrolled when the librarian goes home: termination comes last and nothing is dropped
\* with it (handleRequest, librarian.cpp:390).
StudentsCounted ==
    ~raced =>
        /\ enrolledStudents \in 0 .. Cardinality(Students)
        /\ lpc \in {"done", "join", "exited"} => enrolledStudents = 0 /\ dropped = 0

\* Once termination is requested everybody goes home: the life thread, the message
\* thread, which sleeps on an empty mailbox and must be woken up for it (mainLibrarian),
\* and the main process that waits for them (go).
AllExit ==
    [](~raced) => (sent[Main] = 1
                     ~> (cpc[Main] = "exited" /\ lpc = "exited" /\ mpc = "exited"))

\* Until then the librarian walks the seats over and over, however long the students
\* keep silent: a student that waits for missing books posts nothing before it has
\* them (life, handleRequests).  The fairness of module Library's CollectBooks is this.
KeepsCollecting == [](~raced) => []<>(lpc = "collect" \/ sent[Main] = 1)

\* "librarian should be alive until a request for termination and an empty reqQueue"
\* (librarian.cpp:205).
AliveUntilTermination == lpc \in {"exited", "crashed"} => ~alive /\ emptyQueue
=============================================================================
