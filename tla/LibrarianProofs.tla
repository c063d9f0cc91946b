--------------------------- MODULE LibrarianProofs ---------------------------
(***************************************************************************)
(* Proofs about Librarian, for any number of students and of studies: the  *)
(* mailbox loses and repeats nothing whatever becomes of the queue behind  *)
(* it; and as long as the two threads do not meet in the queue, requests   *)
(* are handled in the order they were received, and the students are       *)
(* counted.                                                                *)
(***************************************************************************)
EXTENDS Librarian, TLAPS, FiniteSetTheorems, SequenceTheorems

(***************************************************************************)
(* The mailbox.                                                            *)
(***************************************************************************)
\* TypeOK, with the semaphores not yet bounded.
Types ==
    /\ access \in Nat /\ message \in Nat /\ slot \in Requests \union {NULL}
    /\ {head, tail} \subseteq Requests \union {NULL} /\ size \in Int
    /\ next \in [Requests -> Requests \union {NULL}]
    /\ cpc \in [Clients -> {"busy", "write", "post", "exited"}]
    /\ sent \in [Clients -> Nat] /\ \A c \in Clients : sent[c] <= LastRequest(c)
    /\ mpc \in MessageLabels /\ copyRequest \in Requests \union {NULL} /\ mreg \in Int
    /\ lpc \in LifeLabels /\ req \in Requests \union {NULL} /\ lreg \in Int
    /\ period \in {1, 2} /\ left \in 0 .. MaxRequests /\ back \in {"request", "drop", "next"}
    /\ dropped \in Nat /\ alive \in BOOLEAN /\ enrolledStudents \in Int
    /\ received \in Seq(Requests) /\ handled \in Seq(Requests) /\ raced \in BOOLEAN

Termination == <<Main, 1>>
Received == {received[k] : k \in DOMAIN received}
Handled == {handled[k] : k \in DOMAIN handled}

\* The permit of the mailbox is with one of them, and mainLibrarian makes a second one.
Posting == {c \in Clients : cpc[c] \in {"write", "post"}}
Serving == IF mpc \in Inside \union {"test", "copy", "inQueue", "up"} THEN 1 ELSE 0
Woken == IF lpc \in {"join", "exited"} THEN 1 ELSE 0
OnePermit == access + message + Cardinality(Posting) + Serving <= 1 + Woken

\* Clients post what is theirs to post, and Main only after the students.
InTurn ==
    /\ \A c \in Posting : sent[c] < LastRequest(c)
    /\ \A s \in Students : cpc[s] = "exited" => sent[s] = LastRequest(s)
    /\ Main \in Posting \/ sent[Main] = 1 => \A s \in Students : cpc[s] = "exited"

\* What life() and the queue hold has been received; null pointers are where they are
\* expected.
Items ==
    /\ {head, tail, req} \subseteq Received \union {NULL}
    /\ \A r \in Requests : next[r] \in Received \union {NULL}
    /\ mpc \in Inside => copyRequest \in Received
    /\ mpc = "inQueue" => copyRequest # NULL
    /\ lpc = "outAdvance" => head # NULL
    /\ lpc \in OutSide \union {"request"} => req # NULL
    /\ slot = NULL => /\ message = 0 /\ mpc \notin {"test", "copy", "inQueue"}
                      /\ received = <<>>
                      /\ \A c \in Clients : cpc[c] # "post"
    /\ ~alive => Termination \in Received
    /\ lpc \in {"drop", "done", "join", "exited"} \/ back = "drop" => ~alive

Running == lpc \notin {"join", "exited", "crashed"}
Pending == message > 0 \/ mpc \in {"test", "copy", "inQueue"}

Mailbox ==
    /\ \A c \in Clients : cpc[c] = "post" => slot = <<c, sent[c] + 1>>
    /\ Pending => slot \in Posted \ Received
    /\ mpc = "inQueue" => copyRequest = slot
    /\ Posted \subseteq Received \union {slot}
    /\ ~Pending => Posted \subseteq Received
    /\ Received \subseteq Posted
    /\ \A j, k \in DOMAIN received : received[j] = received[k] => j = k
    /\ sent[Main] = 1 /\ Pending => slot = Termination
    /\ Termination \in Received => received[Len(received)] = Termination

MailInv == Types /\ OnePermit /\ InTurn /\ Items /\ (Running => Mailbox)

(***************************************************************************)
(* The queue, as long as outQueue does not overlap inQueue.  received is   *)
(* the list: taken counts the requests that have left the queue, linked    *)
(* those that are in the list or have been.                                *)
(***************************************************************************)
Taken == Len(handled) + IF lpc \in OutSide \union {"request"} THEN 1 ELSE 0
First == IF lpc = "outAdvance" THEN Taken ELSE Taken + 1
Linked == Len(received) - IF mpc \in {"inNext", "inHead"} THEN 1 ELSE 0
Tailed == Len(received) - IF mpc \in {"inNext", "inHead", "inTail"} THEN 1 ELSE 0
Counted == Len(received) - IF mpc \in Inside THEN 1 ELSE 0
Left == IF lpc \in OutSide THEN Len(handled) ELSE Taken

Apart == mpc \in Inside => lpc \notin OutSide
Prefix ==
    /\ Taken <= Counted
    /\ \A k \in 1 .. Len(handled) : handled[k] = received[k]
    /\ lpc \in OutSide \union {"request"} => req = received[Taken]
Links ==
    /\ head = IF First <= Linked THEN received[First] ELSE NULL
    /\ \A k \in First .. Linked : next[received[k]] = IF k < Linked THEN received[k + 1] ELSE NULL
    /\ mpc \in {"inNext", "inHead"} => next[received[Len(received)]] = NULL
    /\ \A r \in Requests \ Received : next[r] = NULL
    /\ tail = IF Tailed > (IF lpc \in {"outAdvance", "outLast", "outTail"} THEN Len(handled) ELSE Taken)
              THEN received[Tailed] ELSE NULL
    /\ mpc = "inNext" => Taken < Tailed
    /\ mpc = "inHead" => Taken = Tailed
    /\ mpc \in Inside => copyRequest = received[Len(received)]
Sizes ==
    /\ size = Counted - Left
    /\ lpc = "outStore" => lreg = size
    /\ mpc = "inStore" => mreg = size
    /\ lpc = "outQueue" => Taken < Counted
    /\ lpc = "outTail" => Taken = Linked

\* A client's requests are received in its order.
Ordered ==
    \A k \in DOMAIN received : \A m \in 1 .. received[k][2] - 1 :
        \E j \in 1 .. k - 1 : received[j] = <<received[k][1], m>>

Enrolled == {s \in Students : <<s, 1>> \in Handled /\ <<s, LastRequest(s)>> \notin Handled}

\* Termination is the last request and leaves nothing to be dropped.
Terminated ==
    /\ dropped = 0
    /\ lpc \in OutSide \union {"outQueue"} => back = "request"
    /\ lpc \in OutSide \union {"outQueue", "request"} => alive
    /\ ~alive => /\ Termination \in Handled
                 /\ Len(handled) = Len(received)
                 /\ mpc \notin Inside \union {"copy", "inQueue"}
                 /\ enrolledStudents = 0
    /\ Termination \in Handled => ~alive

Fifo == Apart /\ Prefix /\ Links /\ Sizes /\ Ordered /\ Terminated
        /\ enrolledStudents = Cardinality(Enrolled)

IInv == MailInv /\ (~raced => lpc # "crashed" /\ Fifo)
-----------------------------------------------------------------------------
USE DEF mailbox, queue, clients, thread, loop, day, desk, others, Clients, Inside, OutSide

LEMMA Constants ==
  /\ Main \notin Students /\ Main \in Clients
  /\ NumStudies \in Nat /\ MinRequests \in Nat /\ MaxRequests \in Nat
  /\ IsFiniteSet(Clients)
  /\ NULL \notin Requests
  /\ Termination \in Requests
<1>1. IsFiniteSet(Students) /\ IsFiniteSet({Main})
  BY LibrarianAssumption, FS_Singleton
<1>2. IsFiniteSet(Clients)
  BY <1>1, FS_Union
<1>3. QED
  BY <1>2, LibrarianAssumption, NullAssumption DEF Termination, Requests, LastRequest

LEMMA LastType ==
  ASSUME NEW c \in Clients
  PROVE  LastRequest(c) \in 1 .. NumStudies + 2
BY Constants DEF LastRequest

LEMMA RequestType ==
  ASSUME NEW c \in Clients, NEW n \in 1 .. LastRequest(c)
  PROVE  <<c, n>> \in Requests
BY LastType, Constants DEF Requests

LEMMA RequestParts ==
  ASSUME NEW r \in Requests
  PROVE  /\ r[1] \in Clients /\ r[2] \in 1 .. LastRequest(r[1])
         /\ r = <<r[1], r[2]>>
BY LastType, Constants DEF Requests

\* Who waits in the mailbox.
LEMMA PostingFinite ==
  IsFiniteSet(Posting) /\ Cardinality(Posting) \in Nat
BY Constants, FS_Subset, FS_CardinalityType DEF Posting

LEMMA Enters ==
  ASSUME Types, NEW c \in Clients, c \notin Posting, cpc' = [cpc EXCEPT ![c] = "write"]
  PROVE  Posting' = Posting \union {c} /\ Cardinality(Posting') = Cardinality(Posting) + 1
<1>1. Posting' = Posting \union {c}
  BY DEF Types, Posting
<1>2. QED
  BY <1>1, PostingFinite, FS_AddElement

LEMMA Leaves ==
  ASSUME Types, NEW c \in Posting, NEW x \in {"busy", "exited"}, cpc' = [cpc EXCEPT ![c] = x]
  PROVE  Posting' = Posting \ {c} /\ Cardinality(Posting') = Cardinality(Posting) - 1
<1>1. Posting' = Posting \ {c}
  BY DEF Types, Posting
<1>2. QED
  BY <1>1, PostingFinite, FS_RemoveElement

\* Only one can have the permit.
LEMMA PostingOne ==
  ASSUME NEW c \in Posting
  PROVE  Cardinality(Posting) >= 1
<1>1. Cardinality(Posting) # 0
  BY PostingFinite, FS_EmptySet
<1>2. QED
  BY <1>1, PostingFinite

LEMMA PostingTwo ==
  ASSUME NEW c \in Posting, NEW d \in Posting, c # d
  PROVE  Cardinality(Posting) >= 2
<1>1. /\ IsFiniteSet(Posting \ {d})
      /\ Cardinality(Posting \ {d}) = Cardinality(Posting) - 1
  BY PostingFinite, FS_RemoveElement
<1>2. Cardinality(Posting \ {d}) # 0
  BY <1>1, FS_EmptySet
<1>3. Cardinality(Posting \ {d}) \in Nat
  BY <1>1, FS_CardinalityType
<1>4. QED
  BY <1>1, <1>2, <1>3, PostingFinite

\* A request is received.
LEMMA Receives ==
  ASSUME Types, NEW r \in Requests, received' = Append(received, r)
  PROVE  /\ received' \in Seq(Requests)
         /\ Len(received') = Len(received) + 1
         /\ \A k \in DOMAIN received : received'[k] = received[k]
         /\ received'[Len(received) + 1] = r
         /\ DOMAIN received' = 1 .. Len(received) + 1
         /\ DOMAIN received = 1 .. Len(received) /\ Len(received) \in Nat
         /\ Received' = Received \union {r}
<1>1. /\ received' \in Seq(Requests)
      /\ Len(received') = Len(received) + 1
      /\ \A k \in DOMAIN received : received'[k] = received[k]
      /\ received'[Len(received) + 1] = r
      /\ DOMAIN received' = 1 .. Len(received) + 1
      /\ DOMAIN received = 1 .. Len(received) /\ Len(received) \in Nat
  BY AppendProperties DEF Types
<1>2. Received' = Received \union {r}
  BY <1>1 DEF Received
<1>3. QED
  BY <1>1, <1>2

LEMMA InitMail == Init => MailInv
<1> SUFFICES ASSUME Init PROVE MailInv
  OBVIOUS
<1>1. Types
  <2>1. \A c \in Clients : 0 <= LastRequest(c)
    BY LastType, Constants
  <2>2. sent \in [Clients -> Nat] /\ \A c \in Clients : sent[c] <= LastRequest(c)
    BY <2>1 DEF Init
  <2>3. received \in Seq(Requests) /\ handled \in Seq(Requests)
    BY EmptySeq DEF Init
  <2>4. left \in 0 .. MaxRequests
    BY Constants DEF Init
  <2>5. next \in [Requests -> Requests \union {NULL}]
    BY DEF Init
  <2>6. mpc \in MessageLabels /\ lpc \in LifeLabels
    BY DEF Init, MessageLabels, LifeLabels
  <2>7. cpc \in [Clients -> {"busy", "write", "post", "exited"}]
    BY DEF Init
  <2>8. /\ access \in Nat /\ message \in Nat /\ {slot, head, tail} \subseteq {NULL}
        /\ size \in Int /\ mreg \in Int /\ lreg \in Int /\ period \in {1, 2}
        /\ {copyRequest, req} \subseteq {NULL} /\ dropped \in Nat /\ enrolledStudents \in Int
    BY DEF Init
  <2>9. back \in {"request", "drop", "next"} /\ alive \in BOOLEAN /\ raced \in BOOLEAN
    BY DEF Init
  <2>10. QED
    BY <2>2, <2>3, <2>4, <2>5, <2>6, <2>7, <2>8, <2>9 DEF Types
<1>2. Posting = {} /\ Cardinality(Posting) = 0
  BY FS_EmptySet DEF Init, Posting
<1>3. OnePermit
  BY <1>2 DEF Init, OnePermit, Serving, Woken
<1>4. InTurn
  BY <1>2, Constants DEF Init, InTurn
<1>5. Received = {}
  BY DEF Init, Received
<1>6. Items
  BY <1>5 DEF Init, Items
<1>7. Posted = {}
  <2>1. ASSUME NEW r \in Requests PROVE ~(r[2] <= sent[r[1]])
    <3>1. r[1] \in Clients /\ LastRequest(r[1]) \in Nat /\ r[2] \in 1 .. LastRequest(r[1])
      BY RequestParts, LastType, Constants
    <3>2. sent[r[1]] = 0
      BY <3>1 DEF Init
    <3>3. QED
      BY <3>1, <3>2
  <2>2. QED
    BY <2>1 DEF Posted
<1>8. Mailbox
  BY <1>5, <1>7, Constants DEF Init, Mailbox, Pending
<1>9. QED
  BY <1>1, <1>3, <1>4, <1>6, <1>8 DEF MailInv

-----------------------------------------------------------------------------
(***************************************************************************)
(* The invariant of the mailbox, action by action.                         *)
(***************************************************************************)
LEMMA MailboxFrame ==
  ASSUME Running => Mailbox, UNCHANGED <<slot, clients, received>>,
         Running' => Running, Pending' = Pending,
         mpc' = "inQueue" => mpc = "inQueue" /\ copyRequest' = copyRequest
  PROVE  Running' => Mailbox'
<1>1. Posted' = Posted /\ Received' = Received
  BY DEF Posted, Received
<1>2. QED
  BY <1>1 DEF Mailbox

LEMMA ClientsFrame ==
  ASSUME InTurn, UNCHANGED clients
  PROVE  InTurn' /\ Posting' = Posting
BY DEF InTurn, Posting

LEMMA StepPostDown ==
  ASSUME MailInv, NEW c \in Clients, PostDown(c)
  PROVE  MailInv'
<1> USE Constants DEF MailInv, PostDown
<1>1. Types'
  BY DEF Types
<1>2. Posting' = Posting \union {c} /\ Cardinality(Posting') = Cardinality(Posting) + 1
  BY Enters DEF Posting
<1>3. OnePermit'
  BY <1>2, PostingFinite DEF OnePermit, Serving, Woken, Types
<1>4. InTurn'
  BY <1>2 DEF InTurn, MayPost, Types
<1>5. Received' = Received /\ Posted' = Posted /\ Pending' = Pending
  BY DEF Received, Posted, Pending
<1>6. Items'
  BY <1>5 DEF Items, Types
<1>7. Running' => Mailbox'
  BY <1>5 DEF Running, Mailbox, Types
<1>8. QED
  BY <1>1, <1>3, <1>4, <1>6, <1>7

LEMMA StepPostWrite ==
  ASSUME MailInv, NEW c \in Clients, PostWrite(c)
  PROVE  MailInv'
<1> USE Constants DEF MailInv, PostWrite
<1>1. <<c, sent[c] + 1>> \in Requests
  <2>1. sent[c] \in Nat /\ sent[c] < LastRequest(c) /\ LastRequest(c) \in Nat
    BY LastType DEF InTurn, Posting, Types
  <2>2. sent[c] + 1 \in 1 .. LastRequest(c)
    BY <2>1
  <2>3. QED
    BY <2>2, RequestType
<1>2. Types'
  BY <1>1 DEF Types
<1>3. Posting' = Posting /\ Cardinality(Posting') = Cardinality(Posting) /\ c \in Posting
  BY DEF Posting, Types
<1>4. OnePermit' /\ InTurn'
  BY <1>3 DEF OnePermit, Serving, Woken, InTurn
<1>5. Received' = Received /\ Posted' = Posted /\ Pending' = Pending
  BY DEF Received, Posted, Pending
<1>6. Items'
  BY <1>1, <1>5 DEF Items, Types
<1>7. ASSUME Running PROVE Mailbox'
  <2>1. Cardinality(Posting) = 1 /\ message = 0 /\ Serving = 0
    BY <1>3, <1>7, PostingOne, PostingFinite DEF OnePermit, Serving, Woken, Running, Types
  <2>2. ~Pending
    BY <2>1 DEF Pending, Serving
  <2>3. \A d \in Clients : cpc'[d] = "post" => d = c
    BY SMTT(30), <1>3, <2>1, PostingTwo DEF Posting, Types
  <2>4. QED
    BY <1>5, <1>7, <2>2, <2>3 DEF Mailbox, Types, Pending
<1>8. QED
  BY <1>2, <1>4, <1>6, <1>7 DEF Running

LEMMA StepPostUp ==
  ASSUME MailInv, NEW c \in Clients, PostUp(c)
  PROVE  MailInv'
<1> USE Constants DEF MailInv, PostUp
<1>1. c \in Posting /\ sent[c] \in Nat /\ sent[c] < LastRequest(c) /\ LastRequest(c) \in Nat
  BY LastType DEF InTurn, Posting, Types
<1>2. Types'
  BY <1>1 DEF Types
<1>3. Posting' = Posting \ {c} /\ Cardinality(Posting') = Cardinality(Posting) - 1
  BY <1>1, Leaves
<1>4. OnePermit'
  BY <1>3, PostingFinite DEF OnePermit, Serving, Woken, Types
<1>5. InTurn'
  BY <1>1, <1>3 DEF InTurn, Types, Posting, LastRequest
<1>6. Received' = Received
  BY DEF Received
<1>7. Items'
  BY <1>6 DEF Items, Types
<1>8. ASSUME Running PROVE Mailbox'
  <2>1. slot = <<c, sent[c] + 1>> /\ slot \in Requests
    BY <1>1, <1>8, RequestType DEF Mailbox
  <2>2. Posted' = Posted \union {slot} /\ slot \notin Posted
    <3>1. ASSUME NEW r \in Requests
          PROVE  r[2] <= sent'[r[1]] <=> r[2] <= sent[r[1]] \/ r = slot
      <4>1. r[1] \in Clients /\ r[2] \in Nat /\ r = <<r[1], r[2]>> /\ sent[r[1]] \in Nat
        <5>1. r[1] \in Clients /\ r[2] \in 1 .. LastRequest(r[1]) /\ r = <<r[1], r[2]>>
          BY RequestParts
        <5>2. LastRequest(r[1]) \in 1 .. NumStudies + 2
          BY <5>1, LastType
        <5>3. QED
          BY SMTT(30), <5>1, <5>2 DEF Types
      <4>2. CASE r[1] = c
        <5>1. sent'[r[1]] = sent[c] + 1
          BY <4>2 DEF Types
        <5>2. r[2] <= sent[c] + 1 <=> r[2] <= sent[c] \/ r[2] = sent[c] + 1
          BY <4>1, <1>1
        <5>3. r[2] = sent[c] + 1 <=> r = slot
          BY <4>1, <4>2, <2>1
        <5>4. QED
          BY <4>2, <5>1, <5>2, <5>3
      <4>3. CASE r[1] # c
        BY <4>3, <4>1, <2>1 DEF Types
      <4>4. QED
        BY <4>2, <4>3
    <3>2. ~(slot[2] <= sent[slot[1]])
      BY <1>1, <2>1
    <3>3. QED
      BY <3>1, <3>2, <2>1 DEF Posted
  <2>3. Cardinality(Posting) = 1 /\ message = 0 /\ Serving = 0
    BY <1>1, <1>8, PostingOne, PostingFinite DEF OnePermit, Serving, Woken, Running, Types
  <2>4. ~Pending /\ Pending' /\ mpc' # "inQueue"
    BY <2>3 DEF Pending, Serving
  <2>5. \A d \in Clients : cpc'[d] # "post"
    BY <1>1, <2>3, PostingTwo DEF Posting, Types
  <2>6. sent'[Main] = 1 => slot = Termination
    <3>1. CASE c = Main
      BY <3>1, <1>1, <2>1 DEF Types, Termination, LastRequest
    <3>2. CASE c # Main
      BY <3>2 DEF InTurn, Types
    <3>3. QED
      BY <3>1, <3>2
  <2>7. QED
    BY <1>6, <1>8, <2>2, <2>4, <2>5, <2>6 DEF Mailbox
<1>9. QED
  BY <1>2, <1>4, <1>5, <1>7, <1>8 DEF Running

LEMMA StepMainExit ==
  ASSUME MailInv, MainExit
  PROVE  MailInv'
<1> USE Constants DEF MailInv, MainExit
<1>1. Types' /\ Posting' = Posting
  BY DEF Types, Posting
<1>2. OnePermit' /\ InTurn'
  BY <1>1 DEF OnePermit, Serving, Woken, InTurn, Types
<1>3. Received' = Received
  BY DEF Received
<1>4. Items' /\ (Running' => Mailbox')
  BY <1>3 DEF Items, Running, Types
<1>5. QED
  BY <1>1, <1>2, <1>4

\* Steps of the message thread.
LEMMA StepMessageWhile ==
  ASSUME MailInv, MessageWhile
  PROVE  MailInv'
<1> USE Constants DEF MailInv, MessageWhile
<1>1. Types'
  BY DEF Types, MessageLabels
<1>2. InTurn' /\ Posting' = Posting
  BY ClientsFrame
<1>3. OnePermit'
  BY <1>2 DEF OnePermit, Serving, Woken
<1>4. Received' = Received
  BY DEF Received
<1>5. Items'
  BY <1>4 DEF Items
<1>6. Running' => Mailbox'
  BY MailboxFrame DEF Running, Pending
<1>7. QED
  BY <1>1, <1>2, <1>3, <1>5, <1>6

LEMMA StepMessageDown ==
  ASSUME MailInv, MessageDown
  PROVE  MailInv'
<1> USE Constants DEF MailInv, MessageDown
<1>1. Types'
  BY DEF Types, MessageLabels
<1>2. InTurn' /\ Posting' = Posting
  BY ClientsFrame
<1>3. OnePermit'
  BY <1>2, PostingFinite DEF OnePermit, Serving, Woken, Types
<1>4. Received' = Received
  BY DEF Received
<1>5. Items'
  BY <1>4 DEF Items, Types
<1>6. Pending' = Pending
  BY DEF Pending
<1>7. Running' => Mailbox'
  BY <1>6, MailboxFrame DEF Running
<1>8. QED
  BY <1>1, <1>2, <1>3, <1>5, <1>7

\* While life() runs, the message thread never leaves with a request in the mailbox:
\* Termination comes last, so if it was received nothing is left there.
LEMMA AwakeForRequests ==
  ASSUME Types, Items, Mailbox, Pending
  PROVE  alive /\ Termination \notin Received
<1>1. ASSUME Termination \in Received PROVE FALSE
  <2>1. Termination \in Posted /\ sent[Main] <= 1 /\ sent[Main] \in Nat
    BY <1>1, Constants DEF Mailbox, Types, LastRequest
  <2>2. sent[Main] = 1
    BY <2>1 DEF Posted, Termination
  <2>3. QED
    BY <1>1, <2>2 DEF Mailbox
<1>2. QED
  BY <1>1 DEF Items

LEMMA StepMessageTest ==
  ASSUME MailInv, MessageTest
  PROVE  MailInv'
<1> USE Constants DEF MailInv, MessageTest
<1>1. Types'
  BY DEF Types, MessageLabels
<1>2. InTurn' /\ Posting' = Posting
  BY ClientsFrame
<1>3. OnePermit'
  BY <1>2, PostingFinite DEF OnePermit, Serving, Woken, Types
<1>4. Received' = Received
  BY DEF Received
<1>5. Items'
  BY <1>4 DEF Items, Types
<1>6. ASSUME Running PROVE Mailbox'
  <2>1. Pending /\ Mailbox
    BY <1>6 DEF Pending
  <2>2. alive
    BY <2>1, AwakeForRequests
  <2>3. mpc' = "copy"
    BY <2>2 DEF aliveLibrarian
  <2>4. Pending' = Pending
    BY <2>3 DEF Pending
  <2>5. QED
    BY <1>6, <2>3, <2>4, MailboxFrame DEF Running
<1>7. QED
  BY <1>1, <1>2, <1>3, <1>5, <1>6 DEF Running

LEMMA StepMessageCopy ==
  ASSUME MailInv, MessageCopy
  PROVE  MailInv'
<1> USE Constants DEF MailInv, MessageCopy
<1>1. Types'
  BY DEF Types, MessageLabels
<1>2. InTurn' /\ Posting' = Posting
  BY ClientsFrame
<1>3. OnePermit'
  BY <1>2 DEF OnePermit, Serving, Woken, Types
<1>4. Received' = Received /\ Posted' = Posted
  BY DEF Received, Posted
<1>5. Items'
  BY <1>4 DEF Items, Types
<1>6. Pending' = Pending /\ Running' = Running
  BY DEF Pending, Running
<1>7. Running' => Mailbox'
  BY <1>4, <1>6 DEF Mailbox
<1>8. QED
  BY <1>1, <1>2, <1>3, <1>5, <1>7

LEMMA StepInTest ==
  ASSUME MailInv, InTest
  PROVE  MailInv'
<1> USE Constants DEF MailInv, InTest
<1>1. copyRequest \in Requests
  BY DEF Items, Types
<1>2. /\ received' \in Seq(Requests)
      /\ Len(received') = Len(received) + 1
      /\ \A k \in DOMAIN received : received'[k] = received[k]
      /\ received'[Len(received) + 1] = copyRequest
      /\ DOMAIN received' = 1 .. Len(received) + 1
      /\ DOMAIN received = 1 .. Len(received) /\ Len(received) \in Nat
      /\ Received' = Received \union {copyRequest}
  BY <1>1, Receives
<1>3. Types'
  BY <1>2 DEF Types, MessageLabels
<1>4. InTurn' /\ Posting' = Posting
  BY ClientsFrame
<1>5. OnePermit'
  BY <1>4 DEF OnePermit, Serving, Woken, Types
<1>6. Items'
  BY <1>2 DEF Items, Types
<1>7. ASSUME Running PROVE Mailbox'
  <2>1. Pending /\ Mailbox
    BY <1>7 DEF Pending
  <2>2. copyRequest = slot /\ slot \in Posted \ Received /\ Posted' = Posted
    BY <2>1 DEF Mailbox, Posted
  <2>3. Termination \notin Received
    BY <2>1, AwakeForRequests
  <2>4. message = 0
    BY <1>7, PostingFinite DEF OnePermit, Serving, Woken, Running, Types
  <2>5. ~Pending' /\ mpc' # "inQueue"
    BY <2>4 DEF Pending
  <2>6. \A j, k \in DOMAIN received' : received'[j] = received'[k] => j = k
    <3>1. \A j \in DOMAIN received : received[j] # copyRequest
      BY <2>2 DEF Received
    <3>2. SUFFICES ASSUME NEW j \in DOMAIN received', NEW k \in DOMAIN received',
                          received'[j] = received'[k], j # k
                   PROVE  FALSE
      OBVIOUS
    <3>3. CASE j \in DOMAIN received /\ k \in DOMAIN received
      BY <3>2, <3>3, <2>1, <1>2 DEF Mailbox
    <3>4. CASE j = Len(received) + 1 /\ k \in DOMAIN received
      BY <3>1, <3>2, <3>4, <1>2
    <3>5. CASE k = Len(received) + 1 /\ j \in DOMAIN received
      BY <3>1, <3>2, <3>5, <1>2
    <3>6. QED
      BY <3>2, <3>3, <3>4, <3>5, <1>2
  <2>7. Termination \in Received' => received'[Len(received')] = Termination
    BY <2>3, <1>2
  <2>8. QED
    BY <1>2, <2>1, <2>2, <2>5, <2>6, <2>7 DEF Mailbox
<1>8. QED
  BY <1>3, <1>4, <1>5, <1>6, <1>7 DEF Running

LEMMA StepInNext ==
  ASSUME MailInv, InNext
  PROVE  MailInv'
<1> USE Constants DEF MailInv, InNext, Crash
<1>1. tail # NULL => next' = [next EXCEPT ![tail] = copyRequest] /\ tail \in Requests
  BY DEF Types
<1>2. next' \in [Requests -> Requests \union {NULL}]
  BY <1>1 DEF Types
<1>3. mpc' \in MessageLabels /\ lpc' \in LifeLabels
  BY DEF Types, MessageLabels, LifeLabels
<1>4. Types'
  BY <1>2, <1>3 DEF Types
<1>5. InTurn' /\ Posting' = Posting
  BY ClientsFrame
<1>6. OnePermit'
  BY <1>5, PostingFinite DEF OnePermit, Serving, Woken, Types
<1>7. Received' = Received
  BY DEF Received
<1>8. \A r \in Requests : next'[r] \in Received \union {NULL}
  BY <1>1 DEF Items, Types
<1>9. Items'
  BY <1>7, <1>8 DEF Items
<1>10. Running' => Mailbox'
  BY MailboxFrame DEF Running, Pending
<1>11. QED
  BY <1>4, <1>5, <1>6, <1>9, <1>10

LEMMA StepInRest ==
  ASSUME MailInv, InHead \/ InTail \/ InLoad \/ InStore
  PROVE  MailInv'
<1> USE Constants DEF MailInv, InHead, InTail, InLoad, InStore
<1>1. mpc' \in MessageLabels
  BY DEF MessageLabels
<1>2. Types'
  <2>1. CASE InHead
    BY <1>1, <2>1 DEF Types
  <2>2. CASE InTail
    BY <1>1, <2>2 DEF Types
  <2>3. CASE InLoad
    BY <1>1, <2>3 DEF Types
  <2>4. CASE InStore
    BY <1>1, <2>4 DEF Types
  <2>5. QED
    BY <2>1, <2>2, <2>3, <2>4
<1>3. InTurn' /\ Posting' = Posting
  BY ClientsFrame
<1>4. OnePermit'
  BY <1>3 DEF OnePermit, Serving, Woken, Types
<1>5. Received' = Received
  BY DEF Received
<1>6. copyRequest \in Received /\ copyRequest # NULL
  BY DEF Items, Types, Received
<1>7. Items'
  <2>1. CASE InHead \/ InTail
    BY <1>5, <1>6, <2>1 DEF Items
  <2>2. CASE InLoad \/ InStore
    BY <1>5, <2>2 DEF Items
  <2>3. QED
    BY <2>1, <2>2
<1>8. Running' => Mailbox'
  BY MailboxFrame DEF Running, Pending
<1>9. QED
  BY <1>2, <1>3, <1>4, <1>7, <1>8

LEMMA StepMessageUp ==
  ASSUME MailInv, MessageUp
  PROVE  MailInv'
<1> USE Constants DEF MailInv, MessageUp
<1>1. Types'
  BY DEF Types, MessageLabels
<1>2. InTurn' /\ Posting' = Posting
  BY ClientsFrame
<1>3. OnePermit'
  BY <1>2, PostingFinite DEF OnePermit, Serving, Woken, Types
<1>4. Received' = Received
  BY DEF Received
<1>5. Items'
  BY <1>4 DEF Items
<1>6. Running' => Mailbox'
  BY MailboxFrame DEF Running, Pending
<1>7. QED
  BY <1>1, <1>2, <1>3, <1>5, <1>6

\* Steps of the life thread: most of them leave the mailbox and what was received alone.
LEMMA LifeFrame ==
  ASSUME MailInv, UNCHANGED others, Woken' = Woken, Running' => Running
  PROVE  /\ OnePermit' /\ InTurn' /\ (Running' => Mailbox')
         /\ Received' = Received
<1>1. InTurn' /\ Posting' = Posting
  BY ClientsFrame DEF MailInv
<1>2. OnePermit'
  BY <1>1 DEF MailInv, OnePermit, Serving
<1>3. Running' => Mailbox'
  BY MailboxFrame DEF MailInv, Pending
<1>4. Received' = Received
  BY DEF Received
<1>5. QED
  BY <1>1, <1>2, <1>3, <1>4

\* Only the main process asks for termination, and only once.
LEMMA TerminationOnly ==
  ASSUME NEW r \in Requests
  PROVE  id(r) = REQ_TERMINATION <=> r = Termination
<1>1. /\ r[1] \in Clients /\ r[2] \in 1 .. LastRequest(r[1]) /\ r = <<r[1], r[2]>>
  BY RequestParts
<1>2. r[1] = Main => r[2] = 1
  BY <1>1 DEF LastRequest
<1>3. id(r) = REQ_TERMINATION <=> r[1] = Main
  BY <1>1, LastType, Constants, SMT
  DEF id, REQ_TERMINATION, REQ_ENROLL_STUDENT, REQ_DISENROLL_STUDENT, REQ_COLLECT_BOOKS
<1>4. QED
  BY <1>1, <1>2, <1>3 DEF Termination

LEMMA StepLifeWhile ==
  ASSUME MailInv, LifeWhile
  PROVE  MailInv'
<1> USE Constants DEF MailInv, LifeWhile
<1>1. Types'
  BY DEF Types, LifeLabels
<1>2. Woken' = Woken /\ (Running' => Running)
  BY DEF Woken, Running
<1>3. OnePermit' /\ InTurn' /\ (Running' => Mailbox') /\ Received' = Received
  BY <1>2, LifeFrame
<1>4. Items'
  BY <1>3 DEF Items, aliveLibrarian
<1>5. QED
  BY <1>1, <1>3, <1>4

LEMMA StepHandleRequests ==
  ASSUME MailInv, HandleRequests
  PROVE  MailInv'
<1> USE Constants DEF MailInv, HandleRequests
<1>1. left' \in 0 .. MaxRequests
  BY DEF Types
<1>2. Types'
  BY <1>1 DEF Types, LifeLabels
<1>3. Woken' = Woken /\ (Running' => Running)
  BY DEF Woken, Running
<1>4. OnePermit' /\ InTurn' /\ (Running' => Mailbox') /\ Received' = Received
  BY <1>3, LifeFrame
<1>5. Items'
  BY <1>4 DEF Items
<1>6. QED
  BY <1>2, <1>4, <1>5

LEMMA StepNextRequest ==
  ASSUME MailInv, NextRequest
  PROVE  MailInv'
<1> USE Constants DEF MailInv, NextRequest
<1>1. left' \in 0 .. MaxRequests
  BY DEF Types
<1>2. Types'
  BY <1>1 DEF Types, LifeLabels
<1>3. Woken' = Woken /\ (Running' => Running)
  BY DEF Woken, Running
<1>4. OnePermit' /\ InTurn' /\ (Running' => Mailbox') /\ Received' = Received
  BY <1>3, LifeFrame
<1>5. Items'
  BY <1>4 DEF Items
<1>6. QED
  BY <1>2, <1>4, <1>5

LEMMA StepOutFirst ==
  ASSUME MailInv, OutFirst
  PROVE  MailInv'
<1> USE Constants DEF MailInv, OutFirst, Crash
<1>1. mpc' \in MessageLabels /\ lpc' \in LifeLabels
  BY DEF Types, MessageLabels, LifeLabels
<1>2. Types'
  BY <1>1 DEF Types
<1>3. InTurn' /\ Posting' = Posting
  BY ClientsFrame
<1>4. OnePermit'
  BY <1>3, PostingFinite DEF OnePermit, Serving, Woken, Types
<1>5. Received' = Received
  BY DEF Received
<1>6. Items'
  BY <1>5 DEF Items
<1>7. Running' => Mailbox'
  BY MailboxFrame DEF Running, Pending
<1>8. QED
  BY <1>2, <1>3, <1>4, <1>6, <1>7

LEMMA StepOutAdvance ==
  ASSUME MailInv, OutAdvance
  PROVE  MailInv'
<1> USE Constants DEF MailInv, OutAdvance
<1>1. head \in Requests
  BY DEF Items, Types
<1>2. head' \in Requests \union {NULL} /\ head' \in Received \union {NULL}
  BY <1>1 DEF Items, Types
<1>3. lpc' \in LifeLabels
  BY DEF LifeLabels
<1>4. Types'
  BY <1>2, <1>3 DEF Types
<1>5. Woken' = Woken /\ (Running' => Running)
  BY DEF Woken, Running
<1>6. OnePermit' /\ InTurn' /\ (Running' => Mailbox') /\ Received' = Received
  BY <1>5, LifeFrame
<1>7. Items'
  BY <1>2, <1>6 DEF Items
<1>8. QED
  BY <1>4, <1>6, <1>7

LEMMA StepOutRest ==
  ASSUME MailInv, OutLast \/ OutTail \/ OutLoad \/ OutStore
  PROVE  MailInv'
<1> USE Constants DEF MailInv, OutLast, OutTail, OutLoad, OutStore
<1>1. lpc' \in LifeLabels
  BY DEF LifeLabels, Types
<1>2. Types'
  <2>1. CASE OutLast
    BY <1>1, <2>1 DEF Types
  <2>2. CASE OutTail
    BY <1>1, <2>2 DEF Types
  <2>3. CASE OutLoad
    BY <1>1, <2>3 DEF Types
  <2>4. CASE OutStore
    BY <1>1, <2>4 DEF Types
  <2>5. QED
    BY <2>1, <2>2, <2>3, <2>4
<1>3. Woken' = Woken /\ (Running' => Running)
  BY DEF Woken, Running, Types
<1>4. OnePermit' /\ InTurn' /\ (Running' => Mailbox') /\ Received' = Received
  BY <1>3, LifeFrame
<1>5. Items'
  <2>1. CASE OutLast \/ OutTail \/ OutLoad
    BY <1>4, <2>1 DEF Items
  <2>2. CASE OutStore
    BY <1>4, <2>2 DEF Items, Types
  <2>3. QED
    BY <2>1, <2>2
<1>6. QED
  BY <1>2, <1>4, <1>5

LEMMA StepHandleRequest ==
  ASSUME MailInv, HandleRequest
  PROVE  MailInv'
<1> USE Constants DEF MailInv, HandleRequest
<1>1. req \in Received /\ req \in Requests
  BY DEF Items, Types
<1>2. handled' \in Seq(Requests)
  BY <1>1, AppendProperties DEF Types
<1>3. lpc' \in LifeLabels /\ alive' \in BOOLEAN /\ enrolledStudents' \in Int
  BY DEF Types, LifeLabels
<1>4. Types'
  BY <1>2, <1>3 DEF Types
<1>5. Woken' = Woken /\ (Running' => Running)
  BY DEF Woken, Running
<1>6. OnePermit' /\ InTurn' /\ (Running' => Mailbox') /\ Received' = Received
  BY <1>5, LifeFrame
<1>7. ~alive' => Termination \in Received
  BY <1>1, TerminationOnly DEF Items, Types
<1>8. Items'
  BY <1>6, <1>7 DEF Items
<1>9. QED
  BY <1>4, <1>6, <1>8

LEMMA StepDrop ==
  ASSUME MailInv, Drop
  PROVE  MailInv'
<1> USE Constants DEF MailInv, Drop
<1>1. Types'
  BY DEF Types, LifeLabels
<1>2. Woken' = Woken /\ (Running' => Running)
  BY DEF Woken, Running
<1>3. OnePermit' /\ InTurn' /\ (Running' => Mailbox') /\ Received' = Received
  BY <1>2, LifeFrame
<1>4. Items'
  BY <1>3 DEF Items
<1>5. QED
  BY <1>1, <1>3, <1>4

LEMMA StepCollectBooks ==
  ASSUME MailInv, CollectBooks
  PROVE  MailInv'
<1> USE Constants DEF MailInv, CollectBooks
<1>1. Types'
  BY DEF Types, LifeLabels
<1>2. Woken' = Woken /\ (Running' => Running)
  BY DEF Woken, Running
<1>3. OnePermit' /\ InTurn' /\ (Running' => Mailbox') /\ Received' = Received
  BY <1>2, LifeFrame
<1>4. Items'
  BY <1>3 DEF Items
<1>5. QED
  BY <1>1, <1>3, <1>4

\* The wake-up of mainLibrarian is the second permit.
LEMMA StepDoneUp ==
  ASSUME MailInv, DoneUp
  PROVE  MailInv'
<1> USE Constants DEF MailInv, DoneUp
<1>1. Types'
  BY DEF Types, LifeLabels
<1>2. InTurn' /\ Posting' = Posting
  BY ClientsFrame
<1>3. OnePermit'
  BY <1>2, PostingFinite DEF OnePermit, Serving, Woken, Types
<1>4. Received' = Received
  BY DEF Received
<1>5. slot # NULL
  BY DEF Items, Received
<1>6. Items'
  BY <1>4, <1>5 DEF Items
<1>7. QED
  BY <1>1, <1>2, <1>3, <1>6 DEF Running

LEMMA StepJoin ==
  ASSUME MailInv, Join
  PROVE  MailInv'
<1> USE Constants DEF MailInv, Join
<1>1. Types'
  BY DEF Types, LifeLabels
<1>2. Woken' = Woken /\ ~Running'
  BY DEF Woken, Running
<1>3. OnePermit' /\ InTurn' /\ Received' = Received
  BY <1>2, LifeFrame
<1>4. Items'
  BY <1>3 DEF Items
<1>5. QED
  BY <1>1, <1>2, <1>3, <1>4

LEMMA StepNothing ==
  ASSUME MailInv, UNCHANGED vars
  PROVE  MailInv'
<1> USE DEF vars, MailInv
<1>1. Types'
  BY DEF Types
<1>2. OnePermit' /\ InTurn' /\ (Running' => Mailbox') /\ Received' = Received
  BY LifeFrame DEF Woken, Running
<1>3. Items'
  BY <1>2 DEF Items
<1>4. QED
  BY <1>1, <1>2, <1>3

LEMMA MailInductive == MailInv /\ [Next]_vars => MailInv'
<1> SUFFICES ASSUME MailInv, [Next]_vars PROVE MailInv'
  OBVIOUS
<1>1. CASE MainExit
  BY <1>1, StepMainExit
<1>2. CASE MessageThread
  BY <1>2, StepMessageWhile, StepMessageDown, StepMessageTest, StepMessageCopy, StepInTest,
     StepInNext, StepInRest, StepMessageUp DEF MessageThread, inQueue
<1>3. CASE Life
  BY <1>3, StepLifeWhile, StepHandleRequests, StepNextRequest, StepOutFirst, StepOutAdvance,
     StepOutRest, StepHandleRequest, StepDrop, StepCollectBooks, StepDoneUp, StepJoin
  DEF Life, outQueue
<1>4. CASE \E c \in Clients : Post(c)
  BY <1>4, StepPostDown, StepPostWrite, StepPostUp DEF Post
<1>5. CASE UNCHANGED vars
  BY <1>5, StepNothing
<1>6. QED
  BY <1>1, <1>2, <1>3, <1>4, <1>5 DEF Next

\* There is one permit for the slot, and what is in the slot is the request that was posted last,
\* received or not (inBox, sendRequest): whatever becomes of the queue behind it.
THEOREM MailInvariant == Spec => []MailInv
BY InitMail, MailInductive, PTL DEF Spec

\* Types, and no more than two permits.
THEOREM TypeCorrect == Spec => []TypeOK
<1>1. MailInv => TypeOK
  <2> SUFFICES ASSUME MailInv PROVE TypeOK
    OBVIOUS
  <2>1. access \in 0 .. 2 /\ message \in 0 .. 2
    BY PostingFinite DEF MailInv, Types, OnePermit, Serving, Woken
  <2>2. ASSUME NEW c \in Clients PROVE sent[c] \in 0 .. LastRequest(c)
    BY LastType DEF MailInv, Types
  <2>3. QED
    BY <2>1, <2>2 DEF MailInv, Types, TypeOK
<1>2. QED
  BY <1>1, MailInvariant, PTL

\* How often a request was received.
LEMMA CountOnce ==
  ASSUME NEW r, IsFiniteSet(DOMAIN received),
         \A j, k \in DOMAIN received : received[j] = received[k] => j = k
  PROVE  Count(r, received) = IF r \in Received THEN 1 ELSE 0
<1> DEFINE places == {k \in DOMAIN received : received[k] = r}
<1>1. CASE r \in Received
  <2>1. PICK j \in DOMAIN received : received[j] = r
    BY <1>1 DEF Received
  <2>2. places = {j}
    BY <2>1
  <2>3. QED
    BY <1>1, <2>2, FS_Singleton DEF Count
<1>2. CASE r \notin Received
  <2>1. places = {}
    BY <1>2 DEF Received
  <2>2. QED
    BY <1>2, <2>1, FS_EmptySet DEF Count
<1>3. QED
  BY <1>1, <1>2

\* Nothing that is posted is lost or received twice while life() runs: the permit is with
\* one client or with the message thread, so a request stays in the slot until it is
\* copied.
THEOREM ReceivedOnce == Spec => []EachReceivedOnce
<1>1. MailInv => EachReceivedOnce
  <2> SUFFICES ASSUME MailInv, Running PROVE EachReceivedOnce
    BY DEF EachReceivedOnce, Running
  <2>1. /\ IsFiniteSet(DOMAIN received)
        /\ \A j, k \in DOMAIN received : received[j] = received[k] => j = k
    <3>1. DOMAIN received = 1 .. Len(received) /\ Len(received) \in Nat
      BY DEF MailInv, Types
    <3>2. QED
      BY <3>1, FS_Interval DEF MailInv, Mailbox
  <2>2. \A r : Count(r, received) = IF r \in Received THEN 1 ELSE 0
    BY <2>1, CountOnce
  <2>3. ASSUME NEW r \in Requests
        PROVE  Count(r, received) <= (IF r \in Posted THEN 1 ELSE 0)
    BY <2>2 DEF MailInv, Mailbox
  <2>4. ASSUME NEW r \in Posted, Count(r, received) = 0
        PROVE  r = slot /\ (message > 0 \/ mpc \in {"test", "copy", "inQueue"})
    BY <2>2, <2>4 DEF MailInv, Mailbox, Pending
  <2>5. QED
    BY <2>3, <2>4 DEF EachReceivedOnce
<1>2. QED
  BY <1>1, MailInvariant, PTL

-----------------------------------------------------------------------------
(***************************************************************************)
(* The queue, as long as the two threads do not meet in it: action by      *)
(* action, Fifo is preserved and nothing crashes.                          *)
(***************************************************************************)
LEMMA Lengths ==
  ASSUME Types
  PROVE  /\ Len(received) \in Nat /\ DOMAIN received = 1 .. Len(received)
         /\ Len(handled) \in Nat /\ DOMAIN handled = 1 .. Len(handled)
         /\ \A k \in 1 .. Len(received) : received[k] \in Requests /\ received[k] \in Received
BY DEF Types, Received

\* Once termination is requested the queue is empty and stays so.
LEMMA QuietEnd ==
  ASSUME MailInv, Fifo, ~alive
  PROVE  size = 0 /\ lpc \notin OutSide \union {"outQueue", "request"}
<1>1. /\ lpc \notin OutSide \union {"outQueue", "request"} /\ mpc \notin Inside
      /\ Len(handled) = Len(received)
  BY DEF Fifo, Terminated
<1>2. Len(received) \in Nat
  BY Lengths DEF MailInv
<1>3. Counted = Len(received) /\ Left = Len(received)
  BY <1>1, <1>2 DEF Counted, Left, Taken
<1>4. QED
  BY <1>1, <1>2, <1>3 DEF Fifo, Sizes

\* The mailbox is as it was while anything can still be received or handled.
LEMMA MailboxWorks ==
  ASSUME MailInv, Fifo, lpc # "crashed", alive
  PROVE  Running /\ Mailbox
BY DEF MailInv, Items, Running

\* Steps that are not about the queue.
LEMMA FifoFrame ==
  ASSUME Fifo,
         UNCHANGED <<queue, received, handled, mreg, lreg, alive, dropped, enrolledStudents>>,
         \/ mpc' = mpc /\ copyRequest' = copyRequest
         \/ mpc \notin Inside /\ mpc' \notin Inside,
         \/ UNCHANGED <<lpc, req, back>>
         \/ /\ lpc \notin OutSide \union {"outQueue", "request"}
            /\ lpc' \notin OutSide \union {"outQueue", "request"},
         ~alive => mpc' \notin {"copy", "inQueue"}
  PROVE  Fifo'
<1>1. Handled' = Handled /\ Received' = Received
  BY DEF Handled, Received
<1>2. /\ Taken' = Taken /\ First' = First /\ Linked' = Linked /\ Tailed' = Tailed
      /\ Counted' = Counted /\ Left' = Left
  BY DEF Taken, First, Linked, Tailed, Counted, Left
<1>3. Apart' /\ Prefix'
  BY <1>2 DEF Fifo, Apart, Prefix
<1>4. Links'
  BY <1>1, <1>2 DEF Fifo, Links
<1>5. Sizes'
  BY <1>2 DEF Fifo, Sizes
<1>6. Ordered' /\ Enrolled' = Enrolled
  BY <1>1 DEF Fifo, Ordered, Enrolled
<1>7. Terminated'
  BY <1>1 DEF Fifo, Terminated
<1>8. QED
  BY <1>3, <1>4, <1>5, <1>6, <1>7 DEF Fifo

LEMMA FifoClients ==
  ASSUME Fifo, MainExit \/ \E c \in Clients : Post(c)
  PROVE  Fifo' /\ lpc' = lpc
<1>1. UNCHANGED <<queue, thread, day, desk, received>>
  BY DEF MainExit, Post, PostDown, PostWrite, PostUp
<1>2. ~alive => mpc' \notin {"copy", "inQueue"}
  BY <1>1 DEF Fifo, Terminated
<1>3. QED
  BY <1>1, <1>2, FifoFrame

LEMMA FifoMessage ==
  ASSUME MailInv, Fifo, MessageWhile \/ MessageDown \/ MessageTest \/ MessageCopy \/ MessageUp
  PROVE  Fifo' /\ lpc' = lpc
<1> USE DEF MessageWhile, MessageDown, MessageTest, MessageCopy, MessageUp
<1>1. ~alive => mpc' \notin {"copy", "inQueue"}
  BY QuietEnd DEF Fifo, Terminated, aliveLibrarian, emptyQueue
<1>2. mpc \notin Inside /\ mpc' \notin Inside
  OBVIOUS
<1>3. UNCHANGED <<queue, received, mreg, day, desk>>
  OBVIOUS
<1>4. QED
  BY <1>1, <1>2, <1>3, FifoFrame

LEMMA FifoLife ==
  ASSUME MailInv, Fifo, LifeWhile \/ HandleRequests \/ CollectBooks \/ DoneUp \/ Join
  PROVE  Fifo' /\ lpc' # "crashed"
<1> USE DEF LifeWhile, HandleRequests, CollectBooks, DoneUp, Join
<1>1. /\ lpc \notin OutSide \union {"outQueue", "request"}
      /\ lpc' \notin OutSide \union {"outQueue", "request", "crashed"}
  OBVIOUS
<1>2. UNCHANGED <<queue, thread, received, desk, lreg, dropped>>
  OBVIOUS
<1>3. ~alive => mpc' \notin {"copy", "inQueue"}
  BY <1>2 DEF Fifo, Terminated
<1>4. QED
  BY <1>1, <1>2, <1>3, FifoFrame

\* While the message thread is in the queue, outQueue is not: nothing but the end of the
\* list is not yet as it should be.
LEMMA WhileInside ==
  ASSUME MailInv, Fifo, lpc # "crashed", mpc \in Inside \union {"inQueue"}
  PROVE  /\ Running /\ Mailbox /\ alive
         /\ Len(received) \in Nat /\ Len(handled) \in Nat /\ Taken \in Nat
         /\ mpc \in Inside => /\ lpc \notin OutSide
                             /\ First = Taken + 1 /\ Left = Taken
                             /\ Counted = Len(received) - 1 /\ Taken <= Len(received) - 1
<1>1. alive
  BY DEF Fifo, Terminated
<1>2. Running /\ Mailbox
  BY <1>1, MailboxWorks
<1>3. Len(received) \in Nat /\ Len(handled) \in Nat
  BY Lengths DEF MailInv
<1>4. Taken \in Nat
  BY <1>3 DEF Taken
<1>5. ASSUME mpc \in Inside
      PROVE  /\ lpc \notin OutSide
             /\ First = Taken + 1 /\ Left = Taken
             /\ Counted = Len(received) - 1 /\ Taken <= Len(received) - 1
  <2>1. lpc \notin OutSide
    BY <1>5 DEF Fifo, Apart
  <2>2. First = Taken + 1 /\ Left = Taken /\ Counted = Len(received) - 1
    BY <1>5, <2>1 DEF First, Left, Counted
  <2>3. QED
    BY <2>1, <2>2 DEF Fifo, Prefix
<1>6. QED
  BY <1>1, <1>2, <1>3, <1>4, <1>5

LEMMA FifoInTest ==
  ASSUME MailInv, Fifo, lpc # "crashed", InTest, ~raced'
  PROVE  Fifo' /\ lpc' # "crashed"
<1> USE DEF InTest
<1>1. Running /\ Mailbox /\ alive /\ Len(handled) \in Nat /\ Taken \in Nat
  BY WhileInside
<1>2. copyRequest \in Requests /\ copyRequest \in Posted /\ copyRequest \notin Received
      /\ copyRequest = slot
  BY <1>1 DEF Mailbox, Pending, Posted
<1>3. /\ Len(received') = Len(received) + 1
      /\ \A k \in DOMAIN received : received'[k] = received[k]
      /\ received'[Len(received) + 1] = copyRequest
      /\ DOMAIN received' = 1 .. Len(received) + 1
      /\ DOMAIN received = 1 .. Len(received) /\ Len(received) \in Nat
      /\ Received' = Received \union {copyRequest}
  BY <1>2, Receives DEF MailInv
<1>4. lpc \notin OutSide
  OBVIOUS
<1>5. /\ Taken' = Taken /\ First = Taken + 1 /\ First' = Taken + 1
      /\ Linked = Len(received) /\ Linked' = Len(received)
      /\ Tailed = Len(received) /\ Tailed' = Len(received)
      /\ Counted = Len(received) /\ Counted' = Len(received)
      /\ Left' = Left /\ Taken <= Len(received)
  <2>1. Taken' = Taken /\ Left' = Left /\ First = Taken + 1 /\ First' = Taken + 1
    BY <1>4 DEF Taken, Left, First
  <2>2. Linked = Len(received) /\ Tailed = Len(received) /\ Counted = Len(received)
    BY <1>3 DEF Linked, Tailed, Counted
  <2>3. mpc' \in {"inNext", "inHead"}
    OBVIOUS
  <2>4. Linked' = Len(received) /\ Tailed' = Len(received) /\ Counted' = Len(received)
    BY <1>3, <2>3 DEF Linked, Tailed, Counted
  <2>5. QED
    BY <2>1, <2>2, <2>4 DEF Fifo, Prefix
<1>6. Apart'
  BY <1>4 DEF Apart
<1>7. Prefix'
  <2>1. \A k \in 1 .. Len(handled) : k \in DOMAIN received
    BY <1>1, <1>3, <1>5 DEF Taken
  <2>2. lpc \in OutSide \union {"request"} => Taken \in DOMAIN received
    BY <1>1, <1>3, <1>5 DEF Taken
  <2>3. QED
    BY <1>3, <1>5, <2>1, <2>2 DEF Fifo, Prefix
<1>8. Links'
  <2>1. head = IF Taken + 1 <= Len(received) THEN received[Taken + 1] ELSE NULL
    BY <1>5 DEF Fifo, Links
  <2>2. Taken + 1 <= Len(received) => Taken + 1 \in DOMAIN received
    BY <1>1, <1>3
  <2>3. head' = IF First' <= Linked' THEN received'[First'] ELSE NULL
    BY <1>3, <1>5, <2>1, <2>2
  <2>4. ASSUME NEW k \in First' .. Linked'
        PROVE  next'[received'[k]] = IF k < Linked' THEN received'[k + 1] ELSE NULL
    <3>1. k \in First .. Linked /\ k \in DOMAIN received
      BY <1>1, <1>3, <1>5, <2>4
    <3>2. k < Len(received) => k + 1 \in DOMAIN received
      BY <1>3, <3>1
    <3>3. next[received[k]] = IF k < Len(received) THEN received[k + 1] ELSE NULL
      BY <1>5, <3>1 DEF Fifo, Links
    <3>4. QED
      BY <1>3, <1>5, <3>1, <3>2, <3>3
  <2>5. next'[received'[Len(received')]] = NULL
    BY <1>2, <1>3 DEF Fifo, Links
  <2>6. \A r \in Requests \ Received' : next'[r] = NULL
    BY <1>3 DEF Fifo, Links
  <2>7. tail = IF Len(received) > Taken THEN received[Len(received)] ELSE NULL
    BY <1>4, <1>5 DEF Fifo, Links
  <2>8. tail' = IF Tailed' > Taken' THEN received'[Tailed'] ELSE NULL
    <3>1. Len(received) > Taken => Len(received) \in DOMAIN received
      BY <1>1, <1>3
    <3>2. tail' = IF Len(received) > Taken THEN received'[Len(received)] ELSE NULL
      BY <1>3, <2>7, <3>1
    <3>3. QED
      BY <1>5, <3>2
  <2>9. Len(received) > Taken => received[Len(received)] # NULL
    BY <1>1, <1>3, Lengths, Constants DEF MailInv
  <2>10. (mpc' = "inNext" => Taken' < Tailed') /\ (mpc' = "inHead" => Taken' = Tailed')
    <3>1. mpc' = IF tail # NULL THEN "inNext" ELSE "inHead"
      OBVIOUS
    <3>2. tail # NULL <=> Len(received) > Taken
      BY <2>7, <2>9
    <3>3. mpc' = "inNext" => Taken < Len(received)
      BY <1>1, <1>3, <3>1, <3>2
    <3>4. mpc' = "inHead" => Taken = Len(received)
      <4>1. Taken <= Len(received) /\ Taken \in Nat /\ Len(received) \in Nat
        BY <1>1, <1>3, <1>5
      <4>2. mpc' = "inHead" => ~(Len(received) > Taken)
        BY <3>1, <3>2
      <4>3. QED
        BY <4>1, <4>2
    <3>5. QED
      BY <1>5, <3>3, <3>4
  <2>11. copyRequest' = received'[Len(received')]
    BY <1>3
  <2>12. QED
    BY <1>4, <2>3, <2>4, <2>5, <2>6, <2>8, <2>10, <2>11 DEF Links
<1>9. Sizes'
  BY <1>4, <1>5 DEF Fifo, Sizes
<1>10. Ordered'
  <2> SUFFICES ASSUME NEW k \in DOMAIN received', NEW m \in 1 .. received'[k][2] - 1
               PROVE  \E j \in 1 .. k - 1 : received'[j] = <<received'[k][1], m>>
    BY DEF Ordered
  <2>1. CASE k \in DOMAIN received
    <3>1. PICK j \in 1 .. k - 1 : received[j] = <<received[k][1], m>>
      BY <1>3, <2>1 DEF Fifo, Ordered
    <3>2. j \in DOMAIN received
      BY <1>3, <2>1, <3>1
    <3>3. QED
      BY <1>3, <2>1, <3>1, <3>2
  <2>2. CASE k = Len(received) + 1
    <3>1. received'[k] = slot
      BY <1>2, <1>3, <2>2
    <3>2. /\ slot[1] \in Clients /\ slot[2] \in 1 .. LastRequest(slot[1])
          /\ slot = <<slot[1], slot[2]>> /\ LastRequest(slot[1]) \in 1 .. NumStudies + 2
      BY <1>2, RequestParts, LastType
    <3>3. slot[2] \in Nat /\ LastRequest(slot[1]) \in Nat /\ m \in 1 .. slot[2] - 1
      BY <3>1, <3>2, Constants
    <3>4. m \in 1 .. LastRequest(slot[1]) /\ m < slot[2]
      BY <3>2, <3>3
    <3>5. <<slot[1], m>> \in Requests /\ <<slot[1], m>> # slot
      BY <3>2, <3>4, <3>3, RequestType
    <3>6. slot[2] <= sent[slot[1]] /\ sent[slot[1]] \in Nat
      BY <1>2, <3>2 DEF Posted, MailInv, Types
    <3>7. <<slot[1], m>> \in Posted
      BY <3>3, <3>4, <3>5, <3>6 DEF Posted
    <3>8. <<slot[1], m>> \in Received
      BY <1>1, <3>5, <3>7 DEF Mailbox
    <3>9. PICK j \in DOMAIN received : received[j] = <<slot[1], m>>
      BY <3>8 DEF Received
    <3>10. QED
      BY <1>3, <2>2, <3>1, <3>9
  <2>3. QED
    BY <1>3, <2>1, <2>2
<1>11. Terminated' /\ Enrolled' = Enrolled
  BY <1>1 DEF Fifo, Terminated, Enrolled, Handled
<1>12. QED
  BY <1>6, <1>7, <1>8, <1>9, <1>10, <1>11 DEF Fifo

LEMMA FifoInNext ==
  ASSUME MailInv, Fifo, lpc # "crashed", InNext
  PROVE  Fifo' /\ lpc' # "crashed"
<1> USE DEF InNext, Crash
<1>1. /\ Running /\ Mailbox /\ alive
      /\ Len(received) \in Nat /\ Len(handled) \in Nat /\ Taken \in Nat
      /\ lpc \notin OutSide /\ First = Taken + 1 /\ Left = Taken
      /\ Counted = Len(received) - 1 /\ Taken <= Len(received) - 1
  BY WhileInside
<1>2. Linked = Len(received) - 1 /\ Tailed = Len(received) - 1
  BY DEF Linked, Tailed
<1>3. Taken < Len(received) - 1
  BY <1>2 DEF Fifo, Links
<1>4. tail = received[Len(received) - 1]
  BY <1>1, <1>2, <1>3 DEF Fifo, Links
<1>5. /\ DOMAIN received = 1 .. Len(received)
      /\ Len(received) \in DOMAIN received /\ Len(received) - 1 \in DOMAIN received
      /\ received[Len(received)] # received[Len(received) - 1]
      /\ tail \in Requests /\ tail \in Received
  <2>1. DOMAIN received = 1 .. Len(received)
    BY Lengths DEF MailInv
  <2>2. Len(received) \in DOMAIN received /\ Len(received) - 1 \in DOMAIN received
    BY <1>1, <1>3, <2>1
  <2>3. received[Len(received)] # received[Len(received) - 1]
    BY <1>1, <2>2 DEF Mailbox
  <2>4. tail \in Requests /\ tail \in Received
    BY <1>4, <2>1, <2>2, Lengths DEF MailInv
  <2>5. QED
    BY <2>1, <2>2, <2>3, <2>4
<1>6. /\ next' = [next EXCEPT ![tail] = copyRequest] /\ mpc' = "inTail" /\ lpc' = lpc
      /\ \A r \in Requests : next'[r] = IF r = tail THEN copyRequest ELSE next[r]
  BY <1>5, Constants DEF MailInv, Types
<1>7. /\ Taken' = Taken /\ First' = First /\ Left' = Left /\ Counted' = Counted
      /\ Tailed' = Tailed /\ Linked' = Len(received)
  BY <1>1, <1>6 DEF Taken, First, Left, Counted, Tailed, Linked
<1>8. Received' = Received /\ Handled' = Handled
  BY DEF Received, Handled
<1>9. Links'
  <2>1. copyRequest = received[Len(received)] /\ next[received[Len(received)]] = NULL
    BY DEF Fifo, Links
  <2>2. head' = IF First' <= Linked' THEN received'[First'] ELSE NULL
    <3>1. First <= Linked /\ First <= Len(received)
      BY <1>1, <1>2, <1>3
    <3>2. head = received[First]
      BY <3>1 DEF Fifo, Links
    <3>3. QED
      BY <1>7, <3>1, <3>2
  <2>3. ASSUME NEW k \in First' .. Linked'
        PROVE  next'[received'[k]] = IF k < Linked' THEN received'[k + 1] ELSE NULL
    <3>1. k \in First .. Len(received) /\ k \in DOMAIN received /\ received[k] \in Requests
      <4>1. k \in First .. Len(received) /\ k \in DOMAIN received
        BY <1>1, <1>5, <1>7
      <4>2. QED
        BY <1>5, <4>1, Lengths DEF MailInv
    <3>2. CASE k = Len(received)
      BY <1>4, <1>5, <1>6, <1>7, <2>1, <3>1, <3>2
    <3>3. CASE k = Len(received) - 1
      BY <1>1, <1>4, <1>5, <1>6, <1>7, <2>1, <3>1, <3>3
    <3>4. CASE k < Len(received) - 1
      <4>1. received[k] # tail
        BY <1>1, <1>4, <1>5, <3>1, <3>4 DEF Mailbox
      <4>2. k \in First .. Linked /\ k < Linked /\ k < Len(received)
        BY <1>1, <1>2, <3>1, <3>4
      <4>3. next[received[k]] = received[k + 1]
        BY <4>2 DEF Fifo, Links
      <4>4. QED
        BY <1>6, <1>7, <3>1, <4>1, <4>2, <4>3
    <3>5. QED
      BY <1>1, <3>1, <3>2, <3>3, <3>4
  <2>4. \A r \in Requests \ Received' : next'[r] = NULL
    BY <1>5, <1>6, <1>8 DEF Fifo, Links
  <2>5. tail' = IF Tailed' > Taken' THEN received'[Tailed'] ELSE NULL
    BY <1>1, <1>2, <1>3, <1>4, <1>7
  <2>6. QED
    BY <1>1, <1>6, <2>1, <2>2, <2>3, <2>4, <2>5 DEF Links
<1>10. Apart' /\ Prefix' /\ Sizes'
  BY <1>1, <1>6, <1>7 DEF Fifo, Apart, Prefix, Sizes
<1>11. Ordered' /\ Terminated' /\ Enrolled' = Enrolled
  BY <1>1, <1>6, <1>8 DEF Fifo, Ordered, Terminated, Enrolled
<1>12. QED
  BY <1>1, <1>6, <1>9, <1>10, <1>11 DEF Fifo

LEMMA FifoInHead ==
  ASSUME MailInv, Fifo, lpc # "crashed", InHead
  PROVE  Fifo' /\ lpc' # "crashed"
<1> USE DEF InHead
<1>1. /\ Running /\ Mailbox /\ alive
      /\ Len(received) \in Nat /\ Len(handled) \in Nat /\ Taken \in Nat
      /\ lpc \notin OutSide /\ First = Taken + 1 /\ Left = Taken
      /\ Counted = Len(received) - 1 /\ Taken <= Len(received) - 1
  BY WhileInside
<1>2. Linked = Len(received) - 1 /\ Tailed = Len(received) - 1
  BY DEF Linked, Tailed
<1>3. Taken = Len(received) - 1
  BY <1>2 DEF Fifo, Links
<1>4. /\ Taken' = Taken /\ First' = First /\ Left' = Left /\ Counted' = Counted
      /\ Tailed' = Tailed /\ Linked' = Len(received)
  BY <1>1 DEF Taken, First, Left, Counted, Tailed, Linked
<1>5. Received' = Received /\ Handled' = Handled
  BY DEF Received, Handled
<1>6. Links'
  <2>1. copyRequest = received[Len(received)] /\ next[received[Len(received)]] = NULL
    BY DEF Fifo, Links
  <2>2. First = Len(received)
    BY <1>1, <1>3
  <2>3. head' = IF First' <= Linked' THEN received'[First'] ELSE NULL
    BY <1>1, <1>4, <2>1, <2>2
  <2>4. ASSUME NEW k \in First' .. Linked'
        PROVE  next'[received'[k]] = IF k < Linked' THEN received'[k + 1] ELSE NULL
    <3>1. k = Len(received)
      BY <1>1, <1>4, <2>2
    <3>2. QED
      BY <1>1, <1>4, <2>1, <3>1
  <2>5. \A r \in Requests \ Received' : next'[r] = NULL
    BY <1>5 DEF Fifo, Links
  <2>6. tail' = IF Tailed' > Taken' THEN received'[Tailed'] ELSE NULL
    BY <1>1, <1>4 DEF Fifo, Links
  <2>7. QED
    BY <1>1, <2>1, <2>3, <2>4, <2>5, <2>6 DEF Links
<1>7. Apart' /\ Prefix' /\ Sizes'
  BY <1>1, <1>4 DEF Fifo, Apart, Prefix, Sizes
<1>8. Ordered' /\ Terminated' /\ Enrolled' = Enrolled
  BY <1>1, <1>5 DEF Fifo, Ordered, Terminated, Enrolled
<1>9. QED
  BY <1>1, <1>6, <1>7, <1>8 DEF Fifo

LEMMA FifoInTail ==
  ASSUME MailInv, Fifo, lpc # "crashed", InTail
  PROVE  Fifo' /\ lpc' # "crashed"
<1> USE DEF InTail
<1>1. /\ Running /\ Mailbox /\ alive
      /\ Len(received) \in Nat /\ Len(handled) \in Nat /\ Taken \in Nat
      /\ lpc \notin OutSide /\ First = Taken + 1 /\ Left = Taken
      /\ Counted = Len(received) - 1 /\ Taken <= Len(received) - 1
  BY WhileInside
<1>2. /\ Taken' = Taken /\ First' = First /\ Left' = Left /\ Counted' = Counted
      /\ Linked' = Linked /\ Tailed' = Len(received)
  BY <1>1 DEF Taken, First, Left, Counted, Tailed, Linked
<1>3. Received' = Received /\ Handled' = Handled
  BY DEF Received, Handled
<1>4. Links'
  <2>1. Taken < Len(received)
    BY <1>1
  <2>2. tail' = IF Tailed' > Taken' THEN received'[Tailed'] ELSE NULL
    BY <1>1, <1>2, <2>1 DEF Fifo, Links
  <2>3. /\ head' = IF First' <= Linked' THEN received'[First'] ELSE NULL
        /\ \A k \in First' .. Linked' :
              next'[received'[k]] = IF k < Linked' THEN received'[k + 1] ELSE NULL
    BY <1>2 DEF Fifo, Links
  <2>4. QED
    BY <1>1, <1>3, <2>2, <2>3 DEF Fifo, Links
<1>5. Apart' /\ Prefix' /\ Sizes'
  BY <1>1, <1>2 DEF Fifo, Apart, Prefix, Sizes
<1>6. Ordered' /\ Terminated' /\ Enrolled' = Enrolled
  BY <1>1, <1>3 DEF Fifo, Ordered, Terminated, Enrolled
<1>7. QED
  BY <1>1, <1>4, <1>5, <1>6 DEF Fifo

LEMMA FifoInSize ==
  ASSUME MailInv, Fifo, lpc # "crashed", InLoad \/ InStore
  PROVE  Fifo' /\ lpc' # "crashed"
<1> USE DEF InLoad, InStore
<1>1. /\ Running /\ Mailbox /\ alive
      /\ Len(received) \in Nat /\ Len(handled) \in Nat /\ Taken \in Nat
      /\ lpc \notin OutSide /\ First = Taken + 1 /\ Left = Taken
      /\ Counted = Len(received) - 1 /\ Taken <= Len(received) - 1
  BY WhileInside
<1>2. /\ Taken' = Taken /\ First' = First /\ Left' = Left
      /\ Linked' = Linked /\ Tailed' = Tailed
      /\ Counted' = IF InLoad THEN Counted ELSE Len(received)
  <2>1. lpc' = lpc /\ handled' = handled /\ received' = received
    OBVIOUS
  <2>2. Taken' = Taken /\ First' = First /\ Left' = Left
    BY <2>1 DEF Taken, First, Left
  <2>3. Linked' = Linked /\ Tailed' = Tailed
    BY <2>1 DEF Linked, Tailed
  <2>4. CASE InLoad
    BY <2>2, <2>3, <2>4 DEF Counted
  <2>5. CASE InStore
    BY <1>1, <2>2, <2>3, <2>5 DEF Counted
  <2>6. QED
    BY <2>4, <2>5
<1>3. Received' = Received /\ Handled' = Handled
  BY DEF Received, Handled
<1>4. Links'
  <2>1. UNCHANGED <<head, tail, next, received, handled, copyRequest, lpc>>
        /\ mpc \in {"inLoad", "inStore"} /\ mpc' \in {"inStore", "up"}
    OBVIOUS
  <2>2. QED
    BY <1>2, <1>3, <2>1 DEF Fifo, Links
<1>5. Apart' /\ Prefix'
  <2>1. Counted' = Len(received) - 1 \/ Counted' = Len(received)
    BY <1>1, <1>2
  <2>2. Taken' <= Counted'
    <3>1. Taken' = Taken /\ Taken \in Nat /\ Len(received) \in Nat /\ Taken <= Len(received) - 1
      BY <1>1, <1>2
    <3>2. CASE Counted' = Len(received) - 1
      BY <3>1, <3>2
    <3>3. CASE Counted' = Len(received)
      BY <3>1, <3>3
    <3>4. QED
      BY <2>1, <3>2, <3>3
  <2>3. QED
    BY <1>1, <1>2, <2>2 DEF Fifo, Apart, Prefix
<1>6. Sizes'
  <2>1. CASE InLoad
    BY <1>1, <1>2, <2>1 DEF Fifo, Sizes
  <2>2. CASE InStore
    <3>1. size' = Counted - Left + 1
      BY <2>2 DEF Fifo, Sizes
    <3>2. Counted' = Len(received)
      BY <1>2, <2>2
    <3>3. QED
      BY <1>1, <1>2, <2>2, <3>1, <3>2 DEF Fifo, Sizes
  <2>3. QED
    BY <2>1, <2>2
<1>7. Ordered' /\ Terminated' /\ Enrolled' = Enrolled
  BY <1>1, <1>3 DEF Fifo, Ordered, Terminated, Enrolled
<1>8. QED
  BY <1>1, <1>4, <1>5, <1>6, <1>7 DEF Fifo

LEMMA FifoNextRequest ==
  ASSUME MailInv, Fifo, NextRequest
  PROVE  Fifo' /\ lpc' # "crashed"
<1> USE DEF NextRequest
<1>1. /\ Len(received) \in Nat /\ Len(handled) \in Nat
  BY Lengths DEF MailInv
<1>2. /\ Taken = Len(handled) /\ Taken' = Taken /\ First' = First /\ Linked' = Linked
      /\ Tailed' = Tailed /\ Counted' = Counted /\ Left = Taken /\ Left' = Taken
  BY <1>1 DEF Taken, First, Linked, Tailed, Counted, Left
<1>3. Counted \in Int /\ Taken <= Counted /\ size = Counted - Taken
  BY <1>1, <1>2 DEF Fifo, Prefix, Sizes, Counted
<1>4. lpc' = "outQueue" => Taken < Counted /\ alive
  <2>1. lpc' = "outQueue" => size # 0
    BY DEF emptyQueue
  <2>2. QED
    BY <1>1, <1>2, <1>3, <2>1, QuietEnd
<1>5. Received' = Received /\ Handled' = Handled
  BY DEF Received, Handled
<1>6. Links'
  BY <1>2, <1>5 DEF Fifo, Links
<1>7. Sizes'
  BY <1>2, <1>4 DEF Fifo, Sizes
<1>8. Apart' /\ Prefix'
  BY <1>2 DEF Fifo, Apart, Prefix
<1>9. Terminated'
  BY <1>4, <1>5 DEF Fifo, Terminated
<1>10. Ordered' /\ Enrolled' = Enrolled
  BY <1>5 DEF Fifo, Ordered, Enrolled
<1>11. QED
  BY <1>6, <1>7, <1>8, <1>9, <1>10 DEF Fifo

LEMMA FifoOutFirst ==
  ASSUME MailInv, Fifo, OutFirst, ~raced'
  PROVE  Fifo' /\ lpc' # "crashed"
<1> USE DEF OutFirst, Crash
<1>1. /\ Len(received) \in Nat /\ Len(handled) \in Nat
  BY Lengths DEF MailInv
<1>2. mpc \notin Inside
  OBVIOUS
<1>3. /\ Taken = Len(handled) /\ First = Len(handled) + 1 /\ Left = Len(handled)
      /\ Linked = Len(received) /\ Tailed = Len(received) /\ Counted = Len(received)
  BY <1>1, <1>2 DEF Taken, First, Left, Linked, Tailed, Counted
<1>4. Len(handled) < Len(received)
  BY <1>3 DEF Fifo, Sizes
<1>5. size > 0
  BY <1>1, <1>3, <1>4 DEF Fifo, Sizes
<1>6. head = received[Len(handled) + 1] /\ head # NULL
  <2>1. Len(handled) + 1 <= Len(received) /\ Len(handled) + 1 \in 1 .. Len(received)
    BY <1>1, <1>4
  <2>2. head = received[Len(handled) + 1]
    BY <1>3, <2>1 DEF Fifo, Links
  <2>3. QED
    BY <2>1, <2>2, Lengths, Constants DEF MailInv
<1>7. lpc' = "outAdvance" /\ req' = head /\ mpc' = mpc
  BY <1>5, <1>6
<1>8. /\ Taken' = Len(handled) + 1 /\ First' = Len(handled) + 1 /\ Left' = Len(handled)
      /\ Linked' = Len(received) /\ Tailed' = Len(received) /\ Counted' = Len(received)
  BY <1>1, <1>2, <1>7 DEF Taken, First, Left, Linked, Tailed, Counted
<1>9. Received' = Received /\ Handled' = Handled
  BY DEF Received, Handled
<1>10. Links'
  BY <1>2, <1>3, <1>7, <1>8, <1>9 DEF Fifo, Links
<1>11. Sizes'
  BY <1>2, <1>3, <1>7, <1>8 DEF Fifo, Sizes
<1>12. Prefix'
  BY <1>1, <1>4, <1>6, <1>7, <1>8 DEF Fifo, Prefix
<1>13. Apart' /\ Terminated'
  BY <1>2, <1>7, <1>9 DEF Fifo, Apart, Terminated
<1>14. Ordered' /\ Enrolled' = Enrolled
  BY <1>9 DEF Fifo, Ordered, Enrolled
<1>15. QED
  BY <1>7, <1>10, <1>11, <1>12, <1>13, <1>14 DEF Fifo

LEMMA WhileOutside ==
  ASSUME MailInv, Fifo, lpc \in OutSide
  PROVE  /\ mpc \notin Inside /\ alive /\ back = "request"
         /\ Len(received) \in Nat /\ Len(handled) \in Nat
         /\ Taken = Len(handled) + 1 /\ Taken <= Len(received) /\ Left = Len(handled)
         /\ First = IF lpc = "outAdvance" THEN Taken ELSE Taken + 1
         /\ Linked = Len(received) /\ Tailed = Len(received) /\ Counted = Len(received)
<1>1. /\ Len(received) \in Nat /\ Len(handled) \in Nat
  BY Lengths DEF MailInv
<1>2. mpc \notin Inside /\ alive /\ back = "request"
  BY DEF Fifo, Apart, Terminated
<1>3. /\ Taken = Len(handled) + 1 /\ Left = Len(handled)
      /\ First = IF lpc = "outAdvance" THEN Taken ELSE Taken + 1
  BY DEF Taken, Left, First
<1>4. Linked = Len(received) /\ Tailed = Len(received) /\ Counted = Len(received)
  BY <1>1, <1>2 DEF Linked, Tailed, Counted
<1>5. QED
  BY <1>1, <1>2, <1>3, <1>4 DEF Fifo, Prefix

\* What every step of outQueue but the first has in common.
LEMMA OutFrame ==
  ASSUME MailInv, Fifo, lpc \in OutSide, UNCHANGED <<mpc, copyRequest, mreg, received>>,
         UNCHANGED <<next, req, desk, back, dropped>>, lpc' \in OutSide \union {"request"}
  PROVE  /\ Taken' = Taken /\ Linked' = Linked /\ Tailed' = Tailed /\ Counted' = Counted
         /\ Left' = IF lpc' = "request" THEN Taken ELSE Left
         /\ Received' = Received /\ Handled' = Handled
         /\ Apart' /\ Prefix' /\ Ordered' /\ Terminated' /\ Enrolled' = Enrolled
<1>1. /\ mpc \notin Inside /\ alive /\ back = "request"
      /\ Len(received) \in Nat /\ Len(handled) \in Nat
      /\ Taken = Len(handled) + 1 /\ Taken <= Len(received) /\ Left = Len(handled)
      /\ First = IF lpc = "outAdvance" THEN Taken ELSE Taken + 1
      /\ Linked = Len(received) /\ Tailed = Len(received) /\ Counted = Len(received)
  BY WhileOutside
<1>2. Taken' = Taken /\ Linked' = Linked /\ Tailed' = Tailed /\ Counted' = Counted
  BY DEF Taken, Linked, Tailed, Counted
<1>3. Left' = IF lpc' = "request" THEN Taken ELSE Left
  BY <1>1, <1>2 DEF Left
<1>4. Received' = Received /\ Handled' = Handled
  BY DEF Received, Handled
<1>5. Apart' /\ Prefix'
  BY <1>1, <1>2 DEF Fifo, Apart, Prefix
<1>6. Terminated'
  BY <1>1, <1>4 DEF Fifo, Terminated
<1>7. Ordered' /\ Enrolled' = Enrolled
  BY <1>4 DEF Fifo, Ordered, Enrolled
<1>8. QED
  BY <1>2, <1>3, <1>4, <1>5, <1>6, <1>7

LEMMA FifoOutAdvance ==
  ASSUME MailInv, Fifo, OutAdvance
  PROVE  Fifo' /\ lpc' # "crashed"
<1> USE DEF OutAdvance
<1>1. /\ mpc \notin Inside /\ Len(received) \in Nat /\ Len(handled) \in Nat
      /\ Taken = Len(handled) + 1 /\ Taken <= Len(received) /\ Left = Len(handled)
      /\ First = Taken
      /\ Linked = Len(received) /\ Tailed = Len(received) /\ Counted = Len(received)
  BY WhileOutside
<1>2. /\ Taken' = Taken /\ Linked' = Linked /\ Tailed' = Tailed /\ Counted' = Counted
      /\ Left' = Left /\ First' = Taken + 1
      /\ Received' = Received /\ Handled' = Handled
      /\ Apart' /\ Prefix' /\ Ordered' /\ Terminated' /\ Enrolled' = Enrolled
  BY <1>1, OutFrame DEF First
<1>3. Links'
  <2>1. Taken \in First .. Linked
    BY <1>1
  <2>2. head = received[Taken]
    BY <1>1 DEF Fifo, Links
  <2>3. next[received[Taken]] = IF Taken < Linked THEN received[Taken + 1] ELSE NULL
    BY <2>1 DEF Fifo, Links
  <2>4. Taken < Linked <=> Taken + 1 <= Linked
    BY <1>1
  <2>5. head' = IF First' <= Linked' THEN received'[First'] ELSE NULL
    BY <1>2, <2>2, <2>3, <2>4
  <2>6. \A k \in First' .. Linked' : k \in First .. Linked
    BY <1>1, <1>2
  <2>7. \A k \in First' .. Linked' :
            next'[received'[k]] = IF k < Linked' THEN received'[k + 1] ELSE NULL
    BY <1>2, <2>6 DEF Fifo, Links
  <2>8. tail' = IF Tailed' > Len(handled) THEN received[Tailed'] ELSE NULL
    BY <1>1, <1>2 DEF Fifo, Links
  <2>9. QED
    BY <1>1, <1>2, <2>5, <2>7, <2>8 DEF Fifo, Links
<1>4. Sizes'
  BY <1>1, <1>2 DEF Fifo, Sizes
<1>5. QED
  BY <1>2, <1>3, <1>4 DEF Fifo

LEMMA FifoOutLast ==
  ASSUME MailInv, Fifo, OutLast
  PROVE  Fifo' /\ lpc' # "crashed"
<1> USE DEF OutLast
<1>1. /\ mpc \notin Inside /\ Len(received) \in Nat /\ Len(handled) \in Nat
      /\ Taken = Len(handled) + 1 /\ Taken <= Len(received) /\ Left = Len(handled)
      /\ First = Taken + 1
      /\ Linked = Len(received) /\ Tailed = Len(received) /\ Counted = Len(received)
  BY WhileOutside
<1>2. /\ Taken' = Taken /\ Linked' = Linked /\ Tailed' = Tailed /\ Counted' = Counted
      /\ Left' = Left /\ First' = First
      /\ Received' = Received /\ Handled' = Handled
      /\ Apart' /\ Prefix' /\ Ordered' /\ Terminated' /\ Enrolled' = Enrolled
  BY <1>1, OutFrame DEF First
<1>3. head = IF Taken < Len(received) THEN received[Taken + 1] ELSE NULL
  BY <1>1 DEF Fifo, Links
<1>4. Taken < Len(received) => received[Taken + 1] # NULL
  <2>1. Taken < Len(received) => Taken + 1 \in 1 .. Len(received)
    BY <1>1
  <2>2. QED
    BY <2>1, Lengths, Constants DEF MailInv
<1>5. (lpc' = "outTail" => Taken = Len(received)) /\ (lpc' = "outLoad" => Taken < Len(received))
  BY <1>1, <1>3, <1>4
<1>6. tail = received[Len(received)]
  BY <1>1 DEF Fifo, Links
<1>7. Links'
  BY <1>1, <1>2, <1>5, <1>6 DEF Fifo, Links
<1>8. Sizes'
  BY <1>1, <1>2, <1>5 DEF Fifo, Sizes
<1>9. QED
  BY <1>2, <1>7, <1>8 DEF Fifo

LEMMA FifoOutTail ==
  ASSUME MailInv, Fifo, OutTail
  PROVE  Fifo' /\ lpc' # "crashed"
<1> USE DEF OutTail
<1>1. /\ mpc \notin Inside /\ Len(received) \in Nat /\ Len(handled) \in Nat
      /\ Taken = Len(handled) + 1 /\ Taken <= Len(received) /\ Left = Len(handled)
      /\ First = Taken + 1
      /\ Linked = Len(received) /\ Tailed = Len(received) /\ Counted = Len(received)
  BY WhileOutside
<1>2. /\ Taken' = Taken /\ Linked' = Linked /\ Tailed' = Tailed /\ Counted' = Counted
      /\ Left' = Left /\ First' = First
      /\ Received' = Received /\ Handled' = Handled
      /\ Apart' /\ Prefix' /\ Ordered' /\ Terminated' /\ Enrolled' = Enrolled
  BY <1>1, OutFrame DEF First
<1>3. Taken = Len(received)
  BY <1>1 DEF Fifo, Sizes
<1>4. Links'
  BY <1>1, <1>2, <1>3 DEF Fifo, Links
<1>5. Sizes'
  BY <1>1, <1>2 DEF Fifo, Sizes
<1>6. QED
  BY <1>2, <1>4, <1>5 DEF Fifo

LEMMA FifoOutSize ==
  ASSUME MailInv, Fifo, OutLoad \/ OutStore
  PROVE  Fifo' /\ lpc' # "crashed"
<1> USE DEF OutLoad, OutStore
<1>1. /\ mpc \notin Inside /\ Len(received) \in Nat /\ Len(handled) \in Nat
      /\ Taken = Len(handled) + 1 /\ Taken <= Len(received) /\ Left = Len(handled)
      /\ First = Taken + 1 /\ back = "request"
      /\ Linked = Len(received) /\ Tailed = Len(received) /\ Counted = Len(received)
  BY WhileOutside
<1>2. lpc' = IF lpc = "outLoad" THEN "outStore" ELSE "request"
  BY <1>1
<1>3. /\ Taken' = Taken /\ Linked' = Linked /\ Tailed' = Tailed /\ Counted' = Counted
      /\ Left' = (IF lpc' = "request" THEN Taken ELSE Left) /\ First' = First
      /\ Received' = Received /\ Handled' = Handled
      /\ Apart' /\ Prefix' /\ Ordered' /\ Terminated' /\ Enrolled' = Enrolled
  BY <1>1, <1>2, OutFrame DEF First
<1>4. Links'
  <2>1. UNCHANGED <<head, tail, next, received, copyRequest, mpc>>
    OBVIOUS
  <2>2. QED
    BY <1>1, <1>2, <1>3, <2>1 DEF Fifo, Links
<1>5. Sizes'
  <2>1. CASE OutLoad
    BY <1>1, <1>2, <1>3, <2>1 DEF Fifo, Sizes
  <2>2. CASE OutStore
    <3>1. size' = Counted - Left - 1
      BY <2>2 DEF Fifo, Sizes
    <3>2. Left' = Taken
      BY <1>2, <1>3, <2>2
    <3>3. size' = Counted' - Left'
      BY <1>1, <1>3, <3>1, <3>2
    <3>4. QED
      BY <1>1, <1>2, <2>2, <3>3 DEF Sizes
  <2>3. QED
    BY <2>1, <2>2
<1>6. QED
  BY <1>2, <1>3, <1>4, <1>5 DEF Fifo

LEMMA FifoDrop ==
  ASSUME MailInv, Fifo, Drop
  PROVE  Fifo' /\ lpc' # "crashed"
<1> USE DEF Drop
<1>1. ~alive /\ size = 0 /\ dropped = 0
  BY QuietEnd DEF MailInv, Items, Fifo, Terminated
<1>2. lpc' = "collect" /\ dropped' = dropped
  BY <1>1
<1>3. UNCHANGED <<queue, thread, received, desk, lreg>>
  OBVIOUS
<1>4. ~alive => mpc' \notin {"copy", "inQueue"}
  BY <1>3 DEF Fifo, Terminated
<1>5. QED
  BY <1>2, <1>3, <1>4, FifoFrame

\* A request is handled.
LEMMA Handles ==
  ASSUME Types, req \in Requests, handled' = Append(handled, req)
  PROVE  /\ Len(handled') = Len(handled) + 1
         /\ \A k \in 1 .. Len(handled) : handled'[k] = handled[k]
         /\ handled'[Len(handled) + 1] = req
         /\ Handled' = Handled \union {req}
<1>1. /\ Len(handled') = Len(handled) + 1
      /\ \A k \in 1 .. Len(handled) : handled'[k] = handled[k]
      /\ handled'[Len(handled) + 1] = req
      /\ DOMAIN handled' = 1 .. Len(handled) + 1
      /\ DOMAIN handled = 1 .. Len(handled) /\ Len(handled) \in Nat
  BY AppendProperties, LenProperties DEF Types
<1>2. Handled' = Handled \union {req}
  BY <1>1 DEF Handled
<1>3. QED
  BY <1>1, <1>2

\* What is handled: the request that was taken, which is none of those before it.
LEMMA TakenRequest ==
  ASSUME MailInv, Fifo, lpc = "request"
  PROVE  /\ Running /\ Mailbox /\ alive
         /\ Len(received) \in Nat /\ Len(handled) \in Nat
         /\ Taken = Len(handled) + 1 /\ Taken \in 1 .. Len(received) /\ Taken <= Counted
         /\ req = received[Taken] /\ req \in Requests /\ req \notin Handled
         /\ \A k \in 1 .. Taken - 1 : received[k] \in Handled
         /\ \A r \in Handled : \E k \in 1 .. Taken - 1 : received[k] = r
<1>1. Running /\ Mailbox /\ alive
  BY MailboxWorks DEF Fifo, Terminated
<1>2. /\ Len(received) \in Nat /\ Len(handled) \in Nat /\ DOMAIN received = 1 .. Len(received)
      /\ DOMAIN handled = 1 .. Len(handled)
  BY Lengths DEF MailInv
<1>3. Taken = Len(handled) + 1
  BY DEF Taken
<1>4. Taken <= Counted /\ Counted <= Len(received) /\ Counted \in Int
  BY <1>2 DEF Fifo, Prefix, Counted
<1>5. Taken \in 1 .. Len(received)
  BY <1>2, <1>3, <1>4
<1>6. req = received[Taken]
  BY DEF Fifo, Prefix
<1>7. req \in Requests
  BY <1>5, <1>6, Lengths DEF MailInv
<1>8. \A k \in 1 .. Taken - 1 : k \in DOMAIN handled /\ handled[k] = received[k]
  BY <1>2, <1>3 DEF Fifo, Prefix
<1>9. \A k \in 1 .. Taken - 1 : received[k] \in Handled
  BY <1>8 DEF Handled
<1>10. \A r \in Handled : \E k \in 1 .. Taken - 1 : received[k] = r
  <2>1. 1 .. Taken - 1 = DOMAIN handled
    BY <1>2, <1>3
  <2>2. QED
    BY <1>8, <2>1 DEF Handled
<1>11. req \notin Handled
  <2>1. \A k \in 1 .. Taken - 1 : k \in DOMAIN received /\ Taken \in DOMAIN received /\ k # Taken
    BY <1>2, <1>5
  <2>2. \A k \in 1 .. Taken - 1 : received[k] # received[Taken]
    BY <1>1, <2>1 DEF Mailbox
  <2>3. QED
    BY <1>6, <1>10, <2>2
<1>12. QED
  BY <1>1, <1>2, <1>3, <1>4, <1>5, <1>6, <1>7, <1>9, <1>10, <1>11

\* Enrolling comes before everything else a student asks for, and leaving is the last of it.
LEMMA EnrolledCounts ==
  ASSUME MailInv, Fifo, lpc = "request", Handled' = Handled \union {req},
         enrolledStudents' =
            CASE id(req) = REQ_ENROLL_STUDENT    -> enrolledStudents + 1
              [] id(req) = REQ_DISENROLL_STUDENT -> enrolledStudents - 1
              [] OTHER                           -> enrolledStudents
  PROVE  enrolledStudents' = Cardinality(Enrolled')
<1>1. /\ Taken \in 1 .. Len(received) /\ Len(received) \in Nat
      /\ req = received[Taken] /\ req \in Requests /\ req \notin Handled
      /\ \A k \in 1 .. Taken - 1 : received[k] \in Handled
      /\ \A r \in Handled : \E k \in 1 .. Taken - 1 : received[k] = r
  BY TakenRequest
<1>2. /\ req[1] \in Clients /\ req[2] \in 1 .. LastRequest(req[1]) /\ req = <<req[1], req[2]>>
      /\ LastRequest(req[1]) \in 1 .. NumStudies + 2
  BY <1>1, RequestParts, LastType
<1>3. IsFiniteSet(Enrolled) /\ Cardinality(Enrolled) \in Nat /\ enrolledStudents = Cardinality(Enrolled)
  <2>1. IsFiniteSet(Enrolled)
    BY LibrarianAssumption, FS_Subset DEF Enrolled
  <2>2. QED
    BY <2>1, FS_CardinalityType DEF Fifo
<1>4. \A s \in Students : LastRequest(s) = NumStudies + 2 /\ s # Main /\ s \in Clients
  BY Constants DEF LastRequest
<1>5. NumStudies \in Nat
  BY Constants
<1>6. CASE req[1] = Main
  <2>1. id(req) = REQ_TERMINATION
    BY <1>6 DEF id
  <2>2. enrolledStudents' = enrolledStudents
    BY <2>1 DEF REQ_TERMINATION, REQ_ENROLL_STUDENT, REQ_DISENROLL_STUDENT
  <2>3. \A s \in Students, n \in Nat : <<s, n>> # req
    BY <1>4, <1>6
  <2>4. Enrolled' = Enrolled
    BY <1>4, <1>5, <2>3 DEF Enrolled
  <2>5. QED
    BY <1>3, <2>2, <2>4
<1>7. CASE req[1] # Main
  <2>1. req[1] \in Students /\ LastRequest(req[1]) = NumStudies + 2
    BY <1>2, <1>4, <1>7
  <2>2. CASE req[2] = 1
    <3>1. id(req) = REQ_ENROLL_STUDENT
      BY <1>5, <1>7, <2>1, <2>2, SMT DEF id
    <3>2. enrolledStudents' = enrolledStudents + 1
      BY <3>1, SMT DEF REQ_ENROLL_STUDENT, REQ_DISENROLL_STUDENT
    <3>3. req = <<req[1], 1>> /\ <<req[1], LastRequest(req[1])>> # req
      BY <1>2, <1>5, <2>1, <2>2
    <3>4. <<req[1], LastRequest(req[1])>> \notin Handled
      <4>1. ASSUME NEW k \in 1 .. Taken - 1, received[k] = <<req[1], LastRequest(req[1])>>
            PROVE  FALSE
        <5>1. k \in DOMAIN received /\ 1 \in 1 .. received[k][2] - 1
          <6>1. k \in DOMAIN received
            BY <1>1, Lengths DEF MailInv
          <6>2. received[k][2] = NumStudies + 2
            BY <4>1, <2>1
          <6>3. QED
            BY <6>1, <6>2, <1>5
        <5>2. PICK j \in 1 .. k - 1 : received[j] = <<received[k][1], 1>>
          BY <5>1 DEF Fifo, Ordered
        <5>3. j \in 1 .. Taken - 1 /\ received[j] = req
          BY <1>1, <3>3, <4>1, <5>2
        <5>4. QED
          BY <1>1, <5>3
      <4>2. QED
        BY <4>1, <1>1
    <3>5. Enrolled' = Enrolled \union {req[1]}
      <4>1. ASSUME NEW s \in Students
            PROVE  s \in Enrolled' <=> s \in Enrolled \/ s = req[1]
        <5>1. CASE s = req[1]
          BY <3>3, <3>4, <5>1 DEF Enrolled
        <5>2. CASE s # req[1]
          BY <3>3, <5>2 DEF Enrolled
        <5>3. QED
          BY <5>1, <5>2
      <4>2. QED
        BY <4>1, <2>1 DEF Enrolled
    <3>6. req[1] \notin Enrolled
      BY <1>1, <3>3 DEF Enrolled
    <3>7. QED
      BY <1>3, <3>2, <3>5, <3>6, FS_AddElement
  <2>3. CASE req[2] = LastRequest(req[1])
    <3>1. id(req) = REQ_DISENROLL_STUDENT
      BY <1>5, <1>7, <2>1, <2>3, SMT DEF id
    <3>2. enrolledStudents' = enrolledStudents - 1
      BY <3>1, SMT DEF REQ_ENROLL_STUDENT, REQ_DISENROLL_STUDENT
    <3>3. req = <<req[1], LastRequest(req[1])>> /\ <<req[1], 1>> # req
      BY <1>2, <1>5, <2>1, <2>3
    <3>4. <<req[1], 1>> \in Handled
      <4>1. Taken \in DOMAIN received /\ 1 \in 1 .. received[Taken][2] - 1
        <5>1. Taken \in DOMAIN received
          BY <1>1, Lengths DEF MailInv
        <5>2. received[Taken][2] = NumStudies + 2
          BY <1>1, <2>1, <2>3
        <5>3. QED
          BY <5>1, <5>2, <1>5
      <4>2. PICK j \in 1 .. Taken - 1 : received[j] = <<received[Taken][1], 1>>
        BY <4>1 DEF Fifo, Ordered
      <4>3. QED
        BY <1>1, <4>2
    <3>5. Enrolled' = Enrolled \ {req[1]}
      <4>1. ASSUME NEW s \in Students
            PROVE  s \in Enrolled' <=> s \in Enrolled /\ s # req[1]
        <5>1. CASE s = req[1]
          BY <3>3, <5>1 DEF Enrolled
        <5>2. CASE s # req[1]
          BY <3>3, <5>2 DEF Enrolled
        <5>3. QED
          BY <5>1, <5>2
      <4>2. QED
        BY <4>1, <2>1 DEF Enrolled
    <3>6. req[1] \in Enrolled
      BY <1>1, <2>1, <3>3, <3>4 DEF Enrolled
    <3>7. QED
      BY <1>3, <3>2, <3>5, <3>6, FS_RemoveElement
  <2>4. CASE req[2] # 1 /\ req[2] # LastRequest(req[1])
    <3>1. id(req) = REQ_COLLECT_BOOKS
      BY <1>5, <1>7, <2>1, <2>4, SMT DEF id
    <3>2. enrolledStudents' = enrolledStudents
      BY <3>1, SMT DEF REQ_ENROLL_STUDENT, REQ_DISENROLL_STUDENT, REQ_COLLECT_BOOKS
    <3>3. \A s \in Students : <<s, 1>> # req /\ <<s, LastRequest(s)>> # req
      BY <1>2, <1>4, <2>1, <2>4
    <3>4. Enrolled' = Enrolled
      BY <3>3 DEF Enrolled
    <3>5. QED
      BY <1>3, <3>2, <3>4
  <2>5. QED
    BY <2>2, <2>3, <2>4
<1>8. QED
  BY <1>6, <1>7

LEMMA FifoHandleRequest ==
  ASSUME MailInv, Fifo, HandleRequest
  PROVE  Fifo' /\ lpc' # "crashed"
<1> USE DEF HandleRequest
<1>1. /\ Running /\ Mailbox /\ alive
      /\ Len(received) \in Nat /\ Len(handled) \in Nat
      /\ Taken = Len(handled) + 1 /\ Taken \in 1 .. Len(received) /\ Taken <= Counted
      /\ req = received[Taken] /\ req \in Requests /\ req \notin Handled
  BY TakenRequest
<1>2. /\ Len(handled') = Len(handled) + 1
      /\ \A k \in 1 .. Len(handled) : handled'[k] = handled[k]
      /\ handled'[Len(handled) + 1] = req
      /\ Handled' = Handled \union {req} /\ Received' = Received
  BY <1>1, Handles DEF MailInv, Received
<1>3. lpc' \in {"drop", "next"}
  OBVIOUS
<1>4. /\ Taken' = Taken /\ First' = First /\ First = Taken + 1
      /\ Linked' = Linked /\ Tailed' = Tailed
      /\ Counted' = Counted /\ Left' = Taken /\ Left = Taken
  BY <1>1, <1>2, <1>3 DEF Taken, First, Linked, Tailed, Counted, Left
<1>5. Apart' /\ Sizes' /\ Links'
  BY <1>2, <1>3, <1>4 DEF Fifo, Apart, Sizes, Links
<1>6. Prefix'
  <2>1. ASSUME NEW k \in 1 .. Len(handled') PROVE handled'[k] = received'[k]
    <3>1. CASE k \in 1 .. Len(handled)
      BY <1>2, <3>1 DEF Fifo, Prefix
    <3>2. CASE k = Len(handled) + 1
      BY <1>1, <1>2, <3>2
    <3>3. QED
      BY <1>1, <1>2, <3>1, <3>2
  <2>2. QED
    BY <1>1, <1>3, <1>4, <2>1 DEF Prefix
<1>7. enrolledStudents' = Cardinality(Enrolled')
  BY <1>2, EnrolledCounts
<1>8. Terminated'
  <2>1. CASE req = Termination
    <3>1. ~Pending
      BY <1>1, <2>1, AwakeForRequests, Lengths DEF MailInv
    <3>2. Taken = Len(received)
      <4>1. Termination \in Received /\ Len(received) \in DOMAIN received /\ Taken \in DOMAIN received
        <5>1. DOMAIN received = 1 .. Len(received)
          BY Lengths DEF MailInv
        <5>2. Len(received) \in 1 .. Len(received)
          BY <1>1
        <5>3. QED
          BY <1>1, <2>1, <5>1, <5>2 DEF Received
      <4>2. received[Len(received)] = received[Taken]
        BY <1>1, <2>1, <4>1 DEF Mailbox
      <4>3. QED
        BY <1>1, <4>1, <4>2 DEF Mailbox
    <3>3. mpc \notin Inside \union {"copy", "inQueue"}
      BY <1>1, <3>1, <3>2 DEF Pending, Counted
    <3>4. Handled' = Received
      <4>1. \A k \in DOMAIN received : received[k] \in Handled'
        <5>1. \A k \in 1 .. Taken - 1 : received[k] \in Handled
          BY TakenRequest
        <5>2. \A k \in DOMAIN received : k \in 1 .. Taken - 1 \/ k = Taken
          BY <1>1, <3>2, Lengths DEF MailInv
        <5>3. QED
          BY <1>1, <1>2, <5>1, <5>2
      <4>2. \A r \in Handled' : r \in Received
        <5>1. \A r \in Handled : \E k \in 1 .. Taken - 1 : received[k] = r
          BY TakenRequest
        <5>2. \A k \in 1 .. Taken : k \in DOMAIN received
          BY <1>1, Lengths DEF MailInv
        <5>3. QED
          BY <1>1, <1>2, <5>1, <5>2 DEF Received
      <4>3. QED
        BY <4>1, <4>2 DEF Received
    <3>5. Termination \in Posted
      BY <1>1, <2>1, Lengths DEF MailInv, Mailbox
    <3>6. ASSUME NEW s \in Students PROVE <<s, LastRequest(s)>> \in Handled'
      <4>1. sent[Main] = 1
        BY <3>5, Constants DEF Posted, Termination, MailInv, Types, LastRequest
      <4>2. sent[s] = LastRequest(s)
        BY <4>1 DEF MailInv, InTurn
      <4>3. LastRequest(s) \in 1 .. LastRequest(s) /\ s \in Clients
        BY LastType, Constants
      <4>4. <<s, LastRequest(s)>> \in Requests
        BY <4>3, RequestType
      <4>5. <<s, LastRequest(s)>> \in Posted
        BY <4>2, <4>3, <4>4 DEF Posted
      <4>6. QED
        BY <1>1, <3>1, <3>4, <4>5 DEF Mailbox
    <3>7. Enrolled' = {}
      BY <3>6 DEF Enrolled
    <3>8. enrolledStudents' = 0
      BY <1>7, <3>7, FS_EmptySet
    <3>9. Len(handled') = Len(received')
      BY <1>1, <1>2, <3>2
    <3>10. ~alive' /\ Termination \in Handled' /\ dropped' = 0 /\ mpc' = mpc
      BY <1>1, <1>2, <2>1, TerminationOnly
    <3>11. QED
      BY <1>3, <3>3, <3>8, <3>9, <3>10 DEF Terminated
  <2>2. CASE req # Termination
    <3>1. alive'
      BY <1>1, <2>2, TerminationOnly
    <3>2. Termination \notin Handled'
      BY <1>1, <1>2, <2>2 DEF Fifo, Terminated
    <3>3. QED
      BY <1>3, <3>1, <3>2 DEF Terminated
  <2>3. QED
    BY <2>1, <2>2
<1>9. Ordered'
  BY DEF Fifo, Ordered
<1>10. QED
  BY <1>3, <1>5, <1>6, <1>7, <1>8, <1>9 DEF Fifo

LEMMA InitFifo == Init => Fifo /\ lpc # "crashed"
<1> SUFFICES ASSUME Init PROVE Fifo
  BY DEF Init
<1>1. Len(received) = 0 /\ Len(handled) = 0 /\ DOMAIN received = {} /\ DOMAIN handled = {}
  BY DEF Init
<1>2. /\ Taken = 0 /\ First = 1 /\ Linked = 0 /\ Tailed = 0 /\ Counted = 0 /\ Left = 0
  BY <1>1 DEF Init, Taken, First, Linked, Tailed, Counted, Left
<1>3. Received = {} /\ Handled = {} /\ Enrolled = {}
  BY <1>1 DEF Received, Handled, Enrolled
<1>4. Apart /\ Prefix /\ Sizes
  BY <1>1, <1>2 DEF Init, Apart, Prefix, Sizes
<1>5. Links
  BY <1>1, <1>2 DEF Init, Links
<1>6. Ordered /\ Terminated
  BY <1>1, <1>3 DEF Init, Ordered, Terminated
<1>7. enrolledStudents = Cardinality(Enrolled)
  BY <1>3, FS_EmptySet DEF Init
<1>8. QED
  BY <1>4, <1>5, <1>6, <1>7 DEF Fifo

LEMMA FifoNothing ==
  ASSUME Fifo, UNCHANGED vars
  PROVE  Fifo' /\ lpc' = lpc
<1>1. ~alive => mpc' \notin {"copy", "inQueue"}
  BY DEF vars, Fifo, Terminated
<1>2. QED
  BY <1>1, FifoFrame DEF vars

LEMMA FifoInductive ==
  ASSUME MailInv, Fifo, lpc # "crashed", [Next]_vars, ~raced'
  PROVE  Fifo' /\ lpc' # "crashed"
<1>1. CASE MainExit \/ \E c \in Clients : Post(c)
  BY <1>1, FifoClients
<1>2. CASE MessageThread
  BY <1>2, FifoMessage, FifoInTest, FifoInNext, FifoInHead, FifoInTail, FifoInSize
  DEF MessageThread, inQueue
<1>3. CASE Life
  BY <1>3, FifoLife, FifoNextRequest, FifoOutFirst, FifoOutAdvance, FifoOutLast, FifoOutTail,
     FifoOutSize, FifoHandleRequest, FifoDrop
  DEF Life, outQueue
<1>4. CASE UNCHANGED vars
  BY <1>4, FifoNothing
<1>5. QED
  BY <1>1, <1>2, <1>3, <1>4 DEF Next

\* Once the two threads have met in the queue, they have.
LEMMA RacedStays ==
  ASSUME MailInv, [Next]_vars, raced
  PROVE  raced'
<1> USE DEF vars
<1>1. CASE MainExit \/ \E c \in Clients : Post(c)
  BY <1>1 DEF MainExit, Post, PostDown, PostWrite, PostUp
<1>2. CASE MessageThread
  BY <1>2 DEF MessageThread, inQueue, MessageWhile, MessageDown, MessageTest, MessageCopy, InTest,
     InNext, InHead, InTail, InLoad, InStore, MessageUp
<1>3. CASE Life
  BY <1>3 DEF Life, outQueue, LifeWhile, HandleRequests, NextRequest, OutFirst, OutAdvance,
     OutLast, OutTail, OutLoad, OutStore, HandleRequest, Drop, CollectBooks, DoneUp, Join
<1>4. QED
  BY <1>1, <1>2, <1>3 DEF Next

\* While no two threads have been in the queue at once, the linked list is what was received and
\* not yet taken, as each half-done inQueue or outQueue leaves it.
THEOREM Inductive == Spec => []IInv
<1>1. Init => IInv
  BY InitMail, InitFifo DEF IInv
<1>2. IInv /\ [Next]_vars => IInv'
  BY MailInductive, FifoInductive, RacedStays DEF IInv
<1>3. QED
  BY <1>1, <1>2, PTL DEF Spec

\* The students still active are counted right as long as the threads do not meet in the
\* queue, and with the request for termination, the last one, nothing is dropped.
THEOREM CountedRight == Spec => []StudentsCounted
<1>1. IInv => StudentsCounted
  <2> SUFFICES ASSUME IInv, ~raced PROVE StudentsCounted
    BY DEF StudentsCounted
  <2>1. /\ IsFiniteSet(Students) /\ Cardinality(Students) \in Nat
        /\ Cardinality(Enrolled) \in 0 .. Cardinality(Students)
    <3>1. IsFiniteSet(Students) /\ Enrolled \subseteq Students
      BY LibrarianAssumption DEF Enrolled
    <3>2. Cardinality(Enrolled) <= Cardinality(Students) /\ IsFiniteSet(Enrolled)
      BY <3>1, FS_Subset
    <3>3. QED
      BY <3>1, <3>2, FS_CardinalityType
  <2>2. enrolledStudents \in 0 .. Cardinality(Students)
    BY <2>1 DEF IInv, Fifo
  <2>3. lpc \in {"done", "join", "exited"} => enrolledStudents = 0 /\ dropped = 0
    BY DEF IInv, Fifo, Terminated, MailInv, Items
  <2>4. QED
    BY <2>2, <2>3 DEF StudentsCounted
<1>2. QED
  BY <1>1, Inductive, PTL

\* Requests are handled in the order they were received, and those that are not yet are
\* the list from head to tail, as long as the threads do not meet in the queue.
THEOREM HandledInOrder == Spec => []InOrder
<1>1. IInv => InOrder
  <2> SUFFICES ASSUME IInv, ~raced, mpc \notin Inside,
                      lpc \notin OutSide \union {"request", "crashed"}
               PROVE  /\ handled = SubSeq(received, 1, Len(handled))
                      /\ Holds(SubSeq(received, Len(handled) + 1, Len(received)))
    BY DEF InOrder
  <2>1. /\ Len(received) \in Nat /\ Len(handled) \in Nat
        /\ received \in Seq(Requests) /\ handled \in Seq(Requests)
    BY Lengths DEF IInv, MailInv, Types
  <2>2. /\ Taken = Len(handled) /\ First = Len(handled) + 1 /\ Left = Len(handled)
        /\ Linked = Len(received) /\ Tailed = Len(received) /\ Counted = Len(received)
    BY <2>1 DEF Taken, First, Left, Linked, Tailed, Counted
  <2>3. Len(handled) <= Len(received)
    BY <2>2 DEF IInv, Fifo, Prefix
  <2>4. handled = SubSeq(received, 1, Len(handled))
    <3> DEFINE first == SubSeq(received, 1, Len(handled))
    <3>1. \A i \in 1 .. Len(handled) : received[i] \in Requests
      BY <2>1, <2>3
    <3>2. /\ first \in Seq(Requests) /\ Len(first) = Len(handled)
          /\ \A i \in 1 .. Len(handled) : first[i] = received[i]
      <4> HIDE DEF first
      <4>1. /\ first \in Seq(Requests)
            /\ Len(first) = IF 1 <= Len(handled) THEN Len(handled) - 1 + 1 ELSE 0
            /\ \A i \in 1 .. Len(handled) - 1 + 1 : first[i] = received[1 + i - 1]
        BY <2>1, <3>1, SubSeqProperties DEF first
      <4>2. QED
        BY <2>1, <4>1
    <3>3. \A i \in 1 .. Len(handled) : handled[i] = first[i]
      BY <3>2 DEF IInv, Fifo, Prefix
    <3>4. QED
      BY <2>1, <3>2, <3>3, SeqEqual
  <2>5. Holds(SubSeq(received, Len(handled) + 1, Len(received)))
    <3> DEFINE rest == SubSeq(received, Len(handled) + 1, Len(received))
               n == Len(received) - Len(handled)
    <3>1. \A i \in Len(handled) + 1 .. Len(received) : received[i] \in Requests
      BY <2>1
    <3>2. /\ Len(rest) = n /\ n \in Nat
          /\ \A k \in 1 .. n : rest[k] = received[Len(handled) + k]
      <4> HIDE DEF rest
      <4>1. /\ Len(rest) = IF Len(handled) + 1 <= Len(received)
                           THEN Len(received) - (Len(handled) + 1) + 1 ELSE 0
            /\ \A k \in 1 .. Len(received) - (Len(handled) + 1) + 1 :
                  rest[k] = received[Len(handled) + 1 + k - 1]
        BY <2>1, <3>1, SubSeqProperties DEF rest
      <4>2. n \in Nat /\ n = Len(received) - (Len(handled) + 1) + 1
        BY <2>1, <2>3
      <4>3. Len(rest) = n
        BY <2>1, <2>3, <4>1
      <4>4. ASSUME NEW k \in 1 .. n PROVE rest[k] = received[Len(handled) + k]
        <5>1. Len(handled) + 1 + k - 1 = Len(handled) + k
          BY <2>1
        <5>2. QED
          BY <4>1, <4>2, <5>1
      <4>5. QED
        BY <4>2, <4>3, <4>4
    <3> HIDE DEF rest
    <3>3. size = n
      BY <2>2 DEF IInv, Fifo, Sizes
    <3>4. head = IF n = 0 THEN NULL ELSE rest[1]
      <4>1. head = IF Len(handled) + 1 <= Len(received) THEN received[Len(handled) + 1] ELSE NULL
        BY <2>2 DEF IInv, Fifo, Links
      <4>2. n = 0 <=> ~(Len(handled) + 1 <= Len(received))
        BY <2>1, <2>3
      <4>3. n # 0 => rest[1] = received[Len(handled) + 1]
        BY <3>2
      <4>4. QED
        BY <4>1, <4>2, <4>3
    <3>5. tail = IF n = 0 THEN NULL ELSE rest[n]
      <4>1. tail = IF Len(received) > Len(handled) THEN received[Len(received)] ELSE NULL
        BY <2>2 DEF IInv, Fifo, Links
      <4>2. n = 0 <=> ~(Len(received) > Len(handled))
        BY <2>1, <2>3
      <4>3. n # 0 => rest[n] = received[Len(received)]
        <5>1. Len(handled) + n = Len(received)
          BY <2>1
        <5>2. n # 0 => n \in 1 .. n
          BY <3>2
        <5>3. QED
          BY <3>2, <5>1, <5>2
      <4>4. QED
        BY <4>1, <4>2, <4>3
    <3>6. ASSUME NEW k \in 1 .. n
          PROVE  next[rest[k]] = IF k = n THEN NULL ELSE rest[k + 1]
      <4>1. /\ Len(handled) + k \in Len(handled) + 1 .. Len(received)
            /\ Len(handled) + k < Len(received) <=> k # n
            /\ (Len(handled) + k) + 1 = Len(handled) + (k + 1)
            /\ k # n => k + 1 \in 1 .. n
        BY <2>1, <2>3
      <4>2. next[received[Len(handled) + k]] =
               IF Len(handled) + k < Len(received) THEN received[(Len(handled) + k) + 1] ELSE NULL
        BY <2>2, <4>1 DEF IInv, Fifo, Links
      <4>3. rest[k] = received[Len(handled) + k]
        BY <3>2
      <4>4. k # n => rest[k + 1] = received[Len(handled) + (k + 1)]
        BY <3>2, <4>1
      <4>5. QED
        BY <4>1, <4>2, <4>3, <4>4
    <3>7. QED
      <4> HIDE DEF n
      <4>1. Holds(rest)
        BY <3>2, <3>3, <3>4, <3>5, <3>6 DEF Holds
      <4>2. QED
        BY <4>1 DEF rest
  <2>6. QED
    BY <2>4, <2>5
<1>2. QED
  BY <1>1, Inductive, PTL
=============================================================================
