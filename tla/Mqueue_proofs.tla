---------------------------- MODULE Mqueue_proofs ---------------------------
(***************************************************************************)
(* Which mqueue blocks share a queue, and which queues are left behind:    *)
(* proof for any number of blocks, processes and names.  Both statements   *)
(* are inductive once the variables have their types.                      *)
(***************************************************************************)
EXTENDS Mqueue, TLAPS

Queue == [maxmsg : Nat, msgs : Nat]

MqueueTypeOK ==
  /\ state \in [Blocks -> {"preinit", "inactive", "active"}]
  /\ mqd \in [Blocks -> Nat \cup {NoQueue}]
  /\ linked \in [Names -> Nat \cup {NoQueue}]
  /\ queues \in Seq(Queue)
  /\ orphans \subseteq Blocks /\ left \subseteq Names

MqueueInv == MqueueTypeOK /\ SharesQueue /\ NothingLeftBehind

LEMMA MqueueInitInv == Init => MqueueInv
<1> SUFFICES ASSUME Init PROVE MqueueInv
    OBVIOUS
<1>1. MqueueTypeOK
      BY MqueueAssumption DEF Init, MqueueTypeOK, Names, Queue
<1>2. SharesQueue
      BY DEF Init, SharesQueue, Open
<1>3. NothingLeftBehind
      BY DEF Init, NothingLeftBehind
<1> QED
    BY <1>1, <1>2, <1>3 DEF MqueueInv

LEMMA QueueChanged ==
  ASSUME queues \in Seq(Queue), NEW q, NEW m \in Nat,
         queues' = [queues EXCEPT ![q].msgs = m]
  PROVE  queues' \in Seq(Queue)
<1>1. CASE q \in DOMAIN queues
  <2>1. queues[q] \in Queue
        BY <1>1
  <2>2. [queues[q] EXCEPT !.msgs = m] \in Queue
        BY <2>1 DEF Queue
  <2>3. queues' = [queues EXCEPT ![q] = [queues[q] EXCEPT !.msgs = m]]
        OBVIOUS
  <2> DEFINE r == [queues[q] EXCEPT !.msgs = m]
  <2>4. r \in Queue /\ queues' = [queues EXCEPT ![q] = r]
        BY <2>2, <2>3
  <2> HIDE DEF r
  <2> QED
      BY <1>1, <2>4
<1>2. CASE q \notin DOMAIN queues
  <2> DEFINE r == [queues[q] EXCEPT !.msgs = m]
  <2>1. queues' = [queues EXCEPT ![q] = r]
        OBVIOUS
  <2> HIDE DEF r
  <2>2. queues' = queues
        BY <1>2, <2>1
  <2> QED
      BY <2>2
<1> QED
    BY <1>1, <1>2

\* The steps after which every block has the queue it had.
LEMMA QuietStep ==
  ASSUME MqueueInv, UNCHANGED <<mqd, linked, orphans, left>>,
         state' \in [Blocks -> {"preinit", "inactive", "active"}], queues' \in Seq(Queue)
  PROVE  MqueueInv'
BY DEF MqueueInv, MqueueTypeOK, SharesQueue, NothingLeftBehind, Open

LEMMA MqueueNextInv == MqueueInv /\ [Next]_vars => MqueueInv'
<1> SUFFICES ASSUME MqueueInv, [Next]_vars PROVE MqueueInv'
    OBVIOUS
<1> USE MqueueAssumption DEF MqueueInv
<1>0. \A b \in Blocks : mq_name[b] \in Names
      BY DEF Names
<1>1. ASSUME NEW b \in Blocks, BlockInit(b) PROVE MqueueInv'
  <2> DEFINE n == mq_name[b]
  <2>0. /\ state' = [state EXCEPT ![b] = "inactive"]
        /\ UNCHANGED <<orphans, left>> /\ n \in Names
        BY <1>0, <1>1 DEF BlockInit, MoveTo, MqueueTypeOK
  <2>1. PICK q \in Nat :
          /\ mqd' = [mqd EXCEPT ![b] = q]
          /\ linked' = [linked EXCEPT ![n] = q]
          /\ linked[n] \in {NoQueue, q}
          /\ queues' \in Seq(Queue)
    <3>1. CASE linked[n] = NoQueue
      <4> DEFINE r == [maxmsg |-> buffer_len[b], msgs |-> 0]
      <4>1. r \in Queue
            BY DEF Queue
      <4>2. queues' = Append(queues, r)
            BY <1>1, <3>1 DEF BlockInit, Opened, Created
      <4> HIDE DEF r
      <4>3. queues' \in Seq(Queue) /\ Len(queues') \in Nat
            BY <4>1, <4>2 DEF MqueueTypeOK
      <4>4. mqd' = [mqd EXCEPT ![b] = Len(queues')] /\ linked' = [linked EXCEPT ![n] = Len(queues')]
            BY <1>1, <3>1 DEF BlockInit, Opened, Created
      <4> QED
          BY <3>1, <4>3, <4>4
    <3>2. CASE linked[n] # NoQueue
      <4>1. linked[n] \in Nat
            BY <2>0, <3>2 DEF MqueueTypeOK
      <4>2. mqd' = [mqd EXCEPT ![b] = linked[n]] /\ UNCHANGED <<linked, queues>>
            BY <1>1, <3>2 DEF BlockInit, Opened
      <4>3. linked' = [linked EXCEPT ![n] = linked[n]]
            BY <4>2 DEF MqueueTypeOK
      <4> QED
          BY <4>1, <4>2, <4>3 DEF MqueueTypeOK
    <3> QED
        BY <3>1, <3>2
  <2>2. MqueueTypeOK'
        BY <2>0, <2>1 DEF MqueueTypeOK
  <2>3. SharesQueue'
    <3> SUFFICES ASSUME NEW c \in Blocks, Open(c)', c \notin orphans
                 PROVE  mqd'[c] = linked'[mq_name[c]]
        BY <2>0 DEF SharesQueue
    <3>1. CASE c = b
          BY <2>0, <2>1, <3>1 DEF MqueueTypeOK
    <3>2. CASE c # b
      <4>1. mqd'[c] = mqd[c] /\ mqd[c] = linked[mq_name[c]] /\ mqd[c] # NoQueue
            BY <2>1, <3>2 DEF SharesQueue, Open, MqueueTypeOK
      <4>2. CASE mq_name[c] = n
            BY <2>0, <2>1, <4>1, <4>2 DEF MqueueTypeOK
      <4>3. CASE mq_name[c] # n
            BY <1>0, <2>1, <4>1, <4>3 DEF MqueueTypeOK
      <4> QED
          BY <4>2, <4>3
    <3> QED
        BY <3>1, <3>2
  <2>4. NothingLeftBehind'
    <3> SUFFICES ASSUME NEW m \in Names \ left
                 PROVE  linked'[m] = NoQueue \/ \E c \in Blocks : Open(c)' /\ mq_name[c] = m
        BY <2>0 DEF NothingLeftBehind
    <3>1. Open(b)' /\ \A c \in Blocks : Open(c) => Open(c)'
          BY <2>1 DEF Open, MqueueTypeOK
    <3>2. CASE m = n
          BY <3>1, <3>2
    <3>3. CASE m # n
          BY <2>1, <3>1, <3>3 DEF NothingLeftBehind, MqueueTypeOK
    <3> QED
        BY <3>2, <3>3
  <2> QED
      BY <2>2, <2>3, <2>4
<1>2. ASSUME NEW b \in Blocks, BlockStart(b) PROVE MqueueInv'
      BY <1>2, QuietStep DEF BlockStart, MoveTo, MqueueTypeOK
<1>3. ASSUME NEW b \in Blocks, BlockStop(b) PROVE MqueueInv'
      BY <1>3, QuietStep DEF BlockStop, MoveTo, MqueueTypeOK
<1>4. ASSUME NEW b \in Blocks, Write(b) \/ Read(b) PROVE MqueueInv'
  <2> DEFINE i == mqd[b]
  <2>1. CASE i \in DOMAIN queues
    <3>1. queues[i].msgs \in Nat
      <4>1. queues[i] \in Queue
            BY <2>1 DEF MqueueTypeOK
      <4> QED
          BY <4>1 DEF Queue
    <3>2. PICK m \in Nat : queues' = [queues EXCEPT ![i].msgs = m]
      <4> DEFINE k == queues[i].msgs
      <4>1. CASE Write(b)
        <5>1. k + 1 \in Nat /\ queues' = [queues EXCEPT ![i].msgs = k + 1]
              BY <3>1, <4>1 DEF Write
        <5> QED
            BY <5>1
      <4>2. CASE Read(b)
        <5>1. k > 0 /\ queues' = [queues EXCEPT ![i].msgs = k - 1]
              BY <4>2 DEF Read
        <5>2. k - 1 \in Nat
              BY <3>1, <5>1
        <5> QED
            BY <5>1, <5>2
      <4> QED
          BY <1>4, <4>1, <4>2
    <3>3. queues \in Seq(Queue)
          BY DEF MqueueTypeOK
    <3> HIDE DEF i
    <3>4. queues' \in Seq(Queue)
          BY <3>2, <3>3, QueueChanged
    <3> QED
        BY <1>4, <3>4, QuietStep DEF Write, Read, MqueueTypeOK
  <2>2. CASE i \notin DOMAIN queues
    <3>1. queues' = queues
          BY <1>4, <2>2 DEF Write, Read, MqueueTypeOK
    <3> QED
        BY <1>4, <3>1, QuietStep DEF Write, Read, MqueueTypeOK
  <2> QED
      BY <2>1, <2>2
<1>5. ASSUME NEW b \in Blocks, BlockCleanup(b) PROVE MqueueInv'
  <2> DEFINE n == mq_name[b]
  <2>1. /\ state' = [c \in Blocks |-> IF c \in {b} THEN "preinit" ELSE state[c]]
        /\ mqd' = [c \in Blocks |-> IF c \in {b} THEN NoQueue ELSE mqd[c]]
        /\ UNCHANGED queues /\ Unlinked(b) /\ n \in Names
        BY <1>0, <1>5 DEF BlockCleanup, MoveTo, Close
  <2>2. \A c \in Blocks : Open(c)' <=> c # b /\ Open(c)
        BY <2>1 DEF Open, MqueueTypeOK
  <2>3. \A c \in Blocks \ {b} : mqd'[c] = mqd[c]
        BY <2>1
  <2>4. CASE unlink[b]
    <3>1. /\ linked' = [linked EXCEPT ![n] = NoQueue]
          /\ orphans' = {c \in orphans \cup Blocks : c # b /\ Open(c)
                           /\ (c \in orphans \/ mq_name[c] = n)}
          /\ left' = left \ {n}
          BY <2>1, <2>4 DEF Unlinked
    <3>2. MqueueTypeOK'
          BY <2>1, <3>1 DEF MqueueTypeOK
    <3>3. SharesQueue'
      <4> SUFFICES ASSUME NEW c \in Blocks, Open(c)', c \notin orphans'
                   PROVE  mqd'[c] = linked'[mq_name[c]]
          BY DEF SharesQueue
      <4>1. c # b /\ Open(c)
            BY <2>2
      <4>2. c \notin orphans /\ mq_name[c] # n
            BY <3>1, <4>1
      <4> QED
          BY <1>0, <2>3, <3>1, <4>1, <4>2 DEF SharesQueue, MqueueTypeOK
    <3>4. NothingLeftBehind'
      <4> SUFFICES ASSUME NEW m \in Names \ left'
                   PROVE  linked'[m] = NoQueue \/ \E c \in Blocks : Open(c)' /\ mq_name[c] = m
          BY DEF NothingLeftBehind
      <4>1. CASE m = n
            BY <2>1, <3>1, <4>1 DEF MqueueTypeOK
      <4>2. CASE m # n
            BY <2>2, <3>1, <4>2 DEF NothingLeftBehind, MqueueTypeOK
      <4> QED
          BY <4>1, <4>2
    <3> QED
        BY <3>2, <3>3, <3>4
  <2>5. CASE ~unlink[b]
    <3>1. UNCHANGED linked /\ orphans' = orphans \ {b} /\ left' = left \cup {n}
          BY <2>1, <2>5 DEF Unlinked
    <3>2. MqueueTypeOK'
          BY <2>1, <3>1 DEF MqueueTypeOK
    <3>3. SharesQueue'
          BY <2>2, <2>3, <3>1 DEF SharesQueue
    <3>4. NothingLeftBehind'
          BY <2>2, <3>1 DEF NothingLeftBehind
    <3> QED
        BY <3>2, <3>3, <3>4
  <2> QED
      BY <2>4, <2>5
<1>6. ASSUME NEW p \in Processes, Crash(p) PROVE MqueueInv'
  <2> DEFINE S == {b \in Blocks : ProcessOf[b] = p}
             N == {mq_name[b] : b \in {c \in S : Open(c)}}
  <2>1. /\ state' = [c \in Blocks |-> IF c \in S THEN "preinit" ELSE state[c]]
        /\ mqd' = [c \in Blocks |-> IF c \in S THEN NoQueue ELSE mqd[c]]
        /\ orphans' = orphans \ S /\ left' = left \cup N /\ UNCHANGED <<linked, queues>>
        BY <1>6 DEF Crash, MoveTo, Close
  <2>2. N \subseteq Names
        BY <1>0
  <2>3. \A c \in Blocks : c \in S /\ Open(c) => mq_name[c] \in N
        OBVIOUS
  <2> HIDE DEF S, N
  <2>4. \A c \in Blocks : Open(c)' <=> c \notin S /\ Open(c)
        BY <2>1 DEF Open, MqueueTypeOK
  <2>5. \A c \in Blocks \ S : mqd'[c] = mqd[c]
        BY <2>1
  <2>6. MqueueTypeOK'
        BY <2>1, <2>2 DEF MqueueTypeOK
  <2>7. SharesQueue'
        BY <2>1, <2>4, <2>5 DEF SharesQueue
  <2>8. NothingLeftBehind'
        BY <2>1, <2>3, <2>4 DEF NothingLeftBehind
  <2> QED
      BY <2>6, <2>7, <2>8
<1>7. CASE UNCHANGED vars
      BY <1>7, QuietStep DEF vars, MqueueTypeOK
<1> QED
    BY <1>1, <1>2, <1>3, <1>4, <1>5, <1>6, <1>7 DEF Next

\* Blocks of one name share one queue until another block of the name is
\* cleaned up, for any number of blocks and processes that start, crash and
\* restart in any order (mqueue_init, mqueue_cleanup).
THEOREM SharesQueueHolds == Spec => []SharesQueue
<1>1. MqueueInv => SharesQueue
      BY DEF MqueueInv
<1> QED
    BY MqueueInitInv, MqueueNextInv, <1>1, PTL DEF Spec

\* A queue that no block has open was left by a block without unlink or by a
\* crash, for any number of blocks and processes (mqueue_cleanup).
THEOREM NothingLeftBehindHolds == Spec => []NothingLeftBehind
<1>1. MqueueInv => NothingLeftBehind
      BY DEF MqueueInv
<1> QED
    BY MqueueInitInv, MqueueNextInv, <1>1, PTL DEF Spec
=============================================================================
