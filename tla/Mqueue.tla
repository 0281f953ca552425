------------------------------- MODULE Mqueue -------------------------------
(***************************************************************************)
(* The life of ubx/mqueue blocks in several processes.  A queue lives in   *)
(* the kernel under a name made of the config mq_id, the type and the      *)
(* length of its data; it survives the processes until it is unlinked and  *)
(* nobody has it open.  Blocks of one name share the queue they find under *)
(* it when they are initialised.  The queues are non-blocking.             *)
(***************************************************************************)
EXTENDS Naturals, Sequences

CONSTANTS
  Blocks,
  Processes,
  ProcessOf,   \* the process in which a block lives
  mq_name,     \* inf->mq_name of each block
  buffer_len,  \* config buffer_len of each block
  unlink,      \* config unlink of each block
  NoQueue,
  MaxQueues    \* bound: queues created

Names == {mq_name[b] : b \in Blocks}

ASSUME MqueueAssumption ==
  /\ ProcessOf \in [Blocks -> Processes]
  /\ buffer_len \in [Blocks -> Nat] /\ unlink \in [Blocks -> BOOLEAN]
  /\ MaxQueues \in Nat /\ NoQueue \notin Nat

VARIABLES
  state,   \* block_state of each block
  mqd,     \* inf->mqd: the queue it has opened
  linked,  \* the kernel: the queue under each name
  queues,  \* the kernel: all queues there were, with mq_maxmsg and their messages
  orphans, \* history: the blocks whose queue was unlinked while they had it open
  left     \* history: the names under which a block has left a queue

vars == <<state, mqd, linked, queues, orphans, left>>

Open(b)     == mqd[b] # NoQueue
MoveTo(S, s) == state' = [b \in Blocks |-> IF b \in S THEN s ELSE state[b]]
Close(S)     == mqd' = [b \in Blocks |-> IF b \in S THEN NoQueue ELSE mqd[b]]

Init ==
  /\ state = [b \in Blocks |-> "preinit"]
  /\ mqd = [b \in Blocks |-> NoQueue]
  /\ linked = [n \in Names |-> NoQueue]
  /\ queues = <<>>
  /\ orphans = {} /\ left = {}

Created(b) ==
  /\ Len(queues) < MaxQueues
  /\ queues' = Append(queues, [maxmsg |-> buffer_len[b], msgs |-> 0])
  /\ linked' = [linked EXCEPT ![mq_name[b]] = Len(queues')]
  /\ mqd' = [mqd EXCEPT ![b] = Len(queues')]

\* Slip: a queue that exists is never joined
CreatedAlways(b) == Created(b)

\* mq_open with O_CREAT: the attributes only count for a new queue
Opened(b) ==
  IF linked[mq_name[b]] = NoQueue THEN Created(b)
  ELSE mqd' = [mqd EXCEPT ![b] = linked[mq_name[b]]] /\ UNCHANGED <<linked, queues>>

\* mqueue_init; a length of 0 is refused
BlockInit(b) ==
  /\ state[b] = "preinit" /\ buffer_len[b] > 0
  /\ MoveTo({b}, "inactive")
  /\ Opened(b)
  /\ UNCHANGED <<orphans, left>>

BlockStart(b) ==
  /\ state[b] = "inactive" /\ MoveTo({b}, "active")
  /\ UNCHANGED <<mqd, linked, queues, orphans, left>>

BlockStop(b) ==
  /\ state[b] = "active" /\ MoveTo({b}, "inactive")
  /\ UNCHANGED <<mqd, linked, queues, orphans, left>>

\* mqueue_write: a full queue refuses the message
Write(b) ==
  /\ state[b] = "active"
  /\ queues[mqd[b]].msgs < queues[mqd[b]].maxmsg
  /\ queues' = [queues EXCEPT ![mqd[b]].msgs = @ + 1]
  /\ UNCHANGED <<state, mqd, linked, orphans, left>>

\* mqueue_read: an empty queue has no data
Read(b) ==
  /\ state[b] = "active"
  /\ queues[mqd[b]].msgs > 0
  /\ queues' = [queues EXCEPT ![mqd[b]].msgs = @ - 1]
  /\ UNCHANGED <<state, mqd, linked, orphans, left>>

\* Slip: mq_unlink is given mq_id, which is not the name of a queue
UnlinkedById(b) ==
  /\ linked' = linked
  /\ orphans' = orphans \ {b}
  /\ left' = IF unlink[b] THEN left \ {mq_name[b]} ELSE left \cup {mq_name[b]}

\* mq_unlink removes whatever queue has the name now; the blocks that have a
\* queue open keep it
Unlinked(b) ==
  IF unlink[b]
  THEN /\ linked' = [linked EXCEPT ![mq_name[b]] = NoQueue]
       /\ orphans' = {c \in orphans \cup Blocks : c # b /\ Open(c)
                        /\ (c \in orphans \/ mq_name[c] = mq_name[b])}
       /\ left' = left \ {mq_name[b]}
  ELSE linked' = linked /\ orphans' = orphans \ {b} /\ left' = left \cup {mq_name[b]}

\* mqueue_cleanup
BlockCleanup(b) ==
  /\ state[b] = "inactive" /\ MoveTo({b}, "preinit")
  /\ Close({b})
  /\ Unlinked(b)
  /\ UNCHANGED queues

\* the process ends without a cleanup: the kernel closes its queues
Crash(p) ==
  LET S == {b \in Blocks : ProcessOf[b] = p}
      N == {mq_name[b] : b \in {c \in S : Open(c)}}
  IN  /\ \E b \in S : Open(b)
      /\ MoveTo(S, "preinit") /\ Close(S)
      /\ orphans' = orphans \ S /\ left' = left \cup N
      /\ UNCHANGED <<linked, queues>>

Next ==
  \/ \E b \in Blocks :
       BlockInit(b) \/ BlockStart(b) \/ BlockStop(b) \/ Write(b) \/ Read(b) \/ BlockCleanup(b)
  \/ \E p \in Processes : Crash(p)

Spec == Init /\ [][Next]_vars

-----------------------------------------------------------------------------
\* Two blocks of one name are connected, in whatever order their processes were
\* started, stopped, crashed and restarted, unless another block of the name
\* was cleaned up while one of them had its queue open (mqueue_init).
SharesQueue ==
  \A b \in Blocks : Open(b) /\ b \notin orphans => mqd[b] = linked[mq_name[b]]

\* A block finds old messages only under a name that a block without unlink or
\* a crashed process has left: else the queue went with the last block that had
\* it open (mqueue_cleanup).
NothingLeftBehind ==
  \A n \in Names \ left :
    linked[n] = NoQueue \/ \E b \in Blocks : Open(b) /\ mq_name[b] = n

\* What the config buffer_len says: the "max number of data elements the buffer
\* shall hold".
HoldsBufferLen == \A b \in Blocks : Open(b) => queues[mqd[b]].msgs <= buffer_len[b]
=============================================================================
