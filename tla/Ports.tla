------------------------------- MODULE Ports --------------------------------
(***************************************************************************)
(* How blocks exchange data: the ports of blocks that are stepped by       *)
(* different threads, connected by interaction blocks which the main       *)
(* thread connects, disconnects, starts and stops.  A port belongs to one  *)
(* thread.  The interactions are lfds_cyclic, which overwrites its oldest  *)
(* element when it is full, and mqueue, which refuses the new one.         *)
(*                                                                         *)
(* The ring buffer of liblfds and the message queues of the kernel are     *)
(* external: their operations are atomic.  A thread that uses an element   *)
(* of a ring buffer holds it, the other elements are free or queued.       *)
(***************************************************************************)
EXTENDS Naturals, Sequences, SequencesExt, FiniteSets, FiniteSetsExt

CONSTANTS
  Outs,       \* output ports
  Ins,        \* input ports
  Cyclics,    \* blocks of type ubx/lfds_cyclic
  Mqueues,    \* blocks of type ubx/mqueue, non-blocking
  BufferLen,  \* config buffer_len of each
  Fits,       \* the ports whose type and length an interaction is configured for
  MaxMsgs,    \* bound: samples written to each output port
  Topologies, \* bound: the connections made before the threads run
  MaxConns,   \* bound: length of the array of connections of a port
  MaxChanges  \* bound: connects, disconnects, starts and stops while they run

Ports   == Outs \cup Ins
Iblocks == Cyclics \cup Mqueues

ASSUME PortsAssumption ==
  /\ Outs \cap Ins = {} /\ Cyclics \cap Mqueues = {}
  /\ IsFiniteSet(Ports)
  /\ BufferLen \in [Iblocks -> Nat \ {0}]
  /\ Fits \subseteq Ports \X Iblocks
  /\ Topologies \subseteq [Ports -> Seq(Iblocks)]
  /\ MaxMsgs \in [Outs -> Nat] /\ {MaxConns, MaxChanges} \subseteq Nat

VARIABLES
  conns,   \* out_interaction or in_interaction of each port
  active,  \* the interactions in state ACTIVE
  free,    \* inf->rbs: the elements of a ring buffer nobody uses
  queue,   \* the queued elements, of a message queue the samples
  data,    \* the sample in each element
  overruns,  \* inf->overruns
  pc,      \* where the thread of each port is in __port_write or __port_read
  pos,     \* its place in the array of connections
  elem,    \* the element it holds
  sample,  \* the sample it writes
  seenOverruns,  \* inf->overruns as it has read it
  changes, \* bound: how often the main thread has changed something
  wanted,  \* history: connects minus disconnects of each port and interaction
  lost,    \* history: overwritten elements of each ring buffer
  got      \* history: the last sample of each output port a port has read from
           \* each interaction

mainVars == <<conns, active, wanted, changes>>
bufVars  == <<free, queue, data, overruns, lost>>
vars     == <<mainVars, bufVars, pc, pos, elem, sample, seenOverruns, got>>

Elements(b) == 1 .. BufferLen[b]
Sample      == [from : Outs, n : Nat]
NoSample    == [from |-> "none", n |-> 0]
NoElement   == 0
Count(s, b) == Cardinality({k \in DOMAIN s : s[k] = b})

TypeOK ==
  /\ conns \in [Ports -> Seq(Iblocks)]
  /\ active \subseteq Iblocks
  /\ \A b \in Cyclics :
       /\ free[b] \subseteq Elements(b)
       /\ queue[b] \in Seq(Elements(b))
       /\ data[b] \in [Elements(b) -> Sample \cup {NoSample}]
  /\ \A b \in Mqueues : queue[b] \in Seq(Sample) /\ Len(queue[b]) <= BufferLen[b]
  /\ overruns \in [Cyclics -> Nat]
  /\ pc \in [Ports -> {"idle", "loop", "count", "store", "copy", "put"}]
  /\ pos \in [Ports -> Nat]
  /\ elem \in [Ports -> Nat]
  /\ sample \in [Outs -> Sample \cup {NoSample}]

Init ==
  /\ conns \in Topologies
  /\ active = Iblocks
  /\ changes = 0
  /\ free = [b \in Cyclics |-> Elements(b)]
  /\ queue = [b \in Iblocks |-> <<>>]
  /\ data = [b \in Cyclics |-> [e \in Elements(b) |-> NoSample]]
  /\ overruns = [b \in Cyclics |-> 0]
  /\ pc = [p \in Ports |-> "idle"]
  /\ pos = [p \in Ports |-> 0]
  /\ elem = [p \in Ports |-> NoElement]
  /\ sample = [o \in Outs |-> NoSample]
  /\ seenOverruns = [o \in Outs |-> 0]
  /\ wanted = [p \in Ports |-> [b \in Iblocks |-> Count(conns[p], b)]]
  /\ lost = [b \in Cyclics |-> 0]
  /\ got = [i \in Ins |-> [b \in Iblocks |-> [o \in Outs |-> 0]]]

-----------------------------------------------------------------------------
(* The main thread.  A port is connected while its thread is not in a read  *)
(* or write of it: the array is reallocated.  A port may be connected twice *)
(* to an interaction, as happens when two input ports share it.             *)

Change == changes < MaxChanges /\ changes' = changes + 1

\* array_block_rm: the last element takes the place of the last match
Removed(s, b) == Front(ReplaceAt(s, Max({k \in DOMAIN s : s[k] = b}), Last(s)))

\* ubx_port_connect_out, ubx_port_connect_in; ubx_ports_connect calls one after
\* the other
Connect(p, b) ==
  /\ pc[p] = "idle" /\ Change
  /\ Len(conns[p]) < MaxConns
  /\ conns' = [conns EXCEPT ![p] = Append(@, b)]
  /\ wanted' = [wanted EXCEPT ![p][b] = @ + 1]
  /\ UNCHANGED <<active, bufVars, pc, pos, elem, sample, seenOverruns, got>>

\* ubx_port_disconnect_out, ubx_port_disconnect_in, as in ubx_ports_disconnect, of
\* a block that the port is connected to.  Any other changes nothing, but on a
\* port that was never connected array_block_rm would follow a NULL pointer: the
\* user who disconnects knows the connection.
Disconnect(p, b) ==
  /\ pc[p] = "idle" /\ Change
  /\ Contains(conns[p], b)
  /\ conns' = [conns EXCEPT ![p] = Removed(@, b)]
  /\ wanted' = [wanted EXCEPT ![p][b] = @ - 1]
  /\ UNCHANGED <<active, bufVars, pc, pos, elem, sample, seenOverruns, got>>

\* ubx_block_start and ubx_block_stop, which have no hooks here
StartStop(b) ==
  /\ Change
  /\ active' = IF b \in active THEN active \ {b} ELSE active \cup {b}
  /\ UNCHANGED <<conns, wanted, bufVars, pc, pos, elem, sample, seenOverruns, got>>

-----------------------------------------------------------------------------
(* What the threads have in common: the loop over the connections.          *)

Target(p) == conns[p][pos[p]]
AtTarget(p, S) ==
  /\ pc[p] = "loop" /\ pos[p] <= Len(conns[p])
  /\ Target(p) \in S \cap active /\ <<p, Target(p)>> \in Fits

NextTarget(p) ==
  /\ pos' = [pos EXCEPT ![p] = @ + 1]
  /\ pc' = [pc EXCEPT ![p] = "loop"]

Return(p) ==
  /\ pc' = [pc EXCEPT ![p] = "idle"]
  /\ pos' = [pos EXCEPT ![p] = 0]

\* not ACTIVE, or the interaction refuses the type or length
SkipTarget(p) ==
  /\ pc[p] = "loop" /\ pos[p] <= Len(conns[p])
  /\ Target(p) \notin active \/ <<p, Target(p)>> \notin Fits
  /\ NextTarget(p)
  /\ UNCHANGED <<mainVars, bufVars, elem, sample, seenOverruns, got>>

\* all connections are done; a read returns 0
EndLoop(p) ==
  /\ pc[p] = "loop" /\ pos[p] > Len(conns[p])
  /\ Return(p)
  /\ UNCHANGED <<mainVars, bufVars, elem, sample, seenOverruns, got>>

-----------------------------------------------------------------------------
(* __port_write.                                                            *)

BeginWrite(o) ==
  /\ pc[o] = "idle" /\ sample[o].n < MaxMsgs[o]
  /\ sample' = [sample EXCEPT ![o] = [from |-> o, n |-> @.n + 1]]
  /\ pos' = [pos EXCEPT ![o] = 1]
  /\ pc' = [pc EXCEPT ![o] = "loop"]
  /\ UNCHANGED <<mainVars, bufVars, elem, seenOverruns, got>>

\* cyclic_write: lfds611_ringbuffer_get_write_element takes a free element, of
\* which they are alike
TakeFree(o) ==
  /\ AtTarget(o, Cyclics)
  /\ LET b == Target(o) IN
       /\ free[b] # {}
       /\ LET e == CHOOSE x \in free[b] : TRUE
          IN  free' = [free EXCEPT ![b] = @ \ {e}] /\ elem' = [elem EXCEPT ![o] = e]
  /\ pc' = [pc EXCEPT ![o] = "copy"]
  /\ UNCHANGED <<mainVars, queue, data, overruns, lost, pos, sample, seenOverruns, got>>

\* or, if there is none, the oldest of the queue; if all are held it tries again
TakeOldest(o) ==
  /\ AtTarget(o, Cyclics)
  /\ LET b == Target(o) IN
       /\ free[b] = {} /\ queue[b] # <<>>
       /\ elem' = [elem EXCEPT ![o] = Head(queue[b])]
       /\ queue' = [queue EXCEPT ![b] = Tail(@)]
       /\ lost' = [lost EXCEPT ![b] = @ + 1]
  /\ pc' = [pc EXCEPT ![o] = "count"]
  /\ UNCHANGED <<mainVars, free, data, overruns, pos, sample, seenOverruns, got>>

\* inf->overruns++: read it ...
CountOverrun(o) ==
  /\ pc[o] = "count"
  /\ seenOverruns' = [seenOverruns EXCEPT ![o] = overruns[Target(o)]]
  /\ pc' = [pc EXCEPT ![o] = "store"]
  /\ UNCHANGED <<mainVars, bufVars, pos, elem, sample, got>>

\* Slip: the overrun is counted twice
StoreTwo(o) ==
  /\ pc[o] = "store"
  /\ overruns' = [overruns EXCEPT ![Target(o)] = seenOverruns[o] + 2]
  /\ seenOverruns' = [seenOverruns EXCEPT ![o] = 0]
  /\ pc' = [pc EXCEPT ![o] = "copy"]
  /\ UNCHANGED <<mainVars, free, queue, data, lost, pos, elem, sample, got>>

\* ... and write it
StoreOverrun(o) ==
  /\ pc[o] = "store"
  /\ overruns' = [overruns EXCEPT ![Target(o)] = seenOverruns[o] + 1]
  /\ seenOverruns' = [seenOverruns EXCEPT ![o] = 0]
  /\ pc' = [pc EXCEPT ![o] = "copy"]
  /\ UNCHANGED <<mainVars, free, queue, data, lost, pos, elem, sample, got>>

CopyIn(o) ==
  /\ pc[o] = "copy" /\ o \in Outs
  /\ data' = [data EXCEPT ![Target(o)][elem[o]] = sample[o]]
  /\ pc' = [pc EXCEPT ![o] = "put"]
  /\ UNCHANGED <<mainVars, free, queue, overruns, lost, pos, elem, sample, seenOverruns, got>>

\* Slip: an early return keeps the element
PutWrittenNot(o) ==
  /\ pc[o] = "put" /\ o \in Outs
  /\ elem' = [elem EXCEPT ![o] = NoElement]
  /\ NextTarget(o)
  /\ UNCHANGED <<mainVars, bufVars, sample, seenOverruns, got>>

\* lfds611_ringbuffer_put_write_element
PutWritten(o) ==
  /\ pc[o] = "put" /\ o \in Outs
  /\ queue' = [queue EXCEPT ![Target(o)] = Append(@, elem[o])]
  /\ elem' = [elem EXCEPT ![o] = NoElement]
  /\ NextTarget(o)
  /\ UNCHANGED <<mainVars, free, data, overruns, lost, sample, seenOverruns, got>>

\* mqueue_write: mq_send fails with EAGAIN when the queue is full
MqSend(o) ==
  /\ AtTarget(o, Mqueues)
  /\ LET b == Target(o) IN
       queue' = IF Len(queue[b]) < BufferLen[b]
                THEN [queue EXCEPT ![b] = Append(@, sample[o])] ELSE queue
  /\ NextTarget(o)
  /\ UNCHANGED <<mainVars, free, data, overruns, lost, elem, sample, seenOverruns, got>>

WriteStep(o) ==
  \/ SkipTarget(o) \/ EndLoop(o) \/ TakeFree(o) \/ TakeOldest(o)
  \/ CountOverrun(o) \/ StoreOverrun(o) \/ CopyIn(o) \/ PutWritten(o) \/ MqSend(o)

-----------------------------------------------------------------------------
(* __port_read: the first interaction that has data ends it.                *)

BeginRead(i) ==
  /\ pc[i] = "idle"
  /\ pos' = [pos EXCEPT ![i] = 1]
  /\ pc' = [pc EXCEPT ![i] = "loop"]
  /\ UNCHANGED <<mainVars, bufVars, elem, sample, seenOverruns, got>>

\* Slip: the loop stays at an empty interaction
NoDataStay(i) ==
  /\ AtTarget(i, Iblocks)
  /\ queue[Target(i)] = <<>>
  /\ UNCHANGED vars

\* an empty interaction returns 0
NoData(i) ==
  /\ AtTarget(i, Iblocks)
  /\ queue[Target(i)] = <<>>
  /\ NextTarget(i)
  /\ UNCHANGED <<mainVars, bufVars, elem, sample, seenOverruns, got>>

\* the history of what a port has read
Got(i, s) == got' = [got EXCEPT ![i][Target(i)][s.from] = s.n]

\* Slip: the element is given back before it is copied
TakeReadEarly(i) ==
  /\ AtTarget(i, Cyclics)
  /\ LET b == Target(i) IN
       /\ queue[b] # <<>>
       /\ elem' = [elem EXCEPT ![i] = Head(queue[b])]
       /\ queue' = [queue EXCEPT ![b] = Tail(@)]
       /\ free' = [free EXCEPT ![b] = @ \cup {Head(queue[b])}]
  /\ pc' = [pc EXCEPT ![i] = "copy"]
  /\ UNCHANGED <<mainVars, data, overruns, lost, pos, sample, seenOverruns, got>>

\* cyclic_read: lfds611_ringbuffer_get_read_element
TakeRead(i) ==
  /\ AtTarget(i, Cyclics)
  /\ LET b == Target(i) IN
       /\ queue[b] # <<>>
       /\ elem' = [elem EXCEPT ![i] = Head(queue[b])]
       /\ queue' = [queue EXCEPT ![b] = Tail(@)]
  /\ pc' = [pc EXCEPT ![i] = "copy"]
  /\ UNCHANGED <<mainVars, free, data, overruns, lost, pos, sample, seenOverruns, got>>

CopyOut(i) ==
  /\ pc[i] = "copy" /\ i \in Ins
  /\ Got(i, data[Target(i)][elem[i]])
  /\ pc' = [pc EXCEPT ![i] = "put"]
  /\ UNCHANGED <<mainVars, bufVars, pos, elem, sample, seenOverruns>>

\* Slip: the element is not given back
PutReadNot(i) ==
  /\ pc[i] = "put" /\ i \in Ins
  /\ elem' = [elem EXCEPT ![i] = NoElement]
  /\ Return(i)
  /\ UNCHANGED <<mainVars, bufVars, sample, seenOverruns, got>>

\* lfds611_ringbuffer_put_read_element; nobody reads what a free element holds
PutRead(i) ==
  /\ pc[i] = "put" /\ i \in Ins
  /\ free' = [free EXCEPT ![Target(i)] = @ \cup {elem[i]}]
  /\ data' = [data EXCEPT ![Target(i)][elem[i]] = NoSample]
  /\ elem' = [elem EXCEPT ![i] = NoElement]
  /\ Return(i)
  /\ UNCHANGED <<mainVars, queue, overruns, lost, sample, seenOverruns, got>>

MqReceive(i) ==
  /\ AtTarget(i, Mqueues)
  /\ LET b == Target(i) IN
       /\ queue[b] # <<>>
       /\ queue' = [queue EXCEPT ![b] = Tail(@)]
       /\ Got(i, Head(queue[b]))
  /\ Return(i)
  /\ UNCHANGED <<mainVars, free, data, overruns, lost, elem, sample, seenOverruns>>

ReadStep(i) ==
  \/ SkipTarget(i) \/ EndLoop(i) \/ NoData(i) \/ TakeRead(i) \/ CopyOut(i)
  \/ PutRead(i) \/ MqReceive(i)

Next ==
  \/ \E p \in Ports, b \in Iblocks : Connect(p, b) \/ Disconnect(p, b)
  \/ \E b \in Iblocks : StartStop(b)
  \/ \E o \in Outs : BeginWrite(o) \/ WriteStep(o)
  \/ \E i \in Ins : BeginRead(i) \/ ReadStep(i)

Spec == Init /\ [][Next]_vars

\* a thread that is in a read or write is scheduled; the blocks may stop
\* stepping, and nobody has to connect or start anything
Fairness == (\A o \in Outs : WF_vars(WriteStep(o))) /\ (\A i \in Ins : WF_vars(ReadStep(i)))

FairSpec == Spec /\ Fairness

-----------------------------------------------------------------------------
(* Properties.                                                             *)

\* the ports that hold an element of b
Holders(b) == {p \in Ports : pc[p] \in {"count", "store", "copy", "put"} /\ Target(p) = b}

\* the ports that can use b
Users(b) == {p \in Ports : <<p, b>> \in Fits}

\* Every element of a ring buffer is free, queued once or held by one call of
\* cyclic_write or cyclic_read: none leaks and no two calls copy the same one.
ElementsOwned ==
  \A b \in Cyclics :
    LET queued == ToSet(queue[b])
        held   == {elem[p] : p \in Holders(b)}
    IN /\ free[b] \cup queued \cup held = Elements(b)
       /\ Cardinality(free[b]) + Len(queue[b]) + Cardinality(Holders(b)) = BufferLen[b]

\* What a port reads from one interaction is in the order it was written, for
\* each port that wrote it: no sample is followed by an older one.
InOrder ==
  [][\A i \in Ins, b \in Iblocks, o \in Outs : got'[i][b][o] >= got[i][b][o]]_got

\* The calls that have overwritten an element and not yet counted it.
Uncounted(b) == {p \in Holders(b) : pc[p] \in {"count", "store"}}

\* inf->overruns never claims more losses than there were, although all
\* threads that write to the buffer increment it without a lock; it is exact if
\* only one port writes to the buffer.
OverrunsCounted ==
  \A b \in Cyclics :
    LET counted == overruns[b] + Cardinality(Uncounted(b)) IN
    /\ counted <= lost[b]
    /\ Cardinality(Users(b) \cap Outs) = 1
         => counted = lost[b]

\* cyclic_write finds an element at its first attempt if the buffer has at
\* least as many as there are ports that use it: nobody waits for another thread.
WriteNeverWaits ==
  \A o \in Outs :
    AtTarget(o, Cyclics) /\ BufferLen[Target(o)] >= Cardinality(Users(Target(o)))
      => free[Target(o)] # {} \/ queue[Target(o)] # <<>>

\* A call of __port_read or __port_write returns.
CallsReturn == \A p \in Ports : pc[p] # "idle" ~> pc[p] = "idle"

\* A port is connected to an interaction as often as the connects and disconnects
\* say: the connections are all there after the array has been repacked.
ConnectionsKept ==
  \A p \in Ports, b \in Iblocks :
    Count(conns[p], b) = wanted[p][b]

=============================================================================
