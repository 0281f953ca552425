------------------------------- MODULE RtLog -------------------------------
(***************************************************************************)
(* Real-time logging: libubx/rtlog.c writes messages to a ring buffer in   *)
(* shared memory, under a spinlock that is in the shared memory, too;      *)
(* rtlog_client.c reads them without a lock, as tools/ubx-log does.        *)
(*                                                                         *)
(* Memory is counted in words of 8 bytes.  A message is FrameSize words,   *)
(* the buffer is sized for Depth messages and the header of the write      *)
(* position, but the header in the shared memory also has the spinlock: it *)
(* takes two words, and one frame less fits.                               *)
(***************************************************************************)
EXTENDS Integers, Sequences, FiniteSets

CONSTANTS
  Writers,     \* threads that log
  Joiners,     \* the ones whose process initialises its log while others log
  Depth,       \* LOG_BUFFER_DEPTH
  FrameSize,   \* sizeof(struct ubx_log_msg)
  CrushZone,   \* LOGC_SEEK_OLDEST_CRUSH_ZONE
  OffMod,      \* the values of an offset, 2^32 bytes in the code
  WrapMod,     \* the values of a wrap counter, 2^32 in the code
  ShowOld,     \* the reader starts at the oldest message (ubx-log without -O)
  MaxMsgs      \* bound: messages logged

ASSUME RtLogAssumption ==
  /\ Joiners \subseteq Writers
  /\ Depth \in Nat /\ Depth > 2
  /\ FrameSize \in Nat /\ FrameSize > 1
  /\ CrushZone \in 0 .. Depth - 2
  /\ OffMod \in Nat /\ OffMod > FrameSize * Depth
  /\ WrapMod \in Nat /\ WrapMod > 1
  /\ ShowOld \in BOOLEAN
  /\ MaxMsgs \in Nat

VARIABLES
  lock,       \* the spinlock: "free" or "held"
  w,          \* buf_ptr->w, the write position: wrap counter and offset
  data,       \* buf_ptr->data
  pc,         \* where each writer is in ubx_log_shm
  local,      \* its local variables: message, words copied, offset, next position
  r,          \* the read position
  rpc,        \* where the reader is
  frame,      \* offset of the frame it prints
  got,        \* the words of the frame it has printed
  published,  \* history: messages whose write has moved the write position
  started,    \* history: messages whose write has begun
  rd          \* history: the message the reader is to see next

writerVars == <<lock, w, data, pc, local, published, started>>
readerVars == <<r, rpc, frame, got, rd>>
vars       == <<writerVars, readerVars>>

HeaderWords == 2
ShmWords    == 1 + FrameSize * Depth
Slots       == Depth - 1
Addresses   == 0 .. ShmWords - HeaderWords - 1

\* word k of message m
Word(m, k) == [msg |-> m, part |-> k]
Blank      == [msg |-> -1, part |-> 0]
Frame(m)   == [k \in 1 .. FrameSize |-> Word(m, k - 1)]

Position == [wrap : 0 .. WrapMod - 1, off : 0 .. OffMod - 1]

\* the position at which the m-th message is written
PositionOf(m) == [wrap |-> (m \div Slots) % WrapMod, off |-> (m % Slots) * FrameSize]

NoFrame == [msg |-> -1, done |-> 0, off |-> 0, next |-> [wrap |-> 0, off |-> 0]]

TypeOK ==
  /\ lock \in {"free", "held"}
  /\ w \in Position /\ r \in Position
  /\ DOMAIN data = Addresses
  /\ pc \in [Writers -> {"out", "idle", "spin", "copy", "read", "store", "unlock"}]
  /\ \A t \in Writers : local[t].done \in 0 .. FrameSize
  /\ rpc \in {"off", "check", "print"}
  /\ w.off .. w.off + FrameSize - 1 \subseteq Addresses
  /\ published \in 0 .. MaxMsgs /\ started \in 0 .. MaxMsgs

Init ==
  /\ lock = "free"
  /\ w = [wrap |-> 0, off |-> 0]
  /\ data = [a \in Addresses |-> Blank]
  /\ pc = [t \in Writers |-> IF t \in Joiners THEN "out" ELSE "idle"]
  /\ local = [t \in Writers |-> NoFrame]
  /\ r = [wrap |-> 0, off |-> 0]
  /\ rpc = "off"
  /\ frame = 0
  /\ got = <<>>
  /\ published = 0 /\ started = 0 /\ rd = 0

-----------------------------------------------------------------------------
(* The ring: the last offset a frame may have leaves room for a frame.      *)

PastEnd(off) == off > ShmWords - FrameSize - HeaderWords

\* log_inc_woff and calc_next_roff
Advance(p) ==
  LET off == (p.off + FrameSize) % OffMod IN
  IF PastEnd(off)
  THEN [wrap |-> (p.wrap + 1) % WrapMod, off |-> 0]
  ELSE [wrap |-> p.wrap, off |-> off]

-----------------------------------------------------------------------------
(* Slips.                                                                   *)

\* the write position moves before the message is copied
ReadPositionFirst(t) ==
  /\ pc[t] = "copy"
  /\ w' = Advance(w)
  /\ published' = published + 1
  /\ local' = [local EXCEPT ![t].done = FrameSize]
  /\ pc' = [pc EXCEPT ![t] = "unlock"]
  /\ UNCHANGED <<lock, data, started, readerVars>>

\* the lock is not released
UnlockNot(t) ==
  /\ pc[t] = "unlock"
  /\ pc' = [pc EXCEPT ![t] = "idle"]
  /\ UNCHANGED <<lock, w, data, local, published, started, readerVars>>

\* logc_has_data; the difference of the counters is unsigned
Status(wp, rp) ==
  LET turns == (wp.wrap - rp.wrap) % WrapMod IN
  CASE wp.off = rp.off /\ turns = 0                                -> "NO_DATA"
    [] (wp.off > rp.off /\ turns = 0) \/ (wp.off < rp.off /\ turns = 1) -> "NEW_DATA"
    [] turns >= 2 \/ (wp.off >= rp.off /\ turns = 1)               -> "OVERRUN"
    [] OTHER                                                       -> "ERROR"

\* an inconsistent read position is not given up
ResetReadOverrun ==
  /\ rpc = "check"
  /\ Status(w, r) = "OVERRUN"
  /\ r' = w
  /\ rd' = published
  /\ UNCHANGED <<writerVars, rpc, frame, got>>

-----------------------------------------------------------------------------
(* Writers.                                                                 *)

\* ubx_log_init of another process: the spinlock is initialised again, the
\* messages in the buffer stay
Join(t) ==
  /\ pc[t] = "out"
  /\ lock' = "free"
  /\ pc' = [pc EXCEPT ![t] = "idle"]
  /\ UNCHANGED <<w, data, local, published, started, readerVars>>

Log(t) ==
  /\ pc[t] = "idle"
  /\ started + Cardinality({u \in Writers : pc[u] = "spin"}) < MaxMsgs
  /\ pc' = [pc EXCEPT ![t] = "spin"]
  /\ UNCHANGED <<lock, w, data, local, published, started, readerVars>>

\* pthread_spin_lock returns; the frame is at the write position
Spin(t) ==
  /\ pc[t] = "spin"
  /\ lock = "free"
  /\ lock' = "held"
  /\ started' = started + 1
  /\ local' = [local EXCEPT ![t] = [NoFrame EXCEPT !.msg = started, !.off = w.off]]
  /\ pc' = [pc EXCEPT ![t] = "copy"]
  /\ UNCHANGED <<w, data, published, readerVars>>

\* memcpy, a word at a time
Copy(t) ==
  /\ pc[t] = "copy"
  /\ LET k == local[t].done IN
       /\ data' = [data EXCEPT ![local[t].off + k] = Word(local[t].msg, k)]
       /\ local' = [local EXCEPT ![t].done = k + 1]
       /\ pc' = [pc EXCEPT ![t] = IF k + 1 = FrameSize THEN "read" ELSE "copy"]
  /\ UNCHANGED <<lock, w, published, started, readerVars>>

\* log_inc_woff: read the position ...
ReadPosition(t) ==
  /\ pc[t] = "read"
  /\ local' = [local EXCEPT ![t].next = Advance(w)]
  /\ pc' = [pc EXCEPT ![t] = "store"]
  /\ UNCHANGED <<lock, w, data, published, started, readerVars>>

\* ... and write it, both parts at once
StorePosition(t) ==
  /\ pc[t] = "store"
  /\ w' = local[t].next
  /\ published' = published + 1
  /\ pc' = [pc EXCEPT ![t] = "unlock"]
  /\ UNCHANGED <<lock, data, local, started, readerVars>>

Unlock(t) ==
  /\ pc[t] = "unlock"
  /\ lock' = "free"
  /\ local' = [local EXCEPT ![t] = NoFrame]
  /\ pc' = [pc EXCEPT ![t] = "idle"]
  /\ UNCHANGED <<w, data, published, started, readerVars>>

InHook(t) == Spin(t) \/ Copy(t) \/ ReadPosition(t) \/ StorePosition(t) \/ Unlock(t)

-----------------------------------------------------------------------------
(* The reader.                                                              *)

\* logc_seek_to_oldest.  Where it wraps it subtracts the size of the buffer
\* and adds the size of the header.
Oldest ==
  LET off == w.off + CrushZone * FrameSize IN
  IF PastEnd(off) THEN [w EXCEPT !.off = (off - ShmWords + HeaderWords) % OffMod]
  ELSE IF w.wrap = 0 THEN [w EXCEPT !.off = 0]
  ELSE [w EXCEPT !.off = off, !.wrap = w.wrap - 1]

\* the message logc_seek_to_oldest is after: the oldest one that is not within
\* CrushZone frames ahead of the write position
OldestMsg == IF published + CrushZone < Slots THEN 0
             ELSE published + CrushZone - Slots

\* logc_init, logc_seek_to_oldest
Attach ==
  /\ rpc = "off"
  /\ r' = IF ShowOld THEN Oldest ELSE w
  /\ rd' = IF ShowOld THEN OldestMsg ELSE published
  /\ rpc' = "check"
  /\ UNCHANGED <<writerVars, frame, got>>

\* logc_has_data and logc_read_frame find a new frame and consume it
BeginRead ==
  /\ rpc = "check"
  /\ Status(w, r) = "NEW_DATA"
  /\ frame' = r.off
  /\ r' = Advance(r)
  /\ rd' = rd + 1
  /\ rpc' = "print"
  /\ UNCHANGED <<writerVars, got>>

\* log_data prints it, word by word, while the writers go on
PrintWord ==
  /\ rpc = "print"
  /\ Len(got) < FrameSize
  /\ LET a == frame + Len(got) IN
       got' = Append(got, IF a \in Addresses THEN data[a] ELSE Blank)
  /\ UNCHANGED <<writerVars, r, rpc, frame, rd>>

EndRead ==
  /\ rpc = "print"
  /\ Len(got) = FrameSize
  /\ frame' = 0
  /\ got' = <<>>
  /\ rpc' = "check"
  /\ UNCHANGED <<writerVars, r, rd>>

\* logc_reset_read
ResetRead ==
  /\ rpc = "check"
  /\ Status(w, r) \in {"OVERRUN", "ERROR"}
  /\ r' = w
  /\ rd' = published
  /\ UNCHANGED <<writerVars, rpc, frame, got>>

ReaderStep == BeginRead \/ PrintWord \/ EndRead \/ ResetRead

Next == \/ \E t \in Writers : Join(t) \/ Log(t) \/ InHook(t)
        \/ Attach \/ ReaderStep

Spec == Init /\ [][Next]_vars

\* Threads in ubx_log_shm run, and one that spins gets the lock in the end (it
\* is held for a copy); the reader runs.  Nobody has to log.
Fairness ==
  /\ \A t \in Writers : WF_vars(InHook(t)) /\ SF_vars(Spin(t))
  /\ WF_vars(ReaderStep)

FairSpec == Spec /\ Fairness

-----------------------------------------------------------------------------
(* Properties.                                                              *)

Writing(t) == pc[t] \in {"copy", "read", "store", "unlock"}

\* "we only have one writer" (rtlog.c:107): the spinlock admits one thread to the
\* ring, which the unlocked read and write of the position rely on.
OneWriter == \A t, u \in Writers : Writing(t) /\ Writing(u) => t = u

\* No message is lost between writers: the write position is that of the number
\* of messages written, and at most one more is being written.
WritePosition ==
  /\ w = PositionOf(published)
  /\ started = published + Cardinality({t \in Writers : pc[t] \in {"copy", "read", "store"}})

\* All messages that were written and not overwritten since are complete in the
\* buffer, each at its place; only the oldest is being overwritten.
MessagesIntact ==
  \A m \in 0 .. published - 1 : m > published - Slots =>
    \A k \in 0 .. FrameSize - 1 : data[PositionOf(m).off + k] = Word(m, k)

\* What the reader finds by comparing two wrap counters and offsets is what the
\* number of messages it has not seen says, as long as the difference of the
\* counters does not wrap: nothing, a message, or more than fit in the buffer.
StatusIsLag ==
  (rpc # "off" /\ published - rd <= (WrapMod - 1) * Slots) =>
    Status(w, r) = IF published = rd THEN "NO_DATA"
                   ELSE IF published - rd < Slots THEN "NEW_DATA" ELSE "OVERRUN"

\* The reader prints whole messages, one after the other, as long as the writers
\* have not begun the message that takes the place of the one it prints.
ReadsInOrder ==
  (Len(got) = FrameSize /\ started < rd + Slots) => got = Frame(rd - 1)

\* A thread that logs returns.
LogReturns == \A t \in Writers : pc[t] = "spin" ~> pc[t] = "idle"

\* Once the writers pause the reader arrives at the write position, wherever it
\* has started and whatever it has missed.
CatchesUp == <>[](rpc = "off" \/ r = w)

\* "move the read ptr to the oldest valid log message" (rtlog_client.c:71)
SeeksToMessage == [][Attach /\ ShowOld => r' = PositionOf(rd')]_vars

=============================================================================
