----------------------------- MODULE SimpleFifo -----------------------------
(***************************************************************************)
(* The example interaction ubx/simple_fifo: a ring of bytes.  Reads and    *)
(* writes hold a mutex, so that each is one action.  Offsets stand for     *)
(* pointers; data of one type is written, whose bytes are left out.        *)
(***************************************************************************)
EXTENDS Life

CONSTANTS
  Sizes,    \* bound: values of config fifo_size
  Messages  \* bound: the sizes of the messages

ASSUME SimpleFifoAssumption == Sizes \subseteq Nat /\ Messages \subseteq Nat \ {0}

\* out is what the last read has returned and seen the last copy into or out of the
\* buffer, its offset and its length (of a write in two chunks that of the first),
\* and how many messages were stored
FifoCreate ==
  /\ \E n \in Sizes \cup {Unset} : Created("fifo", [fifo_size |-> n])
  /\ out = NoData /\ seen = [at |-> 0, len |-> 0, stored |-> 0]

FifoInit ==
  /\ kind = "fifo"
  /\ \/ /\ cfg.fifo_size # 0
        /\ InitOk([size |-> IF cfg.fifo_size = Unset THEN 16 ELSE cfg.fifo_size,
                   rd |-> 0, wr |-> 0])
        /\ out' = NoData /\ seen' = [at |-> 0, len |-> 0, stored |-> 0]
     \/ cfg.fifo_size = 0 /\ InitFails

FifoStart == kind = "fifo" /\ StartOk(inf) /\ UNCHANGED seen

empty_space == IF inf.wr >= inf.rd THEN inf.size - (inf.wr - inf.rd) ELSE inf.rd - inf.wr

Advanced(n) == IF inf.wr + n >= inf.size THEN 0 ELSE inf.wr + n

\* a message that does not fit is dropped: no config sets the overrun policy
FifoWrite(len) ==
  /\ kind = "fifo" /\ Stepping /\ UNCHANGED out
  /\ IF empty_space < len THEN UNCHANGED <<inf, seen>>
     ELSE LET rest == inf.size - inf.wr
              len2 == IF inf.wr > inf.rd /\ len > rest THEN len - rest ELSE 0
              len1 == len - len2
          IN  /\ inf' = [inf EXCEPT !.wr = IF len2 > 0 THEN len2 ELSE Advanced(len1)]
              /\ seen' = [at |-> inf.wr, len |-> len1, stored |-> 1]

\* the number of bytes to read starts at 0 and the minimum of it and of what
\* there is is taken: nothing is ever read
FifoRead ==
  /\ kind = "fifo" /\ Stepping
  /\ out' = 0
  /\ IF inf.rd = inf.wr THEN UNCHANGED <<inf, seen>>
     ELSE LET readsz1 == IF inf.rd > inf.wr THEN inf.size - inf.wr ELSE 0
          IN  /\ inf' = [inf EXCEPT !.rd = readsz1]
              /\ seen' = [seen EXCEPT !.at = inf.rd, !.len = readsz1]

FifoNext ==
  \/ FifoInit \/ FifoStart \/ FifoRead
  \/ \E n \in Messages : FifoWrite(n)
  \/ kind = "fifo" /\ (Stop \/ Cleanup)

\* Both offsets and every copy stay in the buffer, whatever is written, read,
\* stopped and started in whatever order (fifo_write, fifo_read).
FifoInBounds ==
  kind = "fifo" /\ inf # Unset =>
    /\ {inf.rd, inf.wr} \subseteq 0 .. inf.size - 1
    /\ seen.at + seen.len <= inf.size

\* What the meta-data of the block says: it is "functional", so that a read of
\* a block that has stored a message returns data (fifo_read).
FifoDelivers == [][ FifoRead /\ seen.stored > 0 => out' > 0 ]_vars
=============================================================================
