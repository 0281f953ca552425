---------------------------- MODULE RtLog_proofs ----------------------------
(***************************************************************************)
(* Theorems about the real-time log, for any number of writers, any depth  *)
(* and any widths of the counters: what is in the buffer is complete, and  *)
(* the reader, which takes no lock, prints what was written.  They are     *)
(* about the processes that have initialised their log before anybody     *)
(* logs: Join gives the lock to two writers at once.                       *)
(***************************************************************************)
EXTENDS RtLog, FiniteSetTheorems, TLAPS

\* The writers whose frame is not yet published.
Filling == {t \in Writers : pc[t] \in {"copy", "read", "store"}}

\* Types, without the bound on the number of messages.
RtTypes ==
  /\ lock \in {"free", "held"}
  /\ pc \in [Writers -> {"out", "idle", "spin", "copy", "read", "store", "unlock"}]
  /\ local \in [Writers -> [msg : Int, done : 0 .. FrameSize, off : Nat, next : Position]]
  /\ data \in [Addresses -> [msg : Int, part : Nat]]
  /\ published \in Nat /\ started \in Nat

\* The spinlock is held while a thread is in the hook.
LockHeld == \A t \in Writers : pc[t] # "out" /\ (Writing(t) => lock = "held")

\* What a writer knows about the frame it is filling.
FrameOf(t) ==
  /\ pc[t] \in {"copy", "read", "store"} =>
       /\ started = published + 1
       /\ local[t].msg = published
       /\ local[t].off = PositionOf(published).off
       /\ \A k \in 0 .. local[t].done - 1 : data[local[t].off + k] = Word(published, k)
  /\ pc[t] = "copy" => local[t].done < FrameSize
  /\ pc[t] \in {"read", "store"} => local[t].done = FrameSize
  /\ pc[t] = "store" => local[t].next = PositionOf(published + 1)

\* The messages that no writer has begun to overwrite are complete.
Intact ==
  \A m \in 0 .. published - 1 : m >= started - Slots =>
    \A k \in 0 .. FrameSize - 1 : data[PositionOf(m).off + k] = Word(m, k)

WInv ==
  /\ RtTypes
  /\ LockHeld /\ OneWriter
  /\ w = PositionOf(published)
  /\ Filling = {} => started = published
  /\ \A t \in Writers : FrameOf(t)
  /\ Intact

\* The reader has seen rd messages; what it has printed of the last one is good
\* unless a writer has begun the message that takes its place.
RInv ==
  /\ rpc \in {"off", "check", "print"}
  /\ rd \in 0 .. published
  /\ rpc # "off" => r = PositionOf(rd)
  /\ rpc = "print" => rd > 0 /\ frame = PositionOf(rd - 1).off
  /\ rpc # "print" => got = <<>>
  /\ got \in Seq([msg : Int, part : Nat]) /\ Len(got) <= FrameSize
  /\ started < rd + Slots => \A k \in 1 .. Len(got) : got[k] = Word(rd - 1, k - 1)

-----------------------------------------------------------------------------
(* The ring.                                                                *)

LEMMA Division ==
  ASSUME NEW n \in Nat \ {0}, NEW m \in Nat
  PROVE  m \div n \in Nat /\ m % n \in 0 .. n - 1 /\ m = n * (m \div n) + (m % n)
OBVIOUS

\* Quotient and remainder are the only ones.
LEMMA DivisionUnique ==
  ASSUME NEW n \in Nat \ {0}, NEW q \in Nat, NEW s \in 0 .. n - 1, NEW m \in Nat, m = n * q + s
  PROVE  m \div n = q /\ m % n = s
<1> DEFINE p == m \div n
           t == m % n
<1>1. p \in Nat /\ t \in 0 .. n - 1 /\ n * p + t = n * q + s
  BY Division
<1> HIDE DEF p, t
<1>2. CASE p < q
  <2>1. n * (p + 1) <= n * q
    BY <1>1, <1>2
  <2> QED
    BY <1>1, <2>1
<1>3. CASE q < p
  <2>1. n * (q + 1) <= n * p
    BY <1>1, <1>3
  <2> QED
    BY <1>1, <2>1
<1>4. CASE p = q
  BY <1>1, <1>4
<1>5. p = q /\ t = s
  BY <1>1, <1>2, <1>3, <1>4
<1> QED
  BY <1>5 DEF p, t

USE RtLogAssumption DEF RtLogAssumption

\* The wrap counters count modulo WrapMod.
LEMMA WrapIncrement ==
  ASSUME NEW n \in Nat \ {0}, NEW q \in Nat
  PROVE  ((q % n) + 1) % n = (q + 1) % n
<1> DEFINE p == q \div n
           t == q % n
<1>1. p \in Nat /\ t \in 0 .. n - 1 /\ q = n * p + t
  BY Division
<1> HIDE DEF p, t
<1>2. CASE t + 1 < n
  <2>1. q + 1 = n * p + (t + 1) /\ t + 1 = n * 0 + (t + 1)
    BY <1>1
  <2>2. (q + 1) % n = t + 1
    BY <1>1, <1>2, <2>1, DivisionUnique
  <2>3. (t + 1) % n = t + 1
    BY <1>1, <1>2, <2>1, DivisionUnique
  <2> QED
    BY <2>2, <2>3 DEF t
<1>3. CASE t + 1 = n
  <2>1. n * (p + 1) = n * p + n
    BY <1>1
  <2>2. q + 1 = n * (p + 1) + 0 /\ t + 1 = n * 1 + 0
    BY <1>1, <1>3, <2>1
  <2>3. (q + 1) % n = 0
    BY <1>1, <2>2, DivisionUnique
  <2>4. (t + 1) % n = 0
    BY <1>1, <2>2, DivisionUnique
  <2> QED
    BY <2>3, <2>4 DEF t
<1> QED
  BY <1>1, <1>2, <1>3

LEMMA SlotsNat == Slots \in Nat \ {0} /\ Slots * FrameSize + FrameSize < OffMod
<1>1. Slots \in Nat \ {0} /\ Slots + 1 = Depth
  BY DEF Slots
<1>2. (Slots + 1) * FrameSize = Slots * FrameSize + FrameSize
  BY <1>1
<1>3. FrameSize * Depth = (Slots + 1) * FrameSize
  BY <1>1
<1> QED
  BY <1>1, <1>2, <1>3 DEF Slots

\* The frame of a message lies in the buffer, before the place where it ends.
LEMMA FrameInBuffer ==
  ASSUME NEW m \in Nat
  PROVE  /\ PositionOf(m) \in Position
         /\ PositionOf(m).off \in Nat
         /\ PositionOf(m).off + FrameSize <= Slots * FrameSize
         /\ \A k \in 0 .. FrameSize - 1 : PositionOf(m).off + k \in Addresses
<1> DEFINE s == m % Slots
           off == s * FrameSize
<1>1. s \in 0 .. Slots - 1
  BY SlotsNat, Division
<1> HIDE DEF s
<1>2. off \in Nat /\ off + FrameSize <= Slots * FrameSize
  <2>1. (s + 1) * FrameSize <= Slots * FrameSize
    BY <1>1, SlotsNat
  <2> QED
    BY <1>1, <2>1
<1>3. ShmWords - HeaderWords - 1 >= Slots * FrameSize - 1 /\ ShmWords - HeaderWords - 1 \in Int
  <2>1. FrameSize * Depth = Slots * FrameSize + FrameSize /\ Slots * FrameSize \in Nat
    BY SlotsNat DEF Slots
  <2> QED
    BY <2>1, SlotsNat DEF ShmWords, HeaderWords
<1>4. PositionOf(m).off = off /\ PositionOf(m).wrap = (m \div Slots) % WrapMod
  BY DEF PositionOf, s
<1> HIDE DEF off
<1>5. off \in 0 .. OffMod - 1
  BY <1>2, SlotsNat
<1>6. (m \div Slots) % WrapMod \in 0 .. WrapMod - 1
  BY SlotsNat, Division
<1>7. PositionOf(m) \in Position
  BY <1>4, <1>5, <1>6 DEF Position, PositionOf
<1>8. ASSUME NEW k \in 0 .. FrameSize - 1 PROVE off + k \in Addresses
  <2>1. Slots * FrameSize \in Nat
    BY SlotsNat
  <2> QED
    BY <1>2, <1>3, <2>1 DEF Addresses
<1> QED
  BY <1>2, <1>4, <1>7, <1>8

\* log_inc_woff and calc_next_roff move from one message to the next.
LEMMA NextPosition ==
  ASSUME NEW m \in Nat PROVE Advance(PositionOf(m)) = PositionOf(m + 1)
<1> DEFINE q == m \div Slots
           s == m % Slots
           off == s * FrameSize
<1>1. q \in Nat /\ s \in 0 .. Slots - 1 /\ m = Slots * q + s
  BY SlotsNat, Division
<1>2. PositionOf(m) = [wrap |-> q % WrapMod, off |-> off]
  BY DEF PositionOf
<1> HIDE DEF q, s
<1>3. off + FrameSize \in 0 .. OffMod - 1 /\ (off + FrameSize) % OffMod = off + FrameSize
  <2>1. off \in Nat /\ off + FrameSize <= Slots * FrameSize
    BY <1>2, FrameInBuffer
  <2> HIDE DEF off
  <2>2. off + FrameSize \in 0 .. OffMod - 1
    BY <2>1, SlotsNat
  <2> QED
    BY <2>2
<1>4. PastEnd(off + FrameSize) <=> off + FrameSize >= Slots * FrameSize
  <2>1. FrameSize * Depth = Slots * FrameSize + FrameSize
    BY DEF Slots
  <2>2. off \in Nat /\ Slots * FrameSize \in Nat
    BY <1>1, SlotsNat
  <2> HIDE DEF off
  <2> QED
    BY <2>1, <2>2 DEF PastEnd, ShmWords, HeaderWords
<1>5. CASE s + 1 = Slots
  <2>1. off + FrameSize = Slots * FrameSize
    <3>1. (s + 1) * FrameSize = s * FrameSize + FrameSize
      BY <1>1, SlotsNat
    <3> QED
      BY <1>1, <1>5, <3>1, SlotsNat
  <2>2. (m + 1) \div Slots = q + 1 /\ (m + 1) % Slots = 0
    <3>1. Slots * (q + 1) = Slots * q + Slots
      BY <1>1, SlotsNat
    <3>2. m + 1 = Slots * (q + 1) + 0
      BY <1>1, <1>5, <3>1
    <3> QED
      BY <1>1, <3>2, SlotsNat, DivisionUnique
  <2>3. PositionOf(m + 1) = [wrap |-> (q + 1) % WrapMod, off |-> 0]
    BY <2>2 DEF PositionOf, q
  <2>4. ((q % WrapMod) + 1) % WrapMod = (q + 1) % WrapMod
    <3>1. q \in Nat /\ WrapMod \in Nat \ {0}
      BY <1>1
    <3> QED
      BY <3>1, WrapIncrement, Zenon
  <2> HIDE DEF off
  <2> QED
    BY <1>2, <1>3, <1>4, <2>1, <2>3, <2>4 DEF Advance
<1>6. CASE s + 1 < Slots
  <2>1. off + FrameSize = (s + 1) * FrameSize /\ off + FrameSize < Slots * FrameSize
    <3>1. (s + 1) * FrameSize = s * FrameSize + FrameSize
      BY <1>1
    <3>2. (s + 2) * FrameSize <= Slots * FrameSize
      BY <1>1, <1>6, SlotsNat
    <3>3. (s + 2) * FrameSize = (s + 1) * FrameSize + FrameSize
      BY <1>1, SlotsNat
    <3>4. (s + 1) * FrameSize \in Nat /\ s * FrameSize \in Nat /\ Slots * FrameSize \in Nat
      BY <1>1, SlotsNat
    <3> QED
      BY <3>1, <3>2, <3>3, <3>4
  <2>2. (m + 1) \div Slots = q /\ (m + 1) % Slots = s + 1
    <3>1. m + 1 = Slots * q + (s + 1)
      BY <1>1, SlotsNat
    <3> QED
      BY <1>1, <1>6, <3>1, SlotsNat, DivisionUnique
  <2>3. PositionOf(m + 1) = [wrap |-> q % WrapMod, off |-> off + FrameSize]
    BY <2>1, <2>2 DEF PositionOf, q
  <2>4. off + FrameSize \in Nat /\ Slots * FrameSize \in Nat
    BY <1>3, SlotsNat
  <2> HIDE DEF off
  <2>5. ~PastEnd(off + FrameSize)
    BY <1>4, <2>1, <2>4
  <2> QED
    BY <1>2, <1>3, <2>3, <2>5 DEF Advance
<1> QED
  BY <1>1, <1>5, <1>6, SlotsNat

\* The frames of messages that follow each other within one turn do not overlap.
LEMMA FramesApart ==
  ASSUME NEW m \in Nat, NEW l \in Nat, m < l, l < m + Slots,
         NEW j \in 0 .. FrameSize - 1, NEW k \in 0 .. FrameSize - 1
  PROVE  PositionOf(m).off + j # PositionOf(l).off + k
<1> DEFINE q == m \div Slots
           s == m % Slots
           p == l \div Slots
           t == l % Slots
<1>1. /\ q \in Nat /\ s \in 0 .. Slots - 1 /\ m = Slots * q + s
      /\ p \in Nat /\ t \in 0 .. Slots - 1 /\ l = Slots * p + t
  BY SlotsNat, Division
<1>2. PositionOf(m).off = s * FrameSize /\ PositionOf(l).off = t * FrameSize
  BY DEF PositionOf
<1> HIDE DEF q, s, p, t
<1>3. s # t
  <2> SUFFICES ASSUME s = t PROVE FALSE
    OBVIOUS
  <2>1. CASE p <= q
    <3>1. Slots * p <= Slots * q
      BY <1>1, <2>1, SlotsNat
    <3>2. Slots * p \in Nat /\ Slots * q \in Nat
      BY <1>1, SlotsNat
    <3> QED
      BY <1>1, <3>1, <3>2
  <2>2. CASE q < p
    <3>1. Slots * (q + 1) <= Slots * p
      BY <1>1, <2>2, SlotsNat
    <3>2. Slots * (q + 1) = Slots * q + Slots
      BY <1>1, SlotsNat
    <3> QED
      BY <1>1, <3>1, <3>2, SlotsNat
  <2> QED
    BY <1>1, <2>1, <2>2
<1>4. CASE s < t
  <2>1. (s + 1) * FrameSize <= t * FrameSize
    BY <1>1, <1>4
  <2>2. (s + 1) * FrameSize = s * FrameSize + FrameSize
    BY <1>1
  <2> QED
    BY <1>1, <1>2, <2>1, <2>2
<1>5. CASE t < s
  <2>1. (t + 1) * FrameSize <= s * FrameSize
    BY <1>1, <1>5
  <2>2. (t + 1) * FrameSize = t * FrameSize + FrameSize
    BY <1>1
  <2> QED
    BY <1>1, <1>2, <2>1, <2>2
<1> QED
  BY <1>1, <1>3, <1>4, <1>5

-----------------------------------------------------------------------------
(* The writers.                                                             *)

LEMMA WInvInit == ASSUME Joiners = {}, Init PROVE WInv
<1> USE DEF Init
<1>1. RtTypes
  <2>1. [wrap |-> 0, off |-> 0] \in Position /\ Blank \in [msg : Int, part : Nat]
    BY DEF Position, Blank
  <2> QED
    BY <2>1 DEF RtTypes, NoFrame
<1>2. LockHeld /\ OneWriter /\ Filling = {} /\ \A t \in Writers : FrameOf(t)
  BY DEF LockHeld, OneWriter, Filling, FrameOf, Writing
<1>3. w = PositionOf(published)
  BY SlotsNat, DivisionUnique DEF PositionOf
<1> QED
  BY <1>1, <1>2, <1>3 DEF WInv, Intact

\* Nobody but the holder of the lock writes to the ring.
LEMMA OnlyWriter ==
  ASSUME WInv, NEW t \in Writers, Writing(t)
  PROVE  lock = "held" /\ \A u \in Writers \ {t} : ~Writing(u)
BY DEF WInv, LockHeld, OneWriter

LEMMA LogWInv == ASSUME WInv, NEW t \in Writers, Log(t) PROVE WInv'
<1>1. \A u \in Writers : Writing(u)' <=> Writing(u)
  BY DEF Log, Writing, WInv, RtTypes
<1>2. \A u \in Writers : pc'[u] = pc[u] \/ (pc[u] = "idle" /\ pc'[u] = "spin")
  BY DEF Log, WInv, RtTypes
<1>3. RtTypes'
  BY DEF Log, WInv, RtTypes
<1>4. Filling' = Filling /\ \A u \in Writers : FrameOf(u)'
  BY <1>2 DEF Log, Filling, FrameOf, WInv
<1> QED
  BY <1>1, <1>2, <1>3, <1>4 DEF Log, WInv, LockHeld, OneWriter, Intact

LEMMA SpinWInv == ASSUME WInv, NEW t \in Writers, Spin(t) PROVE WInv'
<1>1. \A u \in Writers : ~Writing(u)
  BY DEF Spin, WInv, LockHeld
<1>2. started = published
  BY <1>1 DEF WInv, Filling, Writing
<1>3. /\ pc' = [pc EXCEPT ![t] = "copy"]
      /\ local' = [local EXCEPT ![t] = [NoFrame EXCEPT !.msg = started, !.off = w.off]]
      /\ started' = started + 1 /\ lock' = "held"
      /\ w' = w /\ data' = data /\ published' = published
  BY DEF Spin
<1>4. PositionOf(published).off \in Nat
  BY FrameInBuffer DEF WInv, RtTypes
<1>5. RtTypes'
  <2>1. [NoFrame EXCEPT !.msg = started, !.off = w.off]
           \in [msg : Int, done : 0 .. FrameSize, off : Nat, next : Position]
    <3>1. [wrap |-> 0, off |-> 0] \in Position
      BY DEF Position
    <3>2. NoFrame \in [msg : Int, done : 0 .. FrameSize, off : Nat, next : Position]
      BY <3>1 DEF NoFrame
    <3>3. w.off \in Nat /\ started \in Int
      BY <1>4 DEF WInv, RtTypes
    <3> QED
      BY <3>2, <3>3
  <2> QED
    BY <1>3, <2>1 DEF WInv, RtTypes
<1>6. \A u \in Writers : Writing(u)' <=> u = t
  BY <1>1, <1>3 DEF Writing, WInv, RtTypes
<1>7. LockHeld' /\ OneWriter'
  BY <1>3, <1>6 DEF WInv, RtTypes, LockHeld, OneWriter
<1>8. \A u \in Writers : FrameOf(u)'
  <2>1. FrameOf(t)'
    BY <1>2, <1>3 DEF FrameOf, NoFrame, WInv, RtTypes
  <2>2. \A u \in Writers \ {t} : FrameOf(u)'
    BY <1>6 DEF FrameOf, Writing
  <2> QED
    BY <2>1, <2>2
<1>9. t \in Filling'
  BY <1>3 DEF Filling, WInv, RtTypes
<1>10. Intact'
  BY <1>3, SlotsNat DEF Intact, WInv, RtTypes
<1> QED
  BY <1>3, <1>5, <1>7, <1>8, <1>9, <1>10 DEF WInv

LEMMA CopyWInv == ASSUME WInv, NEW t \in Writers, Copy(t) PROVE WInv'
<1> DEFINE k == local[t].done
           off == PositionOf(published).off
<1>1. /\ pc[t] = "copy" /\ started = published + 1 /\ k \in 0 .. FrameSize - 1
      /\ local[t].msg = published /\ local[t].off = off
      /\ \A j \in 0 .. k - 1 : data[off + j] = Word(published, j)
  BY DEF Copy, WInv, FrameOf, RtTypes
<1>2. Writing(t) /\ \A u \in Writers \ {t} : ~Writing(u)
  BY <1>1, OnlyWriter DEF Writing
<1>3. published \in Nat /\ off \in Nat /\ \A j \in 0 .. FrameSize - 1 : off + j \in Addresses
  BY FrameInBuffer DEF WInv, RtTypes
<1>4. /\ data' = [data EXCEPT ![off + k] = Word(published, k)]
      /\ local' = [local EXCEPT ![t].done = k + 1]
      /\ pc' = [pc EXCEPT ![t] = IF k + 1 = FrameSize THEN "read" ELSE "copy"]
      /\ lock' = lock /\ w' = w /\ published' = published /\ started' = started
  BY <1>1 DEF Copy
<1> HIDE DEF off
<1>5. RtTypes'
  <2>1. Word(published, k) \in [msg : Int, part : Nat]
    BY <1>1, <1>3 DEF Word
  <2>2. data' \in [Addresses -> [msg : Int, part : Nat]]
    BY <1>4, <2>1 DEF WInv, RtTypes
  <2>3. local' \in [Writers -> [msg : Int, done : 0 .. FrameSize, off : Nat, next : Position]]
    BY <1>1, <1>4 DEF WInv, RtTypes
  <2> QED
    BY <1>4, <2>2, <2>3 DEF WInv, RtTypes
<1>6. \A u \in Writers : /\ Writing(u)' <=> Writing(u)
                         /\ u # t => ~Writing(u)'
  BY <1>2, <1>4 DEF Writing, WInv, RtTypes
<1>7. LockHeld' /\ OneWriter'
  BY <1>2, <1>4, <1>6 DEF WInv, RtTypes, LockHeld, OneWriter
<1>8. \A u \in Writers : FrameOf(u)'
  <2>1. /\ local'[t].msg = published /\ local'[t].off = off /\ local'[t].done = k + 1
        /\ pc'[t] = IF k + 1 = FrameSize THEN "read" ELSE "copy"
    BY <1>1, <1>4 DEF WInv, RtTypes
  <2>2. \A j \in 0 .. k : data'[off + j] = Word(published, j)
    <3> SUFFICES ASSUME NEW j \in 0 .. k PROVE data'[off + j] = Word(published, j)
      OBVIOUS
    <3> HIDE DEF k
    <3>1. j \in 0 .. FrameSize - 1 /\ off + j \in Addresses
      BY <1>1, <1>3
    <3>2. data \in [Addresses -> [msg : Int, part : Nat]]
      BY DEF WInv, RtTypes
    <3>3. off + j = off + k => j = k
      BY <1>1, <1>3
    <3>4. data' = [data EXCEPT ![off + k] = Word(published, k)]
      BY <1>4
    <3>5. data'[off + j] = IF j = k THEN Word(published, k) ELSE data[off + j]
      BY <3>1, <3>2, <3>3, <3>4
    <3> QED
      BY <1>1, <3>5
  <2>3. FrameOf(t)'
    BY <1>1, <1>4, <2>1, <2>2 DEF FrameOf, off
  <2> QED
    BY <1>6, <2>3 DEF FrameOf, Writing
<1>9. t \in Filling'
  BY <1>4 DEF Filling, WInv, RtTypes
<1>10. Intact'
  <2> SUFFICES ASSUME NEW m \in 0 .. published - 1, m >= started - Slots,
                      NEW j \in 0 .. FrameSize - 1
               PROVE  data'[PositionOf(m).off + j] = Word(m, j)
    BY <1>4 DEF Intact
  <2>1. m \in Nat /\ m < published /\ published < m + Slots
    BY <1>1, <1>3, SlotsNat
  <2>2. PositionOf(m).off + j # off + k
    BY <1>1, <1>3, <2>1, FramesApart DEF off
  <2>3. data[PositionOf(m).off + j] = Word(m, j)
    BY DEF WInv, Intact
  <2>4. PositionOf(m).off + j \in Addresses
    BY <2>1, FrameInBuffer
  <2> QED
    BY <1>4, <2>2, <2>3, <2>4 DEF WInv, RtTypes
<1> QED
  BY <1>4, <1>5, <1>7, <1>8, <1>9, <1>10 DEF WInv

LEMMA ReadWInv == ASSUME WInv, NEW t \in Writers, ReadPosition(t) PROVE WInv'
<1>1. pc[t] = "read" /\ Writing(t) /\ \A u \in Writers \ {t} : ~Writing(u)
  BY OnlyWriter DEF ReadPosition, Writing
<1>2. /\ local' = [local EXCEPT ![t].next = PositionOf(published + 1)]
      /\ pc' = [pc EXCEPT ![t] = "store"]
      /\ lock' = lock /\ w' = w /\ published' = published /\ started' = started /\ data' = data
  BY NextPosition DEF ReadPosition, WInv, RtTypes
<1>3. PositionOf(published + 1) \in Position
  BY FrameInBuffer DEF WInv, RtTypes
<1>4. RtTypes'
  BY <1>2, <1>3 DEF WInv, RtTypes
<1>5. \A u \in Writers : /\ Writing(u)' <=> Writing(u)
                         /\ u # t => ~Writing(u)'
  BY <1>1, <1>2 DEF Writing, WInv, RtTypes
<1>6. LockHeld' /\ OneWriter'
  BY <1>1, <1>2, <1>5 DEF WInv, RtTypes, LockHeld, OneWriter
<1>7. \A u \in Writers : FrameOf(u)'
  <2>1. /\ local'[t].msg = local[t].msg /\ local'[t].off = local[t].off
        /\ local'[t].done = local[t].done /\ local'[t].next = PositionOf(published + 1)
        /\ pc'[t] = "store"
    BY <1>2 DEF WInv, RtTypes
  <2>2. FrameOf(t)'
    BY <1>1, <1>2, <2>1 DEF FrameOf, WInv
  <2> QED
    BY <1>5, <2>2 DEF FrameOf, Writing
<1>8. t \in Filling'
  BY <1>2 DEF Filling, WInv, RtTypes
<1>9. Intact'
  BY <1>2 DEF WInv, Intact
<1> QED
  BY <1>2, <1>4, <1>6, <1>7, <1>8, <1>9 DEF WInv

LEMMA StoreWInv == ASSUME WInv, NEW t \in Writers, StorePosition(t) PROVE WInv'
<1> DEFINE off == PositionOf(published).off
<1>1. pc[t] = "store" /\ Writing(t) /\ \A u \in Writers \ {t} : ~Writing(u)
  BY OnlyWriter DEF StorePosition, Writing
<1>2. /\ started = published + 1 /\ local[t].next = PositionOf(published + 1)
      /\ local[t].done = FrameSize /\ published \in Nat
      /\ \A k \in 0 .. FrameSize - 1 : data[off + k] = Word(published, k)
  BY <1>1 DEF WInv, FrameOf, RtTypes
<1>3. /\ pc' = [pc EXCEPT ![t] = "unlock"] /\ w' = PositionOf(published + 1)
      /\ lock' = lock /\ published' = published + 1 /\ started' = started
      /\ data' = data /\ local' = local
  BY <1>2 DEF StorePosition
<1>4. RtTypes'
  BY <1>3 DEF WInv, RtTypes
<1>5. \A u \in Writers : /\ Writing(u)' <=> Writing(u)
                         /\ pc'[u] \notin {"copy", "read", "store"}
  BY <1>1, <1>3 DEF Writing, WInv, RtTypes
<1>6. LockHeld' /\ OneWriter'
  BY <1>1, <1>3, <1>5 DEF WInv, RtTypes, LockHeld, OneWriter
<1>7. \A u \in Writers : FrameOf(u)'
  BY <1>5 DEF FrameOf
<1>8. Intact'
  <2> SUFFICES ASSUME NEW m \in 0 .. published, m >= started - Slots,
                      NEW k \in 0 .. FrameSize - 1
               PROVE  data[PositionOf(m).off + k] = Word(m, k)
    BY <1>2, <1>3 DEF Intact
  <2> QED
    BY <1>2 DEF WInv, Intact
<1> QED
  BY <1>2, <1>3, <1>4, <1>6, <1>7, <1>8 DEF WInv

LEMMA UnlockWInv == ASSUME WInv, NEW t \in Writers, Unlock(t) PROVE WInv'
<1>1. pc[t] = "unlock" /\ Writing(t) /\ \A u \in Writers \ {t} : ~Writing(u)
  BY OnlyWriter DEF Unlock, Writing
<1>2. /\ pc' = [pc EXCEPT ![t] = "idle"] /\ local' = [local EXCEPT ![t] = NoFrame]
      /\ lock' = "free" /\ published' = published /\ started' = started
      /\ data' = data /\ w' = w
  BY DEF Unlock
<1>3. NoFrame \in [msg : Int, done : 0 .. FrameSize, off : Nat, next : Position]
  BY DEF NoFrame, Position
<1>4. RtTypes'
  BY <1>2, <1>3 DEF WInv, RtTypes
<1>5. \A u \in Writers : ~Writing(u)' /\ pc'[u] # "out"
  BY <1>1, <1>2 DEF Writing, WInv, RtTypes, LockHeld
<1>6. LockHeld' /\ OneWriter' /\ \A u \in Writers : FrameOf(u)'
  BY <1>5 DEF LockHeld, OneWriter, FrameOf, Writing
<1>7. Filling = {}
  BY <1>1 DEF Filling, Writing
<1> QED
  BY <1>2, <1>4, <1>6, <1>7 DEF WInv, Intact

LEMMA WInvNext == ASSUME WInv, [Next]_vars PROVE WInv'
<1>1. CASE UNCHANGED writerVars
  BY <1>1 DEF writerVars, WInv, RtTypes, LockHeld, OneWriter, Writing, Filling, FrameOf, Intact
<1>2. ASSUME NEW t \in Writers, Join(t) PROVE FALSE
  BY <1>2 DEF Join, WInv, LockHeld
<1>3. CASE Attach \/ ReaderStep
  BY <1>1, <1>3 DEF Attach, ReaderStep, BeginRead, PrintWord, EndRead, ResetRead
<1>4. CASE UNCHANGED vars
  BY <1>1, <1>4 DEF vars
<1> QED
  BY <1>2, <1>3, <1>4, LogWInv, SpinWInv, CopyWInv, ReadWInv, StoreWInv, UnlockWInv DEF Next, InHook

\* The spinlock admits one writer to the ring, and no message is lost between
\* writers although log_inc_woff reads and writes the position in two steps: it is
\* that of the number of messages written (ubx_log_shm).
THEOREM WritePositionHolds == ASSUME Joiners = {} PROVE Spec => [](OneWriter /\ WritePosition)
<1>1. Init => WInv
  BY WInvInit
<1>2. WInv /\ [Next]_vars => WInv'
  BY WInvNext
<1>3. WInv => OneWriter /\ WritePosition
  <2> SUFFICES ASSUME WInv PROVE started = published + Cardinality(Filling)
    BY DEF WInv, WritePosition, Filling
  <2>1. CASE Filling = {}
    BY <2>1, FS_EmptySet DEF WInv, RtTypes
  <2>2. CASE Filling # {}
    <3>1. PICK t \in Writers : t \in Filling
      BY <2>2 DEF Filling
    <3>2. Filling = {t}
      BY <3>1 DEF Filling, WInv, OneWriter, Writing
    <3>3. started = published + 1
      BY <3>1 DEF Filling, WInv, FrameOf
    <3> QED
      BY <3>2, <3>3, FS_Singleton
  <2> QED
    BY <2>1, <2>2
<1> QED
  BY <1>1, <1>2, <1>3, PTL DEF Spec

\* Every message that was written and not overwritten since is complete in the
\* buffer: the copies of several threads in ubx_log_shm do not mix, and the write
\* position never moves past a frame that is not all there, for any number of
\* threads.  The processes have initialised their log before (Joiners).
THEOREM MessagesIntactHolds == ASSUME Joiners = {} PROVE Spec => []MessagesIntact
<1>1. Init => WInv
  BY WInvInit
<1>2. WInv /\ [Next]_vars => WInv'
  BY WInvNext
<1>3. WInv => MessagesIntact
  <2> SUFFICES ASSUME WInv, NEW m \in 0 .. published - 1, m > published - Slots
               PROVE  m >= started - Slots
    BY DEF WInv, Intact, MessagesIntact
  <2>1. started \in {published, published + 1}
    BY DEF WInv, Filling, FrameOf
  <2> QED
    BY <2>1, SlotsNat DEF WInv, RtTypes
<1> QED
  BY <1>1, <1>2, <1>3, PTL DEF Spec

-----------------------------------------------------------------------------
(* The reader.                                                              *)

LEMMA RInvInit == ASSUME Init PROVE RInv
BY DEF Init, RInv

\* Whatever the writers do, what the reader has printed stays as good as it was.
LEMMA RInvWriters ==
  ASSUME RInv, WInv, WInv', UNCHANGED readerVars,
         published' \in {published, published + 1}, started' \in {started, started + 1}
  PROVE  RInv'
<1>1. /\ rpc' = rpc /\ rd' = rd /\ r' = r /\ frame' = frame /\ got' = got
      /\ rd' \in 0 .. published'
  BY DEF readerVars, RInv, WInv, RtTypes
<1>2. started' < rd' + Slots => started < rd + Slots
  BY <1>1, SlotsNat DEF WInv, RtTypes, RInv
<1> QED
  BY <1>1, <1>2 DEF RInv

LEMMA WriterCounts ==
  ASSUME WInv, NEW t \in Writers, Log(t) \/ InHook(t)
  PROVE  /\ UNCHANGED readerVars
         /\ published' \in {published, published + 1} /\ started' \in {started, started + 1}
BY DEF Log, InHook, Spin, Copy, ReadPosition, StorePosition, Unlock

\* The read position moves to the write position.
LEMMA RInvSeek ==
  ASSUME RInv, WInv, UNCHANGED writerVars, r' = w, rd' = published, rpc' = "check",
         rpc # "print", UNCHANGED <<frame, got>>
  PROVE  RInv'
<1>1. got' = <<>> /\ Len(got') = 0
  BY DEF RInv
<1>2. published' = published /\ published \in Nat /\ r' = PositionOf(rd')
  BY DEF WInv, RtTypes, writerVars
<1> QED
  BY <1>1, <1>2 DEF RInv

LEMMA BeginReadRInv == ASSUME RInv, WInv, BeginRead PROVE RInv'
<1>1. /\ rpc = "check" /\ frame' = r.off /\ r' = Advance(r) /\ rd' = rd + 1 /\ rpc' = "print"
      /\ published' = published /\ got' = got
  BY DEF BeginRead, writerVars
<1>2. r = PositionOf(rd) /\ rd \in 0 .. published /\ published \in Nat /\ got = <<>>
  BY <1>1 DEF RInv, WInv, RtTypes
<1>3. rd # published
  <2> SUFFICES ASSUME w = r PROVE Status(w, r) # "NEW_DATA"
    BY <1>2 DEF WInv, BeginRead
  <2>1. w.wrap - r.wrap = 0 /\ w.off = r.off /\ w.off \in Int
    <3>1. w \in Position
      BY <1>2, FrameInBuffer
    <3> QED
      BY <3>1 DEF Position
  <2>2. (w.wrap - r.wrap) % WrapMod = 0
    BY <2>1
  <2> QED
    BY <2>1, <2>2 DEF Status
<1>4. r' = PositionOf(rd') /\ frame' = PositionOf(rd' - 1).off
  BY <1>1, <1>2, NextPosition
<1> QED
  BY <1>1, <1>2, <1>3, <1>4 DEF RInv

LEMMA PrintWordRInv == ASSUME RInv, WInv, PrintWord PROVE RInv'
<1> DEFINE n == Len(got)
           m == rd - 1
<1>1. /\ UNCHANGED <<writerVars, r, rpc, frame, rd>> /\ rpc = "print" /\ n \in 0 .. FrameSize - 1
      /\ m \in 0 .. published - 1 /\ m \in Nat /\ frame = PositionOf(m).off
      /\ published \in Nat /\ started \in Nat /\ rd \in Nat
  BY DEF PrintWord, RInv, WInv, RtTypes
<1>2. frame + n \in Addresses
  BY <1>1, FrameInBuffer
<1>3. got' = Append(got, data[frame + n])
  BY <1>2 DEF PrintWord
<1>4. data[frame + n] \in [msg : Int, part : Nat]
  BY <1>2 DEF WInv, RtTypes
<1>5. got' \in Seq([msg : Int, part : Nat]) /\ Len(got') = n + 1
  BY <1>3, <1>4 DEF RInv
<1>6. \A k \in 1 .. n + 1 : got'[k] = IF k = n + 1 THEN data[frame + n] ELSE got[k]
  BY <1>3 DEF RInv
<1>7. ASSUME started < rd + Slots, NEW k \in 1 .. n + 1 PROVE got'[k] = Word(m, k - 1)
  <2>1. CASE k = n + 1
    <3>1. m >= started - Slots
      BY <1>1, <1>7, SlotsNat
    <3>2. data[PositionOf(m).off + n] = Word(m, n)
      BY <1>1, <3>1 DEF WInv, Intact
    <3> QED
      BY <1>1, <1>6, <2>1, <3>2
  <2>2. CASE k \in 1 .. n
    BY <1>1, <1>6, <1>7, <2>2 DEF RInv
  <2> QED
    BY <1>1, <2>1, <2>2
<1> HIDE DEF n, m
<1>8. started' = started /\ rd' = rd /\ published' = published
  BY <1>1 DEF writerVars
<1>9. started' < rd' + Slots => \A k \in 1 .. Len(got') : got'[k] = Word(rd' - 1, k - 1)
  BY <1>5, <1>7, <1>8 DEF m
<1> QED
  BY <1>1, <1>5, <1>8, <1>9 DEF RInv

LEMMA RInvNext == ASSUME ShowOld = FALSE, WInv, RInv, WInv', [Next]_vars PROVE RInv'
<1>1. CASE \E t \in Writers : Log(t) \/ InHook(t)
  BY <1>1, WriterCounts, RInvWriters
<1>2. ASSUME NEW t \in Writers, Join(t) PROVE FALSE
  BY <1>2 DEF Join, WInv, LockHeld
<1>3. CASE Attach \/ ResetRead
  BY <1>3, RInvSeek DEF Attach, ResetRead, RInv
<1>4. CASE EndRead
  BY <1>4 DEF EndRead, RInv, writerVars
<1>5. CASE UNCHANGED vars
  BY <1>5 DEF vars, writerVars, readerVars, RInv
<1> QED
  BY <1>1, <1>2, <1>3, <1>4, <1>5, BeginReadRInv, PrintWordRInv DEF Next, ReaderStep

\* The reader takes no lock and the writers do not know of it, yet what it prints
\* are whole messages in the order they were logged, unless the writers have
\* begun to overwrite the very message it prints (logc_read_frame, log_data).  It
\* starts at the write position (ubx-log -O): the oldest message is not always
\* where logc_seek_to_oldest looks for it.
THEOREM ReadsInOrderHolds ==
  ASSUME Joiners = {}, ShowOld = FALSE PROVE Spec => []ReadsInOrder
<1>1. Init => WInv /\ RInv
  BY WInvInit, RInvInit
<1>2. WInv /\ RInv /\ [Next]_vars => (WInv /\ RInv)'
  BY WInvNext, RInvNext
<1>3. WInv /\ RInv => ReadsInOrder
  <2> SUFFICES ASSUME RInv, Len(got) = FrameSize, started < rd + Slots
               PROVE  got = Frame(rd - 1)
    BY DEF ReadsInOrder
  <2>1. got \in Seq([msg : Int, part : Nat]) /\ \A k \in 1 .. FrameSize : got[k] = Word(rd - 1, k - 1)
    BY DEF RInv
  <2>2. got = [k \in 1 .. FrameSize |-> got[k]]
    BY <2>1
  <2> QED
    BY <2>1, <2>2 DEF Frame
<1> QED
  BY <1>1, <1>2, <1>3, PTL DEF Spec

-----------------------------------------------------------------------------
(* The status of the reader.                                                *)

\* The difference of two wrap counters, modulo their width.
LEMMA Turns ==
  ASSUME NEW n \in Nat \ {0}, NEW p \in Nat, NEW q \in Nat, q <= p, p - q < n
  PROVE  ((p % n) - (q % n)) % n = p - q
<1> DEFINE a == p \div n
           b == p % n
           c == q \div n
           d == q % n
<1>1. /\ a \in Nat /\ b \in 0 .. n - 1 /\ p = n * a + b
      /\ c \in Nat /\ d \in 0 .. n - 1 /\ q = n * c + d
  BY Division
<1> HIDE DEF a, b, c, d
<1>2. a = c \/ a = c + 1
  <2>1. CASE a < c
    <3>1. n * (a + 1) <= n * c
      BY <1>1, <2>1
    <3>2. n * (a + 1) = n * a + n /\ n * a \in Nat /\ n * c \in Nat
      BY <1>1
    <3> QED
      BY <1>1, <3>1, <3>2
  <2>2. CASE c + 1 < a
    <3>1. n * (c + 2) <= n * a
      BY <1>1, <2>2
    <3>2. n * (c + 2) = n * c + 2 * n /\ n * a \in Nat /\ n * c \in Nat
      BY <1>1
    <3> QED
      BY <1>1, <3>1, <3>2
  <2> QED
    BY <1>1, <2>1, <2>2
<1>3. CASE a = c
  <2>1. b - d = p - q /\ p - q \in 0 .. n - 1
    <3>1. n * a = n * c /\ n * a \in Nat
      BY <1>1, <1>3
    <3> QED
      BY <1>1, <3>1
  <2> QED
    BY <2>1 DEF b, d
<1>4. CASE a = c + 1
  <2>1. b - d = p - q - n /\ p - q \in 0 .. n - 1
    <3>1. n * a = n * c + n /\ n * c \in Nat /\ n * a \in Nat
      BY <1>1, <1>4
    <3> QED
      BY <1>1, <3>1
  <2>2. (p - q - n) % n = p - q
    BY <2>1
  <2> QED
    BY <2>1, <2>2 DEF b, d
<1> QED
  BY <1>2, <1>3, <1>4

\* logc_has_data compares positions, which stand for numbers of messages.
LEMMA StatusOfLag ==
  ASSUME NEW l \in Nat, NEW m \in 0 .. l, l - m <= (WrapMod - 1) * Slots
  PROVE  Status(PositionOf(l), PositionOf(m))
           = IF l = m THEN "NO_DATA" ELSE IF l - m < Slots THEN "NEW_DATA" ELSE "OVERRUN"
<1> DEFINE p == l \div Slots
           s == l % Slots
           q == m \div Slots
           t == m % Slots
<1>1. /\ p \in Nat /\ s \in 0 .. Slots - 1 /\ l = Slots * p + s
      /\ q \in Nat /\ t \in 0 .. Slots - 1 /\ m = Slots * q + t
  <2>1. m \in Nat
    OBVIOUS
  <2> QED
    BY <2>1, SlotsNat, Division
<1>2. /\ PositionOf(l).off = s * FrameSize /\ PositionOf(l).wrap = p % WrapMod
      /\ PositionOf(m).off = t * FrameSize /\ PositionOf(m).wrap = q % WrapMod
  BY DEF PositionOf
<1> HIDE DEF p, s, q, t
<1> DEFINE turns == p - q
<1>3. l - m = Slots * turns + s - t /\ Slots * turns \in Int /\ turns \in Int
  BY <1>1, SlotsNat
<1>4. q <= p
  <2> SUFFICES ASSUME turns <= -1 PROVE FALSE
    BY <1>1
  <2>1. Slots * turns <= Slots * (-1)
    BY <1>3, SlotsNat
  <2> QED
    BY <1>1, <1>3, <2>1, SlotsNat
<1>5. p - q < WrapMod
  <2> SUFFICES ASSUME turns >= WrapMod PROVE FALSE
    BY <1>1
  <2>1. Slots * turns >= Slots * WrapMod
    BY <1>3, SlotsNat
  <2>2. (WrapMod - 1) * Slots = Slots * WrapMod - Slots /\ Slots * WrapMod \in Nat
    BY SlotsNat
  <2> QED
    BY <1>1, <1>3, <2>1, <2>2, SlotsNat
<1>6. (PositionOf(l).wrap - PositionOf(m).wrap) % WrapMod = turns /\ turns \in Nat
  <2>1. WrapMod \in Nat \ {0}
    OBVIOUS
  <2>2. ((p % WrapMod) - (q % WrapMod)) % WrapMod = p - q
    BY <1>1, <1>4, <1>5, <2>1, Turns
  <2> QED
    BY <1>1, <1>2, <1>4, <2>2
<1> HIDE DEF turns
<1>7. /\ s < t <=> s * FrameSize < t * FrameSize
      /\ s = t <=> s * FrameSize = t * FrameSize
      /\ s * FrameSize \in Nat /\ t * FrameSize \in Nat
  <2>1. s < t => s * FrameSize < t * FrameSize
    BY <1>1, SlotsNat
  <2>2. t < s => t * FrameSize < s * FrameSize
    BY <1>1, SlotsNat
  <2>3. s * FrameSize \in Nat /\ t * FrameSize \in Nat
    BY <1>1, SlotsNat
  <2> QED
    BY <1>1, <2>1, <2>2, <2>3, SlotsNat
<1> DEFINE a == PositionOf(l)
           b == PositionOf(m)
<1>8. /\ a.off < b.off <=> s < t
      /\ a.off = b.off <=> s = t
      /\ a.off \in Nat /\ b.off \in Nat
  BY <1>2, <1>7
<1>9. (a.wrap - b.wrap) % WrapMod = turns
  BY <1>6
<1> HIDE DEF a, b
<1>10. CASE turns = 0
  <2>1. l - m = s - t
    <3>1. Slots * 0 = 0
      BY SlotsNat
    <3> QED
      BY <1>1, <1>3, <1>10, <3>1
  <2>2. s = t \/ t < s
    BY <1>1, <2>1
  <2> QED
    BY <1>1, <1>8, <1>9, <1>10, <2>1, <2>2, SlotsNat DEF Status, a, b
<1>11. CASE turns = 1
  <2>1. l - m = Slots + s - t
    BY <1>3, <1>11, SlotsNat
  <2> QED
    BY <1>1, <1>8, <1>9, <1>11, <2>1, SlotsNat DEF Status, a, b
<1>12. CASE turns >= 2
  <2>1. Slots * turns >= Slots * 2
    BY <1>3, <1>12, SlotsNat
  <2>2. l - m > Slots
    BY <1>1, <1>3, <2>1, SlotsNat
  <2> QED
    BY <1>1, <1>8, <1>9, <1>12, <2>2, SlotsNat DEF Status, a, b
<1> QED
  BY <1>6, <1>10, <1>11, <1>12

\* The reader never takes an overrun for new data or the other way round, and
\* never finds its position inconsistent, however many frames it lags behind, as
\* long as the difference of the wrap counters does not wrap (logc_has_data).
THEOREM StatusIsLagHolds ==
  ASSUME Joiners = {}, ShowOld = FALSE PROVE Spec => []StatusIsLag
<1>1. Init => WInv /\ RInv
  BY WInvInit, RInvInit
<1>2. WInv /\ RInv /\ [Next]_vars => (WInv /\ RInv)'
  BY WInvNext, RInvNext
<1>3. WInv /\ RInv => StatusIsLag
  BY StatusOfLag DEF WInv, RtTypes, RInv, StatusIsLag
<1> QED
  BY <1>1, <1>2, <1>3, PTL DEF Spec

=============================================================================
