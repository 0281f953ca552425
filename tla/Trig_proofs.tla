---------------------------- MODULE Trig_proofs -----------------------------
(***************************************************************************)
(* Theorems about the trigger block, for any chains, divisors and numbers  *)
(* of triggers: what the triggees and the statistics have got is a matter  *)
(* of the number of triggers alone.                                        *)
(***************************************************************************)
EXTENDS Trig, FiniteSetTheorems, TLAPS

\* A chain, between a start and a stop as well as otherwise.
Triggee == [every : Nat, steps : Int]
ChainType ==
  [triggees : Seq(Triggee), mode : Int, skip : Nat, everyCnt : Nat, glob : Nat,
   blk : Seq(Nat), outIdx : Nat, mem : {"null", "live", "freed"}]

\* The counter every_cnt has a width: after it has wrapped it still is a multiple
\* of the divisor where the number of the trigger is one, if the divisor divides
\* the number of its values.
Regular(c, i) == W % chain[c].triggees[i].every = 0 \/ n[c] <= W

\* The counters of chain c of an active block, after n[c] triggers.
CountersOf(c) ==
  /\ n[c] \in Nat
  /\ chain[c].everyCnt = n[c] % W
  /\ chain[c].skip = IF n[c] < skipped THEN skipped - n[c] ELSE 0

TriggeesOf(c) ==
  \A i \in DOMAIN chain[c].triggees :
    chain[c].triggees[i].every # 0

StepsOf(c) ==
  /\ DOMAIN stepped[c] = DOMAIN chain[c].triggees
  /\ DOMAIN missed[c] = DOMAIN chain[c].triggees
  /\ \A i \in DOMAIN chain[c].triggees :
       LET t == chain[c].triggees[i] IN
       /\ stepped[c][i] \in Int /\ missed[c][i] \in Int
       /\ chain[c].mode \in Disabled .. PerBlock /\ Regular(c, i) =>
            stepped[c][i] = (IF t.steps > 0 THEN t.steps ELSE 0)
                              * (Multiples(0, n[c], t.every) - missed[c][i])

StatsOf(c) ==
  /\ chain[c].mode \in {Global, PerBlock} =>
       chain[c].glob = IF n[c] > skipped THEN n[c] - skipped ELSE 0
  /\ chain[c].mode = PerBlock =>
       /\ DOMAIN chain[c].blk = DOMAIN chain[c].triggees
       /\ \A i \in DOMAIN chain[c].triggees : Regular(c, i) =>
            chain[c].blk[i] = Multiples(skipped, n[c], chain[c].triggees[i].every)

MemOf(c) ==
  /\ blockState = "active" /\ chain[c].mode = PerBlock => chain[c].mem = "live"
  /\ blockState # "active" => chain[c].mem # "live"

Tables ==
  /\ chain \in [Chains -> ChainType] /\ DOMAIN n = Chains
  /\ DOMAIN stepped = Chains /\ DOMAIN missed = Chains

TInv ==
  /\ Tables
  /\ skipped \in 0 .. W - 1
  /\ \A c \in Chains : MemOf(c)
  /\ blockState = "active" =>
       \A c \in Chains : CountersOf(c) /\ TriggeesOf(c) /\ StepsOf(c) /\ StatsOf(c)

-----------------------------------------------------------------------------
(* Numbers of triggers.                                                     *)

\* Quotient and remainder are the only ones.
LEMMA DivisionUnique ==
  ASSUME NEW d \in Nat \ {0}, NEW q \in Nat, NEW s \in 0 .. d - 1, NEW m \in Nat, m = d * q + s
  PROVE  m \div d = q /\ m % d = s
<1> DEFINE p == m \div d
           t == m % d
<1>1. p \in Nat /\ t \in 0 .. d - 1 /\ d * p + t = d * q + s
  OBVIOUS
<1> HIDE DEF p, t
<1>2. CASE p < q
  <2>1. d * (p + 1) <= d * q
    BY <1>1, <1>2
  <2> QED
    BY <1>1, <2>1
<1>3. CASE q < p
  <2>1. d * (q + 1) <= d * p
    BY <1>1, <1>3
  <2> QED
    BY <1>1, <2>1
<1>4. CASE p = q
  BY <1>1, <1>4
<1>5. p = q /\ t = s
  BY <1>1, <1>2, <1>3, <1>4
<1> QED
  BY <1>5 DEF p, t

\* every_cnt is the number of the trigger modulo W.
LEMMA CountIncrement ==
  ASSUME NEW m \in Nat, W \in Nat \ {0} PROVE ((m % W) + 1) % W = (m + 1) % W
<1> DEFINE p == m \div W
           t == m % W
<1>1. p \in Nat /\ t \in 0 .. W - 1 /\ m = W * p + t
  OBVIOUS
<1> HIDE DEF p, t
<1>2. CASE t + 1 < W
  <2>1. m + 1 = W * p + (t + 1) /\ t + 1 = W * 0 + (t + 1)
    BY <1>1
  <2>2. (m + 1) % W = t + 1 /\ (t + 1) % W = t + 1
    BY <1>1, <1>2, <2>1, DivisionUnique
  <2> QED
    BY <2>2 DEF t
<1>3. CASE t + 1 = W
  <2>1. W * (p + 1) = W * p + W
    BY <1>1
  <2>2. m + 1 = W * (p + 1) + 0 /\ t + 1 = W * 1 + 0
    BY <1>1, <1>3, <2>1
  <2>3. (m + 1) % W = 0 /\ (t + 1) % W = 0
    BY <1>1, <2>2, DivisionUnique
  <2> QED
    BY <2>3 DEF t
<1> QED
  BY <1>1, <1>2, <1>3

\* ... and its multiples of the divisor are those of the number.
LEMMA CountRegular ==
  ASSUME NEW m \in Nat, NEW e \in Nat \ {0}, W \in Nat \ {0}, W % e = 0 \/ m < W
  PROVE  (m % W) % e = m % e
<1>1. CASE m < W
  <2>1. m % W = m
    BY <1>1
  <2> QED
    BY <2>1
<1>2. CASE W % e = 0
  <2> DEFINE p == m \div W
             t == m % W
             d == W \div e
             q == t \div e
             s == t % e
  <2>1. p \in Nat /\ t \in Nat /\ m = W * p + t
    OBVIOUS
  <2>2. d \in Nat /\ W = e * d
    BY <1>2
  <2>3. q \in Nat /\ s \in 0 .. e - 1 /\ t = e * q + s
    BY <2>1
  <2> HIDE DEF p, t, d, q, s
  <2>4. m = e * (d * p + q) + s /\ d * p + q \in Nat
    <3>1. W * p = e * (d * p)
      BY <2>1, <2>2
    <3>2. d * p \in Nat /\ e * (d * p + q) = e * (d * p) + e * q
      BY <2>1, <2>2, <2>3
    <3> QED
      BY <2>1, <2>3, <3>1, <3>2
  <2>5. m % e = s
    BY <2>3, <2>4, DivisionUnique
  <2> QED
    BY <2>5 DEF s, t
<1> QED
  BY <1>1, <1>2

\* One more trigger.
LEMMA MultiplesNext ==
  ASSUME NEW f \in Nat, NEW m \in Nat, NEW e \in Nat \ {0}
  PROVE  /\ Multiples(f, m, e) \in Nat
         /\ Multiples(f, m + 1, e)
              = Multiples(f, m, e) + (IF f <= m /\ m % e = 0 THEN 1 ELSE 0)
         /\ m <= f => Multiples(f, m, e) = 0
<1> DEFINE K(l) == {k \in f .. l - 1 : k % e = 0}
<1>1. IsFiniteSet(K(m))
  <2>1. IsFiniteSet(f .. m - 1)
    BY FS_Interval
  <2> QED
    BY <2>1, FS_Subset
<1>2. Cardinality(K(m)) \in Nat
  BY <1>1, FS_CardinalityType
<1>3. m <= f => K(m) = {}
  OBVIOUS
<1>4. CASE f <= m /\ m % e = 0
  <2>1. K(m + 1) = K(m) \cup {m} /\ m \notin K(m)
    BY <1>4
  <2> HIDE DEF K
  <2>2. Cardinality(K(m) \cup {m}) = Cardinality(K(m)) + 1
    BY <1>1, <2>1, FS_AddElement
  <2> QED
    BY <1>2, <1>3, <1>4, <2>1, <2>2, FS_EmptySet DEF Multiples, K
<1>5. CASE ~(f <= m /\ m % e = 0)
  <2>1. K(m + 1) = K(m)
    BY <1>5
  <2>2. Multiples(f, m, e) = Cardinality(K(m)) /\ Multiples(f, m + 1, e) = Cardinality(K(m + 1))
    BY DEF Multiples
  <2> HIDE DEF K
  <2> QED
    BY <1>2, <1>3, <1>5, <2>1, <2>2, FS_EmptySet
<1> QED
  BY <1>4, <1>5

-----------------------------------------------------------------------------
(* What the functions of trig_utils.c do to a chain.                        *)

USE ChainAssumption DEF ChainAssumption

LEMMA NewChainIs == NewChain \in ChainType /\ NewChain.mem = "null"
<1>1. <<>> \in Seq(Triggee) /\ <<>> \in Seq(Nat)
  OBVIOUS
<1> QED
  BY <1>1 DEF ChainType, NewChain, Disabled

\* The configuration of a chain, as a start reads it.
Conf == [triggees : Seq(Triggee), mode : Int, skip : 0 .. W - 1]

LEMMA Defaults ==
  ASSUME NEW t \in Triggee PROVE Defaulted(t) \in Triggee /\ Defaulted(t).every # 0
<1> DEFINE e == IF t.every = 0 THEN 1 ELSE t.every
           s == IF t.steps = 0 THEN 1 ELSE t.steps
<1>1. Defaulted(t) = [t EXCEPT !.every = e, !.steps = s]
  BY DEF Defaulted
<1>2. e \in Nat \ {0} /\ s \in Int
  BY DEF Triggee
<1> HIDE DEF e, s
<1> QED
  BY <1>1, <1>2 DEF Triggee

LEMMA Configured ==
  ASSUME NEW ch \in ChainType, NEW conf \in Conf
  PROVE  LET d == Configure(ch, conf) IN
         /\ d \in ChainType
         /\ DOMAIN d.triggees = DOMAIN conf.triggees
         /\ d.triggees = [i \in DOMAIN conf.triggees |-> Defaulted(conf.triggees[i])]
         /\ \A i \in DOMAIN d.triggees : d.triggees[i].every # 0
         /\ d.mode = conf.mode /\ d.skip = conf.skip /\ d.everyCnt = 0 /\ d.glob = 0
         /\ conf.mode >= PerBlock =>
              d.blk = [i \in DOMAIN conf.triggees |-> 0] /\ d.mem = "live"
<1> DEFINE ts == [i \in DOMAIN conf.triggees |-> Defaulted(conf.triggees[i])]
           zs == [i \in DOMAIN conf.triggees |-> 0]
<1>1. conf.triggees \in Seq(Triggee) /\ conf.mode \in Int /\ conf.skip \in 0 .. W - 1
  BY DEF Conf
<1>2. ts \in Seq(Triggee) /\ DOMAIN ts = DOMAIN conf.triggees /\ \A i \in DOMAIN ts : ts[i].every # 0
  BY <1>1, Defaults
<1>3. zs \in Seq(Nat)
  BY <1>1
<1>4. conf.skip % W = conf.skip
  BY <1>1
<1> DEFINE blk == IF conf.mode >= PerBlock THEN zs ELSE ch.blk
           mem == IF conf.mode >= PerBlock THEN "live" ELSE ch.mem
<1>5. blk \in Seq(Nat) /\ mem \in {"null", "live", "freed"}
  BY <1>3 DEF ChainType
<1> HIDE DEF ts, zs
<1> DEFINE c == [ch EXCEPT !.triggees = ts, !.mode = conf.mode, !.blk = blk, !.mem = mem]
           d == [c EXCEPT !.skip = conf.skip, !.everyCnt = 0, !.glob = 0, !.outIdx = 0]
<1>6. Configure(ch, conf) =
        [ch EXCEPT !.triggees = ts, !.mode = conf.mode, !.skip = conf.skip, !.everyCnt = 0,
                   !.glob = 0, !.outIdx = 0, !.blk = blk, !.mem = mem]
  BY <1>4 DEF Configure, ts, zs
<1> HIDE DEF blk, mem
<1>7. /\ c \in ChainType
      /\ c.triggees = ts /\ c.mode = conf.mode /\ c.blk = blk /\ c.mem = mem
  BY <1>1, <1>2, <1>5 DEF ChainType
<1>8. Configure(ch, conf) = d
  BY <1>6, <1>7 DEF ChainType
<1> HIDE DEF c
<1>a. d \in ChainType
  <2>1. conf.skip \in Nat
    BY <1>1
  <2>2. c \in ChainType
    BY <1>7
  <2> QED
    BY <2>1, <2>2 DEF ChainType
<1>9. /\ d.triggees = c.triggees /\ d.mode = c.mode /\ d.blk = c.blk /\ d.mem = c.mem
      /\ d.skip = conf.skip /\ d.everyCnt = 0 /\ d.glob = 0
  BY <1>1, <1>7 DEF ChainType
<1> QED
  BY <1>2, <1>7, <1>8, <1>9, <1>a DEF blk, mem, ts, zs

LEMMA Remains ==
  ASSUME NEW ch \in ChainType
  PROVE  Remainder(ch) \in ChainType /\ Remainder(ch).mem = ch.mem
BY NewChainIs DEF ChainType, Remainder

LEMMA CleanedUp ==
  ASSUME NEW ch \in ChainType PROVE Cleanup(ch) \in ChainType /\ Cleanup(ch).mem # "live"
BY DEF ChainType, Cleanup

LEMMA Failed ==
  ASSUME NEW ch \in ChainType, NEW conf \in Conf
  PROVE  ConfigureFailed(ch, conf) \in ChainType /\ ConfigureFailed(ch, conf).mem = "null"
<1>1. conf.triggees \in Seq(Triggee) /\ conf.mode \in Int /\ conf.skip % W \in Nat
  BY DEF Conf
<1> QED
  BY <1>1 DEF ChainType, ConfigureFailed

LEMMA TriggeredChain ==
  ASSUME NEW ch \in ChainType
  PROVE  LET d == Triggered(ch) IN
         /\ d \in ChainType
         /\ d.triggees = ch.triggees /\ d.mode = ch.mode /\ d.mem = ch.mem
         /\ d.skip = IF ch.skip > 0 THEN ch.skip - 1 ELSE 0
         /\ d.everyCnt = (ch.everyCnt + 1) % W
         /\ d.glob = IF Measures(ch) THEN ch.glob + 1 ELSE ch.glob
         /\ d.blk = IF Measures(ch) /\ ch.mode = PerBlock
                    THEN [i \in DOMAIN ch.blk |-> IF i \in Due(ch) THEN ch.blk[i] + 1 ELSE ch.blk[i]]
                    ELSE ch.blk
<1> DEFINE bs == [i \in DOMAIN ch.blk |-> IF i \in Due(ch) THEN ch.blk[i] + 1 ELSE ch.blk[i]]
           blk == IF Measures(ch) /\ ch.mode = PerBlock THEN bs ELSE ch.blk
           skip == IF ch.skip > 0 THEN ch.skip - 1 ELSE 0
           cnt == (ch.everyCnt + 1) % W
           glob == IF Measures(ch) THEN ch.glob + 1 ELSE ch.glob
<1>1. /\ ch.blk \in Seq(Nat) /\ ch.skip \in Nat /\ ch.everyCnt \in Nat /\ ch.glob \in Nat
  BY DEF ChainType
<1>2. bs \in Seq(Nat)
  BY <1>1
<1>3. blk \in Seq(Nat) /\ skip \in Nat /\ cnt \in Nat /\ glob \in Nat
  BY <1>1, <1>2
<1>4. Triggered(ch) = [ch EXCEPT !.skip = skip, !.everyCnt = cnt, !.glob = glob, !.blk = blk]
  BY DEF Triggered
<1> HIDE DEF blk, skip, cnt, glob
<1>5. LET d == [ch EXCEPT !.skip = skip, !.everyCnt = cnt, !.glob = glob, !.blk = blk] IN
      /\ d \in ChainType
      /\ d.triggees = ch.triggees /\ d.mode = ch.mode /\ d.mem = ch.mem
      /\ d.skip = skip /\ d.everyCnt = cnt /\ d.glob = glob /\ d.blk = blk
  BY <1>3 DEF ChainType
<1> QED
  BY <1>4, <1>5 DEF blk, skip, cnt, glob

-----------------------------------------------------------------------------
(* The steps of the block.                                                  *)

LEMMA TInvInit == ASSUME Init PROVE TInv
BY NewChainIs DEF Init, TInv, Tables, MemOf, Zero, None

\* A start reads configurations.
LEMMA ConfRead ==
  ASSUME NEW lists \in [Chains -> TriggeeLists], NEW m \in Modes, NEW s \in Skips, NEW c \in Chains
  PROVE  [triggees |-> lists[c], mode |-> m, skip |-> s] \in Conf /\ lists[c] \in Seq(Triggee)
<1> DEFINE R == [every : 0 .. W - 1, steps : Int]
           l == lists[c]
<1>1. l \in Seq(R) /\ m \in Int /\ s \in 0 .. W - 1
  BY TrigAssumption DEF TrigAssumption
<1>2. \A t \in R : t \in Triggee
  BY DEF Triggee
<1> HIDE DEF R, l
<1>3. l \in Seq(Triggee)
  <2>1. Len(l) \in Nat /\ l \in [1 .. Len(l) -> R]
    BY <1>1
  <2>2. l \in [1 .. Len(l) -> Triggee]
    BY <1>2, <2>1
  <2> QED
    BY <2>1, <2>2
<1> QED
  BY <1>1, <1>3 DEF Conf, l

LEMMA StartTInv == ASSUME TInv, StartBlock PROVE TInv'
<1>1. PICK lists \in [Chains -> TriggeeLists], m \in Modes, s \in Skips :
       /\ chain' = [c \in Chains |->
                      Configure(chain[c], [triggees |-> lists[c], mode |-> m, skip |-> s])]
       /\ stepped' = [c \in Chains |-> [i \in DOMAIN lists[c] |-> 0]]
       /\ missed'  = [c \in Chains |-> [i \in DOMAIN lists[c] |-> 0]]
       /\ skipped' = s
  BY DEF StartBlock
<1>2. n' = [c \in Chains |-> 0] /\ blockState' = "active"
  BY DEF StartBlock, Zero
<1>3. ASSUME NEW c \in Chains
      PROVE  /\ chain'[c] \in ChainType /\ MemOf(c)'
             /\ CountersOf(c)' /\ TriggeesOf(c)' /\ StepsOf(c)' /\ StatsOf(c)'
  <2> DEFINE conf == [triggees |-> lists[c], mode |-> m, skip |-> s]
             d == chain'[c]
  <2>1. conf \in Conf /\ conf.triggees = lists[c] /\ conf.mode = m /\ conf.skip = s
    BY ConfRead
  <2>2. chain[c] \in ChainType /\ chain'[c] = Configure(chain[c], conf)
    BY <1>1 DEF TInv, Tables
  <2> HIDE DEF conf
  <2>3. /\ d \in ChainType
        /\ DOMAIN d.triggees = DOMAIN lists[c]
        /\ \A i \in DOMAIN d.triggees : d.triggees[i].every # 0
        /\ d.mode = m /\ d.skip = s /\ d.everyCnt = 0 /\ d.glob = 0
        /\ m >= PerBlock => d.blk = [i \in DOMAIN lists[c] |-> 0] /\ d.mem = "live"
    <3> DEFINE x == Configure(chain[c], conf)
    <3>1. /\ x \in ChainType
          /\ DOMAIN x.triggees = DOMAIN conf.triggees
          /\ \A i \in DOMAIN x.triggees : x.triggees[i].every # 0
          /\ x.mode = conf.mode /\ x.skip = conf.skip /\ x.everyCnt = 0 /\ x.glob = 0
          /\ conf.mode >= PerBlock =>
               x.blk = [i \in DOMAIN conf.triggees |-> 0] /\ x.mem = "live"
      BY <2>1, <2>2, Configured
    <3>2. d = x
      BY <2>2
    <3> HIDE DEF x, d
    <3> QED
      BY <2>1, <3>1, <3>2
  <2>4. n'[c] = 0 /\ skipped' = s /\ s \in 0 .. W - 1
    BY <1>1, <1>2, TrigAssumption DEF TrigAssumption
  <2>5. CountersOf(c)' /\ TriggeesOf(c)' /\ MemOf(c)'
    BY <1>2, <2>3, <2>4 DEF CountersOf, TriggeesOf, MemOf, PerBlock
  <2>6. \A i \in DOMAIN d.triggees : d.triggees[i].every \in Nat \ {0} /\ d.triggees[i].steps \in Int
    <3>1. d.triggees \in Seq(Triggee)
      BY <2>3 DEF ChainType
    <3> HIDE DEF d
    <3>2. \A i \in DOMAIN d.triggees : d.triggees[i] \in Triggee
      BY <3>1
    <3> QED
      BY <2>3, <3>2 DEF Triggee
  <2>7. \A i \in DOMAIN d.triggees :
          /\ Multiples(0, 0, d.triggees[i].every) = 0
          /\ Multiples(s, 0, d.triggees[i].every) = 0
    <3> SUFFICES ASSUME NEW e \in Nat \ {0}
                 PROVE  Multiples(0, 0, e) = 0 /\ Multiples(s, 0, e) = 0
      BY <2>6
    <3>1. s \in Nat /\ 0 \in Nat /\ 0 <= s
      BY <2>4
    <3>2. Multiples(0, 0, e) = 0
      BY <3>1, MultiplesNext
    <3>3. Multiples(s, 0, e) = 0
      BY <3>1, MultiplesNext
    <3> QED
      BY <3>2, <3>3
  <2>8. StepsOf(c)'
    <3>1. stepped'[c] = [i \in DOMAIN lists[c] |-> 0] /\ missed'[c] = [i \in DOMAIN lists[c] |-> 0]
      BY <1>1
    <3>2. ASSUME NEW i \in DOMAIN d.triggees
          PROVE  0 = (IF d.triggees[i].steps > 0 THEN d.triggees[i].steps ELSE 0) * (0 - 0)
      BY <2>6
    <3> QED
      BY <2>3, <2>4, <2>7, <3>1, <3>2 DEF StepsOf
  <2>9. StatsOf(c)'
    BY <2>3, <2>4, <2>7 DEF StatsOf, PerBlock
  <2> QED
    BY <2>3, <2>5, <2>8, <2>9
<1>4. Tables'
  BY <1>1, <1>2, <1>3 DEF Tables
<1> QED
  BY <1>1, <1>3, <1>4, TrigAssumption DEF TInv, TrigAssumption

LEMMA LeaveTInv == ASSUME TInv, InitBlock \/ StartFails \/ StopBlock \/ CleanupBlock PROVE TInv'
<1>1. CASE InitBlock
  BY <1>1, NewChainIs DEF InitBlock, TInv, Tables, MemOf, historyVars
<1>2. CASE StartFails
  <2>1. PICK lists \in [Chains -> TriggeeLists], m \in Modes, s \in Skips, f \in Chains :
          chain' = [c \in Chains |->
            IF c < f
            THEN Remainder(Cleanup(Configure(chain[c], [triggees |-> lists[c], mode |-> m, skip |-> s])))
            ELSE IF c = f
            THEN Remainder(ConfigureFailed(chain[c], [triggees |-> lists[c], mode |-> m, skip |-> s]))
            ELSE chain[c]]
    BY <1>2 DEF StartFails
  <2>2. blockState' = blockState /\ blockState = "inactive" /\ UNCHANGED historyVars
    BY <1>2 DEF StartFails
  <2>3. ASSUME NEW c \in Chains PROVE chain'[c] \in ChainType /\ chain'[c].mem # "live"
    <3> DEFINE conf == [triggees |-> lists[c], mode |-> m, skip |-> s]
    <3>1. conf \in Conf
      BY ConfRead
    <3>2. chain[c] \in ChainType /\ chain[c].mem # "live"
      BY <2>2 DEF TInv, Tables, MemOf
    <3>3. \/ chain'[c] = Remainder(Cleanup(Configure(chain[c], conf)))
          \/ chain'[c] = Remainder(ConfigureFailed(chain[c], conf))
          \/ chain'[c] = chain[c]
      BY <2>1
    <3> HIDE DEF conf
    <3>4. Configure(chain[c], conf) \in ChainType
      BY <3>1, <3>2, Configured
    <3> QED
      BY <3>1, <3>2, <3>3, <3>4, CleanedUp, Failed, Remains
  <2> QED
    BY <2>1, <2>2, <2>3 DEF TInv, Tables, MemOf, historyVars
<1>3. CASE StopBlock
  <2>1. /\ chain' = [c \in Chains |-> Remainder(Cleanup(chain[c]))] /\ blockState' = "inactive"
        /\ n' = Zero /\ skipped' = 0 /\ stepped' = None /\ missed' = None
    BY <1>3 DEF StopBlock
  <2>2. \A c \in Chains : chain'[c] \in ChainType /\ chain'[c].mem # "live"
    BY <2>1, CleanedUp, Remains DEF TInv, Tables
  <2> QED
    BY <2>1, <2>2 DEF TInv, Tables, MemOf, Zero, None
<1>4. CASE CleanupBlock
  BY <1>4 DEF CleanupBlock, TInv, Tables, MemOf, historyVars
<1> QED
  BY <1>1, <1>2, <1>3, <1>4

\* A trigger of chain c at which the triggees in off are not ACTIVE.
TriggerOf(c, off) ==
  /\ blockState = "active" /\ blockState' = "active" /\ skipped' = skipped
  /\ n' = [n EXCEPT ![c] = @ + 1]
  /\ stepped' = [stepped EXCEPT ![c] = [i \in DOMAIN @ |->
       IF i \in Due(chain[c]) \ off /\ chain[c].triggees[i].steps > 0
       THEN @[i] + chain[c].triggees[i].steps ELSE @[i]]]
  /\ missed' = [missed EXCEPT ![c] = [i \in DOMAIN @ |->
       IF i \in off THEN @[i] + 1 ELSE @[i]]]
  /\ \E o \in Nat : chain' = [chain EXCEPT ![c] = [Triggered(chain[c]) EXCEPT !.outIdx = o]]

\* A chain has an index of its next output, and the one after that.
LEMMA OutputKept ==
  ASSUME NEW x \in ChainType
  PROVE  /\ x.outIdx \in Nat /\ NextOutput(x) \in Nat
         /\ x = [x EXCEPT !.outIdx = x.outIdx]
<1>1. x.outIdx \in Nat
  BY DEF ChainType
<1>2. NextOutput(x) \in Nat
  BY <1>1 DEF NextOutput
<1>3. x = [x EXCEPT !.outIdx = x.outIdx]
  BY Zenon DEF ChainType
<1> QED
  BY <1>1, <1>2, <1>3

LEMMA StepIsTrigger ==
  ASSUME TInv, StepBlock PROVE \E c \in Chains : \E off \in SUBSET Due(chain[c]) : TriggerOf(c, off)
<1>1. PICK c \in Chains :
        /\ n' = [n EXCEPT ![c] = @ + 1]
        /\ \E off \in SUBSET Due(chain[c]) :
             /\ stepped' = [stepped EXCEPT ![c] = [i \in DOMAIN @ |->
                  IF i \in Due(chain[c]) \ off /\ chain[c].triggees[i].steps > 0
                  THEN @[i] + chain[c].triggees[i].steps ELSE @[i]]]
             /\ missed' = [missed EXCEPT ![c] = [i \in DOMAIN @ |->
                  IF i \in off THEN @[i] + 1 ELSE @[i]]]
        /\ \/ chain' = [chain EXCEPT ![c] = Triggered(chain[c])]
           \/ chain' = [chain EXCEPT ![c] =
                [Triggered(chain[c]) EXCEPT !.outIdx = NextOutput(chain[c])]]
  BY DEF StepBlock
<1>2. chain[c] \in ChainType /\ Triggered(chain[c]) \in ChainType
  BY TriggeredChain DEF TInv, Tables
<1>3. NextOutput(chain[c]) \in Nat
  BY <1>2, OutputKept
<1>4. Triggered(chain[c]).outIdx \in Nat
      /\ Triggered(chain[c]) = [Triggered(chain[c]) EXCEPT !.outIdx = Triggered(chain[c]).outIdx]
  BY <1>2, OutputKept
<1>5. PICK o \in Nat : chain' = [chain EXCEPT ![c] = [Triggered(chain[c]) EXCEPT !.outIdx = o]]
  <2>1. CASE chain' = [chain EXCEPT ![c] = Triggered(chain[c])]
    <3> DEFINE x == Triggered(chain[c])
    <3>1. chain' = [chain EXCEPT ![c] = [x EXCEPT !.outIdx = x.outIdx]]
      BY <1>4, <2>1
    <3> QED
      BY <1>4, <3>1
  <2> QED
    BY <1>1, <1>3, <2>1
<1>6. blockState = "active" /\ blockState' = blockState /\ skipped' = skipped
  BY DEF StepBlock
<1> QED
  BY <1>1, <1>5, <1>6 DEF TriggerOf

\* Multiplying out.
LEMMA Delivery ==
  ASSUME NEW k \in Int, NEW a \in Int, NEW b \in Int
  PROVE  k * (a + 1 - b) = k * (a - b) + k /\ k * (a + 1 - (b + 1)) = k * (a - b)
<1> DEFINE x == a - b
<1>1. x \in Int /\ a + 1 - b = x + 1 /\ a + 1 - (b + 1) = x
  OBVIOUS
<1> HIDE DEF x
<1>2. k * (x + 1) = k * x + k
  BY <1>1
<1> QED
  BY <1>1, <1>2 DEF x

LEMMA TriggerTInv ==
  ASSUME TInv, NEW c \in Chains, NEW off \in SUBSET Due(chain[c]), TriggerOf(c, off)
  PROVE  TInv'
<1> DEFINE ch == chain[c]
           d == chain'[c]
<1>1. /\ ch \in ChainType /\ MemOf(c) /\ blockState = "active" /\ blockState' = "active"
      /\ CountersOf(c) /\ TriggeesOf(c) /\ StepsOf(c) /\ StatsOf(c)
      /\ skipped' = skipped /\ skipped \in 0 .. W - 1 /\ n[c] \in Nat
  BY DEF TInv, Tables, TriggerOf, CountersOf
<1>2. /\ d \in ChainType
      /\ d.triggees = ch.triggees /\ d.mode = ch.mode /\ d.mem = ch.mem
      /\ d.skip = IF ch.skip > 0 THEN ch.skip - 1 ELSE 0
      /\ d.everyCnt = (ch.everyCnt + 1) % W
      /\ d.glob = IF Measures(ch) THEN ch.glob + 1 ELSE ch.glob
      /\ d.blk = IF Measures(ch) /\ ch.mode = PerBlock
                 THEN [i \in DOMAIN ch.blk |-> IF i \in Due(ch) THEN ch.blk[i] + 1 ELSE ch.blk[i]]
                 ELSE ch.blk
  <2> DEFINE x == Triggered(ch)
  <2>1. PICK o \in Nat : chain' = [chain EXCEPT ![c] = [x EXCEPT !.outIdx = o]]
    BY DEF TriggerOf
  <2>2. d = [x EXCEPT !.outIdx = o]
    BY <2>1 DEF TInv, Tables
  <2>3. x \in ChainType
    BY <1>1, TriggeredChain
  <2> HIDE DEF x, d
  <2>4. /\ d \in ChainType
        /\ d.triggees = x.triggees /\ d.mode = x.mode /\ d.mem = x.mem /\ d.skip = x.skip
        /\ d.everyCnt = x.everyCnt /\ d.glob = x.glob /\ d.blk = x.blk
    BY <2>2, <2>3 DEF ChainType
  <2> QED
    BY <1>1, <2>4, TriggeredChain DEF x
<1>3. /\ n'[c] = n[c] + 1
      /\ stepped'[c] = [i \in DOMAIN stepped[c] |->
           IF i \in Due(ch) \ off /\ ch.triggees[i].steps > 0
           THEN stepped[c][i] + ch.triggees[i].steps ELSE stepped[c][i]]
      /\ missed'[c] = [i \in DOMAIN missed[c] |->
           IF i \in off THEN missed[c][i] + 1 ELSE missed[c][i]]
  BY DEF TriggerOf, TInv, Tables
<1>4. ASSUME NEW k \in Chains \ {c}
      PROVE  /\ n'[k] = n[k] /\ chain'[k] = chain[k]
             /\ stepped'[k] = stepped[k] /\ missed'[k] = missed[k]
  BY DEF TriggerOf, TInv, Tables
<1>5. Tables'
  <2>1. chain' \in [Chains -> ChainType]
    BY <1>2 DEF TriggerOf, TInv, Tables
  <2> QED
    BY <2>1 DEF TriggerOf, TInv, Tables
<1>6. ASSUME NEW k \in Chains \ {c}
      PROVE  MemOf(k)' /\ CountersOf(k)' /\ TriggeesOf(k)' /\ StepsOf(k)' /\ StatsOf(k)'
  <2>1. MemOf(k) /\ CountersOf(k) /\ TriggeesOf(k) /\ StepsOf(k) /\ StatsOf(k)
    BY <1>1 DEF TInv
  <2>2. MemOf(k)' /\ CountersOf(k)' /\ TriggeesOf(k)'
    BY <1>1, <1>4, <2>1 DEF MemOf, CountersOf, TriggeesOf
  <2>3. \A i : Regular(k, i)' <=> Regular(k, i)
    BY <1>4 DEF Regular
  <2>4. StepsOf(k)'
    BY <1>4, <2>1, <2>3 DEF StepsOf
  <2>5. StatsOf(k)'
    BY <1>1, <1>4, <2>1, <2>3 DEF StatsOf
  <2> QED
    BY <2>2, <2>4, <2>5
<1> HIDE DEF ch, d
<1>7. MemOf(c)' /\ TriggeesOf(c)'
  BY <1>1, <1>2 DEF MemOf, TriggeesOf, ch, d
<1>8. CountersOf(c)'
  <2>1. ch.everyCnt = n[c] % W /\ ch.skip = IF n[c] < skipped THEN skipped - n[c] ELSE 0
    BY <1>1 DEF CountersOf, ch
  <2>2. d.everyCnt = (n[c] + 1) % W
    BY <1>1, <1>2, <2>1, CountIncrement
  <2>3. d.skip = IF n[c] + 1 < skipped THEN skipped - (n[c] + 1) ELSE 0
    BY <1>1, <1>2, <2>1
  <2> QED
    BY <1>1, <1>3, <2>2, <2>3 DEF CountersOf, d
<1>9. ASSUME NEW i \in DOMAIN ch.triggees
      PROVE  /\ ch.triggees[i] \in Triggee /\ ch.triggees[i].every \in Nat \ {0}
             /\ Regular(c, i)' => /\ Regular(c, i)
                                  /\ i \in Due(ch) <=> Steps(ch) /\ n[c] % ch.triggees[i].every = 0
  <2>1. ch.triggees[i] \in Triggee
    <3>1. ch.triggees \in Seq(Triggee)
      BY <1>1 DEF ChainType
    <3> QED
      BY <3>1
  <2>2. ch.triggees[i].every \in Nat \ {0}
    BY <1>1, <2>1 DEF TriggeesOf, Triggee, ch
  <2> DEFINE e == ch.triggees[i].every
  <2>3. Regular(c, i)' => Regular(c, i) /\ (W % e = 0 \/ n[c] < W)
    BY <1>1, <1>2, <1>3 DEF Regular, ch, d
  <2>4. i \in Due(ch) <=> Steps(ch) /\ ch.everyCnt % e = 0
    BY DEF Due
  <2>5. ch.everyCnt = n[c] % W
    BY <1>1 DEF CountersOf, ch
  <2> HIDE DEF e
  <2>6. W % e = 0 \/ n[c] < W => (n[c] % W) % e = n[c] % e
    BY <1>1, <2>2, CountRegular DEF e
  <2> QED
    BY <2>1, <2>2, <2>3, <2>4, <2>5, <2>6 DEF e
<1>10. StepsOf(c)'
  <2>1. DOMAIN stepped[c] = DOMAIN ch.triggees /\ DOMAIN missed[c] = DOMAIN ch.triggees
    BY <1>1 DEF StepsOf, ch
  <2>2. DOMAIN stepped'[c] = DOMAIN d.triggees /\ DOMAIN missed'[c] = DOMAIN d.triggees
    BY <1>2, <1>3, <2>1
  <2>3. ASSUME NEW i \in DOMAIN ch.triggees
        PROVE  LET t == ch.triggees[i] IN
               /\ stepped'[c][i] \in Int /\ missed'[c][i] \in Int
               /\ ch.mode \in Disabled .. PerBlock /\ Regular(c, i)' =>
                    stepped'[c][i] = (IF t.steps > 0 THEN t.steps ELSE 0)
                                       * (Multiples(0, n[c] + 1, t.every) - missed'[c][i])
    <3> DEFINE t == ch.triggees[i]
               k == IF t.steps > 0 THEN t.steps ELSE 0
               a == Multiples(0, n[c], t.every)
               b == missed[c][i]
    <3>1. stepped[c][i] \in Int /\ b \in Int /\ k \in Int /\ t.steps \in Int /\ t.every \in Nat \ {0}
      BY <1>1, <1>9 DEF StepsOf, Triggee, ch
    <3>2. /\ stepped'[c][i] = IF i \in Due(ch) \ off /\ t.steps > 0
                              THEN stepped[c][i] + t.steps ELSE stepped[c][i]
          /\ missed'[c][i] = IF i \in off THEN b + 1 ELSE b
      BY <1>3, <2>1
    <3>3. /\ a \in Nat
          /\ Multiples(0, n[c] + 1, t.every) = IF n[c] % t.every = 0 THEN a + 1 ELSE a
      <4>1. 0 \in Nat /\ 0 <= n[c]
        BY <1>1
      <4>2. t.every \in Nat \ {0}
        BY <3>1
      <4> HIDE DEF t
      <4>3. /\ a \in Nat
            /\ Multiples(0, n[c] + 1, t.every) = a + (IF 0 <= n[c] /\ n[c] % t.every = 0 THEN 1 ELSE 0)
        BY <1>1, <4>1, <4>2, MultiplesNext
      <4> HIDE DEF a
      <4> QED
        BY <4>1, <4>3
    <3>4. ASSUME ch.mode \in Disabled .. PerBlock, Regular(c, i)'
          PROVE  /\ stepped[c][i] = k * (a - b)
                 /\ i \in Due(ch) <=> n[c] % t.every = 0
      <4>1. Steps(ch)
        BY <3>4 DEF Steps, Disabled, Global, PerBlock
      <4> QED
        BY <1>1, <1>9, <3>4, <4>1 DEF StepsOf, ch
    <3>5. off \subseteq Due(ch)
      BY DEF ch
    <3>6. i \in Due(ch) \ off /\ t.steps > 0 => stepped'[c][i] = stepped[c][i] + k
      BY <3>2
    <3>7. ~(i \in Due(ch) \ off /\ t.steps > 0) => stepped'[c][i] = stepped[c][i]
      BY <3>2
    <3>8. ~(t.steps > 0) => k = 0
      OBVIOUS
    <3> HIDE DEF t, k, a, b
    <3>9. /\ k * (a + 1 - b) = k * (a - b) + k /\ k * (a + 1 - (b + 1)) = k * (a - b)
          /\ k * (a - b) \in Int
      BY <3>1, <3>3, Delivery
    <3>10. ASSUME ch.mode \in Disabled .. PerBlock, Regular(c, i)'
           PROVE  stepped'[c][i] = k * (Multiples(0, n[c] + 1, t.every) - missed'[c][i])
      <4>1. CASE i \in off
        <5>1. missed'[c][i] = b + 1 /\ Multiples(0, n[c] + 1, t.every) = a + 1
          BY <3>2, <3>3, <3>4, <3>5, <3>10, <4>1
        <5>2. stepped'[c][i] = k * (a - b)
          BY <3>4, <3>7, <3>10, <4>1
        <5>3. k * (Multiples(0, n[c] + 1, t.every) - missed'[c][i]) = k * (a + 1 - (b + 1))
          <6>1. Multiples(0, n[c] + 1, t.every) - missed'[c][i] = a + 1 - (b + 1)
            BY <1>1, <3>1, <3>3, <5>1
          <6> QED
            BY <6>1
        <5> QED
          BY <3>9, <5>2, <5>3
      <4>2. CASE i \in Due(ch) \ off
        BY <3>1, <3>2, <3>3, <3>4, <3>6, <3>7, <3>8, <3>9, <3>10, <4>2
      <4>3. CASE i \notin Due(ch)
        BY <3>2, <3>3, <3>4, <3>5, <3>7, <3>10, <4>3
      <4> QED
        BY <3>5, <4>1, <4>2, <4>3
    <3> QED
      BY <3>1, <3>2, <3>10 DEF t, k
  <2> QED
    BY <1>2, <1>3, <2>2, <2>3 DEF StepsOf, d
<1>11. StatsOf(c)'
  <2>1. ch.skip = IF n[c] < skipped THEN skipped - n[c] ELSE 0
    BY <1>1 DEF CountersOf, ch
  <2>2. ch.mode \in {Global, PerBlock} => (Measures(ch) <=> n[c] >= skipped)
    BY <1>1, <2>1 DEF Measures
  <2>3. ch.mode \in {Global, PerBlock} =>
          d.glob = IF n[c] + 1 > skipped THEN n[c] + 1 - skipped ELSE 0
    <3>1. ch.mode \in {Global, PerBlock} =>
            ch.glob = IF n[c] > skipped THEN n[c] - skipped ELSE 0
      BY <1>1 DEF StatsOf, ch
    <3> QED
      BY <1>1, <1>2, <2>2, <3>1
  <2>4. ASSUME ch.mode = PerBlock, NEW i \in DOMAIN ch.triggees, Regular(c, i)'
        PROVE  d.blk[i] = Multiples(skipped, n[c] + 1, ch.triggees[i].every)
    <3> DEFINE e == ch.triggees[i].every
               a == Multiples(skipped, n[c], e)
    <3>1. DOMAIN ch.blk = DOMAIN ch.triggees /\ ch.blk[i] = a
      BY <1>1, <1>9, <2>4 DEF StatsOf, ch
    <3>2. i \in Due(ch) <=> n[c] % e = 0
      BY <1>9, <2>4 DEF Steps
    <3>3. /\ a \in Nat
          /\ Multiples(skipped, n[c] + 1, e) = a + (IF skipped <= n[c] /\ n[c] % e = 0 THEN 1 ELSE 0)
      <4>1. skipped \in Nat /\ n[c] \in Nat /\ e \in Nat \ {0}
        BY <1>1, <1>9
      <4> HIDE DEF e
      <4> QED
        BY <4>1, MultiplesNext
    <3>4. Measures(ch) <=> n[c] >= skipped
      BY <2>2, <2>4
    <3> HIDE DEF a, e
    <3> QED
      BY <1>1, <1>2, <2>4, <3>1, <3>2, <3>3, <3>4 DEF e
  <2>5. ch.mode = PerBlock => DOMAIN d.blk = DOMAIN d.triggees
    BY <1>1, <1>2 DEF StatsOf, ch
  <2>6. n'[c] = n[c] + 1 /\ skipped' = skipped /\ d.mode = ch.mode /\ d.triggees = ch.triggees
    BY <1>1, <1>2, <1>3
  <2>7. /\ d.mode \in {Global, PerBlock} =>
             d.glob = IF n'[c] > skipped' THEN n'[c] - skipped' ELSE 0
        /\ d.mode = PerBlock =>
             /\ DOMAIN d.blk = DOMAIN d.triggees
             /\ \A i \in DOMAIN d.triggees : Regular(c, i)' =>
                  d.blk[i] = Multiples(skipped', n'[c], d.triggees[i].every)
    <3>1. d.mode \in {Global, PerBlock} => d.glob = IF n'[c] > skipped' THEN n'[c] - skipped' ELSE 0
      <4>1. n'[c] = n[c] + 1 /\ skipped' = skipped
        BY <2>6
      <4>2. d.mode \in {Global, PerBlock} => ch.mode \in {Global, PerBlock}
        BY <2>6
      <4> QED
        BY <1>1, <2>3, <4>1, <4>2
    <3>2. ASSUME d.mode = PerBlock, NEW i \in DOMAIN d.triggees, Regular(c, i)'
          PROVE  d.blk[i] = Multiples(skipped', n'[c], d.triggees[i].every)
      <4>1. i \in DOMAIN ch.triggees /\ ch.mode = PerBlock
        BY <2>6, <3>2
      <4>2. d.blk[i] = Multiples(skipped, n[c] + 1, ch.triggees[i].every)
        BY <2>4, <3>2, <4>1
      <4> QED
        BY <2>6, <4>2
    <3> QED
      BY <2>5, <2>6, <3>1, <3>2
  <2> QED
    BY <2>7 DEF StatsOf, Multiples, d
<1>12. skipped' \in 0 .. W - 1
  BY <1>1
<1> QED
  BY <1>5, <1>6, <1>7, <1>8, <1>10, <1>11, <1>12 DEF TInv

LEMMA TInvNext == ASSUME TInv, [Next]_vars PROVE TInv'
<1>1. CASE UNCHANGED vars
  BY <1>1 DEF vars, historyVars, TInv, Tables, MemOf, CountersOf, TriggeesOf, StepsOf, StatsOf, Regular
<1>2. CASE StepBlock
  BY <1>2, StepIsTrigger, TriggerTInv
<1> QED
  BY <1>1, <1>2, StartTInv, LeaveTInv DEF Next

-----------------------------------------------------------------------------
(* Divisors.                                                                *)

\* The divisors divide the number of values of every_cnt, as powers of two do.
DivisorsDivide ==
  \A l \in TriggeeLists : \A i \in DOMAIN l : l[i].every = 0 \/ W % l[i].every = 0

AllRegular ==
  blockState = "active" =>
    \A c \in Chains : \A i \in DOMAIN chain[c].triggees : W % chain[c].triggees[i].every = 0

LEMMA AllRegularNext ==
  ASSUME DivisorsDivide, TInv, AllRegular, [Next]_vars PROVE AllRegular'
<1>1. CASE UNCHANGED vars
  BY <1>1 DEF vars, AllRegular
<1>2. CASE InitBlock \/ StartFails \/ StopBlock \/ CleanupBlock
  BY <1>2 DEF InitBlock, StartFails, StopBlock, CleanupBlock, AllRegular
<1>3. CASE StartBlock
  <2>1. PICK lists \in [Chains -> TriggeeLists], m \in Modes, s \in Skips :
          chain' = [c \in Chains |->
                      Configure(chain[c], [triggees |-> lists[c], mode |-> m, skip |-> s])]
    BY <1>3 DEF StartBlock
  <2>2. ASSUME NEW c \in Chains, NEW i \in DOMAIN chain'[c].triggees
        PROVE  W % chain'[c].triggees[i].every = 0
    <3> DEFINE conf == [triggees |-> lists[c], mode |-> m, skip |-> s]
               t == lists[c][i]
    <3>1. conf \in Conf /\ conf.triggees = lists[c]
      BY ConfRead
    <3>2. chain[c] \in ChainType /\ chain'[c] = Configure(chain[c], conf)
      BY <2>1 DEF TInv, Tables
    <3> HIDE DEF conf
    <3>3. i \in DOMAIN lists[c] /\ chain'[c].triggees[i] = Defaulted(t)
      <4> DEFINE x == Configure(chain[c], conf)
      <4>1. x.triggees = [j \in DOMAIN conf.triggees |-> Defaulted(conf.triggees[j])]
        BY <3>1, <3>2, Configured
      <4>2. chain'[c] = x
        BY <3>2
      <4> HIDE DEF x
      <4> QED
        BY <2>2, <3>1, <4>1, <4>2
    <3>4. t \in Triggee /\ (t.every = 0 \/ W % t.every = 0)
      <4>1. lists[c] \in Seq(Triggee) /\ lists[c] \in TriggeeLists
        BY ConfRead
      <4>2. t \in Triggee
        BY <3>3, <4>1
      <4> QED
        BY <3>3, <4>1, <4>2 DEF DivisorsDivide
    <3> HIDE DEF t
    <3>5. Defaulted(t).every = IF t.every = 0 THEN 1 ELSE t.every
      BY <3>4 DEF Defaulted, Triggee
    <3>6. W % 1 = 0
      OBVIOUS
    <3> QED
      BY <3>3, <3>4, <3>5, <3>6
  <2> QED
    BY <2>2 DEF AllRegular
<1>4. CASE StepBlock
  <2>1. PICK c \in Chains : \E off \in SUBSET Due(chain[c]) : TriggerOf(c, off)
    BY <1>4, StepIsTrigger
  <2>2. PICK o \in Nat : chain' = [chain EXCEPT ![c] = [Triggered(chain[c]) EXCEPT !.outIdx = o]]
    BY <2>1 DEF TriggerOf
  <2>3. Triggered(chain[c]) \in ChainType /\ Triggered(chain[c]).triggees = chain[c].triggees
    BY TriggeredChain DEF TInv, Tables
  <2>4. \A k \in Chains : chain'[k].triggees = chain[k].triggees
    BY <2>2, <2>3 DEF TInv, Tables, ChainType
  <2>5. blockState = "active"
    BY <2>1 DEF TriggerOf
  <2> QED
    BY <2>4, <2>5 DEF AllRegular
<1> QED
  BY <1>1, <1>2, <1>3, <1>4 DEF Next

-----------------------------------------------------------------------------
(* Theorems.                                                                *)

\* A chain that may be triggered with per block statistics has a buffer for them,
\* and an inactive block holds none, also after a start whose realloc has failed
\* for one of the chains and after any number of restarts in other modes
\* (ubx_chain_init, ubx_chain_cleanup, common_cleanup).
THEOREM BufferWhileActiveHolds == Spec => []BufferWhileActive
<1>1. Init => TInv
  BY TInvInit
<1>2. TInv /\ [Next]_vars => TInv'
  BY TInvNext
<1>3. TInv => BufferWhileActive
  BY DEF TInv, MemOf, BufferWhileActive
<1> QED
  BY <1>1, <1>2, <1>3, PTL DEF Spec

\* A triggee has made num_steps steps at every every-th trigger of its chain at
\* which it was ACTIVE and none else, and the statistics count every trigger after
\* the first tstats_skip_first, whichever chains are triggered in between, as long
\* as every_cnt has not wrapped; for a divisor that divides 2^32 that does not
\* matter (ubx_chain_trigger).
THEOREM CountersFollowTriggers ==
  Spec => [](blockState = "active" => \A c \in Chains : StepsOf(c) /\ StatsOf(c))
<1>1. Init => TInv
  BY TInvInit
<1>2. TInv /\ [Next]_vars => TInv'
  BY TInvNext
<1>3. TInv => (blockState = "active" => \A c \in Chains : StepsOf(c) /\ StatsOf(c))
  BY DEF TInv
<1> QED
  BY <1>1, <1>2, <1>3, PTL DEF Spec

LEMMA RegularHolds == ASSUME DivisorsDivide PROVE Spec => [](TInv /\ AllRegular)
<1>1. Init => TInv /\ AllRegular
  BY TInvInit DEF Init, AllRegular
<1>2. TInv /\ AllRegular /\ [Next]_vars => (TInv /\ AllRegular)'
  BY TInvNext, AllRegularNext
<1> QED
  BY <1>1, <1>2, PTL DEF Spec

\* With such divisors the triggees get their steps for any number of triggers.
THEOREM StepsDeliveredHolds == ASSUME DivisorsDivide PROVE Spec => []StepsDelivered
<1>1. TInv /\ AllRegular => StepsDelivered
  BY DEF TInv, AllRegular, StepsOf, Regular, StepsDelivered
<1> QED
  BY <1>1, RegularHolds, PTL

\* ... and so do the statistics of the chain and of each block.
THEOREM StatsCountTriggersHolds == ASSUME DivisorsDivide PROVE Spec => []StatsCountTriggers
<1>1. TInv /\ AllRegular => StatsCountTriggers
  BY DEF TInv, AllRegular, StatsOf, Regular, StatsCountTriggers
<1> QED
  BY <1>1, RegularHolds, PTL

\* ... and each block is only triggered every every-th time: the counter in an
\* unsigned int stands for the number of triggers also after it has wrapped.
THEOREM EveryNthTimeHolds == ASSUME DivisorsDivide PROVE Spec => EveryNthTime
<1>1. TInv /\ AllRegular /\ [Next]_vars =>
        [\A c \in Chains :
           blockState = "active" /\ blockState' = "active" =>
             \A i \in DOMAIN stepped[c] :
               stepped'[c][i] # stepped[c][i] => n[c] % chain[c].triggees[i].every = 0]_vars
  <2> SUFFICES ASSUME TInv, AllRegular, Next, NEW k \in Chains,
                      blockState = "active", blockState' = "active",
                      NEW i \in DOMAIN stepped[k], stepped'[k][i] # stepped[k][i]
               PROVE  n[k] % chain[k].triggees[i].every = 0
    OBVIOUS
  <2>1. StepBlock
    BY DEF Next, InitBlock, StartBlock, StartFails, StopBlock, CleanupBlock
  <2>2. PICK c \in Chains : \E off \in SUBSET Due(chain[c]) : TriggerOf(c, off)
    BY <2>1, StepIsTrigger
  <2>3. PICK off \in SUBSET Due(chain[c]) : TriggerOf(c, off)
    BY <2>2
  <2>4. DOMAIN stepped = Chains
    BY DEF TInv, Tables
  <2>5. k = c
    BY <2>3, <2>4 DEF TriggerOf
  <2>6. i \in Due(chain[k])
    BY <2>3, <2>4, <2>5 DEF TriggerOf
  <2> DEFINE e == chain[k].triggees[i].every
  <2>7. i \in DOMAIN chain[k].triggees /\ chain[k].everyCnt % e = 0
    BY <2>6 DEF Due
  <2>8. CountersOf(k) /\ TriggeesOf(k) /\ chain[k] \in ChainType
    BY DEF TInv, Tables
  <2>9. chain[k].everyCnt = n[k] % W /\ n[k] \in Nat
    BY <2>8 DEF CountersOf
  <2>10. e \in Nat \ {0}
    <3>1. chain[k].triggees \in Seq(Triggee)
      BY <2>8 DEF ChainType
    <3>2. chain[k].triggees[i] \in Triggee
      BY <2>7, <3>1
    <3> QED
      BY <2>7, <2>8, <3>2 DEF TriggeesOf, Triggee
  <2>11. W % e = 0
    BY <2>7 DEF AllRegular
  <2> HIDE DEF e
  <2>12. (n[k] % W) % e = n[k] % e
    BY <2>9, <2>10, <2>11, ChainAssumption, CountRegular
  <2> QED
    BY <2>7, <2>9, <2>12 DEF e
<1> QED
  BY <1>1, RegularHolds, PTL DEF Spec, EveryNthTime

-----------------------------------------------------------------------------
(* The throttled output of the statistics.                                  *)

\* o[i] outputs of the records 0 .. last with record k the next: the records
\* before k have been output once more than the ones from k on, and the last
\* one is never before k.
Rotated(o, k, last) ==
  k \in 0 .. last /\ \A i \in 0 .. last : o[i] = o[last] + (IF i < k THEN 1 ELSE 0)

RotationOf(c) ==
  /\ Len(chain[c].triggees) \in Nat
  /\ outs[c] \in [0 .. Len(chain[c].triggees) -> Nat]
  /\ chain[c].mode = PerBlock =>
       Rotated(outs[c], chain[c].outIdx, Len(chain[c].triggees))

Rotation ==
  /\ DOMAIN outs = Chains
  /\ blockState = "active" => \A c \in Chains : RotationOf(c)

\* One more output of the next record, and the one after it is the next.
LEMMA RotatedNext ==
  ASSUME NEW last \in Nat, NEW o \in [0 .. last -> Nat], NEW k, Rotated(o, k, last)
  PROVE  Rotated([o EXCEPT ![k] = @ + 1], (k + 1) % (last + 1), last)
<1> DEFINE p == [o EXCEPT ![k] = @ + 1]
<1>1. k \in 0 .. last /\ last \in 0 .. last /\ o[last] \in Nat
  BY DEF Rotated
<1>2. \A i \in 0 .. last : o[i] = o[last] + (IF i < k THEN 1 ELSE 0)
  BY DEF Rotated
<1>3. \A i \in 0 .. last : p[i] = IF i = k THEN o[i] + 1 ELSE o[i]
  BY <1>1
<1> HIDE DEF p
<1>4. CASE k < last
  <2>1. (k + 1) % (last + 1) = k + 1
    <3> DEFINE a == k + 1
               b == last + 1
    <3>1. a \in Nat /\ b \in Nat \ {0} /\ a < b
      BY <1>1, <1>4
    <3> HIDE DEF a, b
    <3>2. a % b = a
      BY <3>1
    <3> QED
      BY <3>2 DEF a, b
  <2>2. p[last] = o[last]
    BY <1>1, <1>3, <1>4
  <2>3. ASSUME NEW i \in 0 .. last
        PROVE  p[i] = p[last] + (IF i < k + 1 THEN 1 ELSE 0)
    <3>1. o[i] = o[last] + (IF i < k THEN 1 ELSE 0)
      BY <1>2
    <3> QED
      BY <1>1, <1>3, <2>2, <3>1
  <2>4. k + 1 \in 0 .. last
    BY <1>1, <1>4
  <2> QED
    BY <2>1, <2>3, <2>4 DEF Rotated, p
<1>5. CASE k = last
  <2>1. (k + 1) % (last + 1) = 0
    BY <1>5
  <2>2. p[last] = o[last] + 1
    BY <1>1, <1>3, <1>5
  <2>3. ASSUME NEW i \in 0 .. last
        PROVE  p[i] = p[last] + (IF i < 0 THEN 1 ELSE 0)
    <3>1. o[i] = o[last] + (IF i < k THEN 1 ELSE 0)
      BY <1>2
    <3> QED
      BY <1>1, <1>3, <1>5, <2>2, <3>1
  <2> QED
    BY <2>1, <2>3 DEF Rotated, p
<1> QED
  BY <1>1, <1>4, <1>5

LEMMA StepRotation == ASSUME TInv, Rotation, StepBlock PROVE Rotation'
<1>1. PICK c \in Chains :
        \/ chain' = [chain EXCEPT ![c] = Triggered(chain[c])] /\ outs' = outs
        \/ /\ Measures(chain[c])
           /\ chain' = [chain EXCEPT ![c] =
                [Triggered(chain[c]) EXCEPT !.outIdx = NextOutput(chain[c])]]
           /\ outs' = [outs EXCEPT ![c][OutputRecord(chain[c])] = @ + 1]
  BY DEF StepBlock
<1>2. /\ DOMAIN outs' = Chains
      /\ \A k \in Chains \ {c} : chain'[k] = chain[k] /\ outs'[k] = outs[k]
      /\ blockState = "active"
  <2>1. chain \in [Chains -> ChainType] /\ DOMAIN chain = Chains /\ DOMAIN outs = Chains
    BY DEF TInv, Tables, Rotation
  <2>2. blockState = "active"
    BY DEF StepBlock
  <2>3. DOMAIN outs' = Chains /\ \A k \in Chains \ {c} : outs'[k] = outs[k]
    BY <1>1, <2>1
  <2>4. \A k \in Chains \ {c} : chain'[k] = chain[k]
    BY <1>1, <2>1
  <2> QED
    BY <2>2, <2>3, <2>4
<1>3. ASSUME NEW k \in Chains \ {c} PROVE RotationOf(k)'
  BY <1>2, <1>3 DEF Rotation, RotationOf
<1>4. RotationOf(c)'
  <2> DEFINE ch == chain[c]
             x == Triggered(ch)
             last == Len(ch.triggees)
             o == outs[c]
  <2>1. ch \in ChainType /\ RotationOf(c)
    BY <1>2 DEF TInv, Tables, Rotation
  <2>2. /\ last \in Nat /\ o \in [0 .. last -> Nat]
        /\ ch.mode = PerBlock => Rotated(o, ch.outIdx, last)
    BY <2>1 DEF RotationOf
  <2>3. x \in ChainType /\ x.triggees = ch.triggees /\ x.mode = ch.mode
    BY <2>1, TriggeredChain
  <2>4. x.outIdx = ch.outIdx
    BY <2>1 DEF ChainType, Triggered
  <2>5. CASE chain' = [chain EXCEPT ![c] = x] /\ outs' = outs
    <3>1. chain'[c] = x /\ outs'[c] = o
      BY <2>5 DEF TInv, Tables
    <3> HIDE DEF x, o
    <3> QED
      BY <2>2, <2>3, <2>4, <3>1 DEF RotationOf
  <2>6. CASE /\ chain' = [chain EXCEPT ![c] = [x EXCEPT !.outIdx = NextOutput(ch)]]
             /\ outs' = [outs EXCEPT ![c][OutputRecord(ch)] = @ + 1]
    <3>1. /\ chain'[c] = [x EXCEPT !.outIdx = NextOutput(ch)]
          /\ outs'[c] = [o EXCEPT ![OutputRecord(ch)] = @ + 1]
      BY <2>6 DEF TInv, Tables, Rotation
    <3> HIDE DEF x, o
    <3>2. /\ chain'[c].triggees = ch.triggees /\ chain'[c].mode = ch.mode
          /\ chain'[c].outIdx = NextOutput(ch)
      BY <2>3, <3>1 DEF ChainType
    <3>3. outs'[c] \in [0 .. last -> Nat]
      <4>1. OutputRecord(ch) \in 0 .. last
        BY <2>2 DEF OutputRecord, WholeChain, Rotated
      <4> QED
        BY <2>2, <3>1, <4>1
    <3>4. ch.mode = PerBlock => Rotated(outs'[c], NextOutput(ch), last)
      <4>1. ch.mode = PerBlock =>
              /\ NextOutput(ch) = (ch.outIdx + 1) % (last + 1)
              /\ OutputRecord(ch) = ch.outIdx
        BY DEF NextOutput, OutputRecord
      <4> HIDE DEF last
      <4>2. ASSUME ch.mode = PerBlock
            PROVE  Rotated([o EXCEPT ![ch.outIdx] = @ + 1], (ch.outIdx + 1) % (last + 1), last)
        <5>1. last \in Nat /\ o \in [0 .. last -> Nat] /\ Rotated(o, ch.outIdx, last)
          BY <2>2, <4>2
        <5> QED
          BY <5>1, RotatedNext
      <4> QED
        BY <3>1, <4>1, <4>2
    <3> QED
      BY <2>2, <3>2, <3>3, <3>4 DEF RotationOf
  <2> QED
    BY <1>1, <2>5, <2>6
<1> QED
  BY <1>2, <1>3, <1>4 DEF Rotation

LEMMA StartRotation == ASSUME TInv, StartBlock PROVE Rotation'
<1>1. PICK lists \in [Chains -> TriggeeLists], m \in Modes, s \in Skips :
        /\ chain' = [c \in Chains |->
                      Configure(chain[c], [triggees |-> lists[c], mode |-> m, skip |-> s])]
        /\ outs' = [c \in Chains |-> [i \in 0 .. Len(lists[c]) |-> 0]]
  BY DEF StartBlock
<1>2. ASSUME NEW c \in Chains PROVE RotationOf(c)'
  <2> DEFINE conf == [triggees |-> lists[c], mode |-> m, skip |-> s]
             x == Configure(chain[c], conf)
             l == Len(lists[c])
  <2>1. conf \in Conf /\ lists[c] \in Seq(Triggee) /\ chain[c] \in ChainType
    BY ConfRead DEF TInv, Tables
  <2>2. l \in Nat /\ DOMAIN lists[c] = 1 .. l
    BY <2>1
  <2>3. chain'[c] = x /\ outs'[c] = [i \in 0 .. l |-> 0]
    BY <1>1
  <2>4. x \in ChainType /\ DOMAIN x.triggees = DOMAIN lists[c]
    <3>1. conf.triggees = lists[c]
      OBVIOUS
    <3> HIDE DEF conf
    <3>2. x \in ChainType /\ DOMAIN x.triggees = DOMAIN conf.triggees
      BY <2>1, Configured
    <3> QED
      BY <3>1, <3>2
  <2>5. x.outIdx = 0
    BY <2>1 DEF ChainType, Configure
  <2> HIDE DEF x, l
  <2>6. Len(x.triggees) = l
    <3>1. x.triggees \in Seq(Triggee)
      BY <2>4 DEF ChainType
    <3> QED
      BY <2>2, <2>4, <3>1
  <2>7. Rotated([i \in 0 .. l |-> 0], 0, l)
    BY <2>2 DEF Rotated
  <2> QED
    BY <2>2, <2>3, <2>5, <2>6, <2>7 DEF RotationOf
<1> QED
  BY <1>1, <1>2 DEF Rotation

\* Of the records of a chain none is output twice more than another, for any
\* number of triggees and of triggers, on whichever triggers the interval has
\* passed and however the trigger switches between its chains
\* (tstats_output_throttled).
THEOREM OutputRotatesHolds == Spec => []OutputRotates
<1>1. Init => Rotation
  BY DEF Init, Rotation, None
<1>2. TInv /\ Rotation /\ [Next]_vars => Rotation'
  <2> SUFFICES ASSUME TInv, Rotation, [Next]_vars PROVE Rotation'
    OBVIOUS
  <2>1. CASE InitBlock \/ StartFails \/ CleanupBlock
    BY <2>1 DEF InitBlock, StartFails, CleanupBlock, historyVars, Rotation
  <2>2. CASE StopBlock
    BY <2>2 DEF StopBlock, Rotation, None
  <2>3. CASE UNCHANGED vars
    BY <2>3 DEF vars, historyVars, Rotation, RotationOf
  <2> QED
    BY <2>1, <2>2, <2>3, StepRotation, StartRotation DEF Next
<1>3. Rotation => OutputRotates
  <2> SUFFICES ASSUME Rotation, blockState = "active", NEW c \in Chains,
                      chain[c].mode = PerBlock,
                      NEW i \in DOMAIN outs[c], NEW j \in DOMAIN outs[c]
               PROVE  outs[c][i] <= outs[c][j] + 1
    BY DEF OutputRotates
  <2> DEFINE last == Len(chain[c].triggees)
             o == outs[c]
  <2>1. last \in Nat /\ o \in [0 .. last -> Nat] /\ Rotated(o, chain[c].outIdx, last)
    BY DEF Rotation, RotationOf
  <2> HIDE DEF last
  <2>2. i \in 0 .. last /\ j \in 0 .. last /\ last \in 0 .. last
    BY <2>1
  <2> HIDE DEF o
  <2>3. /\ o[last] \in Nat /\ o[i] \in {o[last], o[last] + 1}
        /\ o[j] \in {o[last], o[last] + 1}
    BY <2>1, <2>2 DEF Rotated
  <2>4. o[i] <= o[j] + 1
    BY <2>3
  <2> QED
    BY <2>4 DEF o
<1>4. Init => TInv
  BY TInvInit
<1>5. TInv /\ [Next]_vars => TInv'
  BY TInvNext
<1> QED
  BY <1>1, <1>2, <1>3, <1>4, <1>5, PTL DEF Spec

=============================================================================
