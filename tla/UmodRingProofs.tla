---------------------------- MODULE UmodRingProofs ----------------------------
(* Theorems about UmodRing, for any buffer size, any width of the indices    *)
(* that is a multiple of it, any words of an event, any number of events and *)
(* either order of the loads.                                                *)
EXTENDS UmodRing, Integers, TLAPS

LEMMA WiderInterval ==
  ASSUME NEW r \in Nat, NEW m \in Nat, NEW n \in Nat, m <= n
  PROVE  (r + 1)..(m + 1) \subseteq (r + 1)..(n + 1)
OBVIOUS

USE SizeAssumption, IdxModAssumption, WordsAssumption, SinkAssumption, BoundsAssumption

------------------------------------------------------------------------------
(* Remainders.                                                              *)

LEMMA Division ==
  ASSUME NEW S \in Nat \ {0}, NEW x \in Nat
  PROVE  x = S * (x \div S) + (x % S) /\ x \div S \in Nat /\ x % S \in 0..(S - 1)
OBVIOUS

LEMMA Multiples ==
  ASSUME NEW S \in Nat \ {0}, NEW q \in Int
  PROVE  (q >= 1 => S * q >= S) /\ (q <= 0 => S * q <= 0)
OBVIOUS

\* Less than one turn in one step.
LEMMA SmallRemainder ==
  ASSUME NEW S \in Nat \ {0}, NEW x \in 0..(2 * S - 1)
  PROVE  x % S = IF x < S THEN x ELSE x - S
<1>1. x < S => x % S = x
  OBVIOUS
<1>2. x >= S => x % S = x - S
  OBVIOUS
<1> QED
  BY <1>1, <1>2

LEMMA RemainderOfSum ==
  ASSUME NEW S \in Nat \ {0}, NEW q \in Nat, NEW r \in 0..(S - 1)
  PROVE  (S * q + r) % S = r
<1> DEFINE x == S * q + r
           p == x \div S
<1>1. x \in Nat
  OBVIOUS
<1>2. x = S * p + (x % S) /\ p \in Nat /\ x % S \in 0..(S - 1)
  BY <1>1, Division
<1> HIDE DEF p
<1>3. S * q - S * p = S * (q - p) /\ S * p - S * q = S * (p - q)
  BY <1>2
<1>4. (q - p >= 1 => S * (q - p) >= S) /\ (p - q >= 1 => S * (p - q) >= S)
  BY <1>2, Multiples
<1>5. S * q \in Int /\ S * p \in Int
  BY <1>2
<1>6. q = p
  BY <1>2, <1>3, <1>4, <1>5
<1> QED
  BY <1>2, <1>5, <1>6

LEMMA NextRemainder ==
  ASSUME NEW S \in Nat \ {0}, NEW x \in Nat
  PROVE  (x + 1) % S = IF (x % S) + 1 = S THEN 0 ELSE (x % S) + 1
<1> DEFINE q == x \div S
<1>1. x = S * q + (x % S) /\ q \in Nat /\ x % S \in 0..(S - 1)
  BY Division
<1> HIDE DEF q
<1>2. CASE (x % S) + 1 = S
  <2>1. x + 1 = S * (q + 1) + 0
    BY <1>1, <1>2
  <2>2. (S * (q + 1) + 0) % S = 0
    BY <1>1, RemainderOfSum
  <2> QED
    BY <1>2, <2>1, <2>2
<1>3. CASE (x % S) + 1 # S
  <2>1. x + 1 = S * q + ((x % S) + 1) /\ (x % S) + 1 \in 0..(S - 1)
    BY <1>1, <1>3
  <2>2. (S * q + ((x % S) + 1)) % S = (x % S) + 1
    BY <1>1, <2>1, RemainderOfSum
  <2> QED
    BY <1>3, <2>1, <2>2
<1> QED
  BY <1>2, <1>3

\* Numbers less than Size apart have different slots.
LEMMA OwnSlots ==
  ASSUME NEW S \in Nat \ {0}, NEW a \in Nat, NEW b \in Nat, a < b, b < a + S
  PROVE  a % S # b % S
<1> DEFINE p == a \div S
           q == b \div S
<1>1. /\ a = S * p + (a % S) /\ p \in Nat /\ a % S \in 0..(S - 1)
      /\ b = S * q + (b % S) /\ q \in Nat /\ b % S \in 0..(S - 1)
  BY Division
<1> HIDE DEF p, q
<1>2. S * q - S * p = S * (q - p)
  BY <1>1
<1>3. (q - p >= 1 => S * (q - p) >= S) /\ (q - p <= 0 => S * (q - p) <= 0)
  BY <1>1, Multiples
<1>4. SUFFICES ASSUME a % S = b % S
               PROVE  FALSE
  OBVIOUS
<1>5. S * q \in Int /\ S * p \in Int /\ b - a = S * q - S * p
  BY <1>1, <1>4
<1> QED
  BY <1>1, <1>2, <1>3, <1>5

\* The slot of an index is the slot of what it stands for, across its wrap.
LEMMA SlotOfNext ==
  ASSUME NEW idx \in 0..(IdxMod - 1), NEW n \in Nat, idx % Size = n % Size
  PROVE  ((idx + 1) % IdxMod) % Size = (n + 1) % Size
<1>0. idx \in Nat /\ idx + 1 \in 0..(2 * IdxMod - 1) /\ idx + 1 <= IdxMod
  OBVIOUS
<1>1. (idx + 1) % Size = (n + 1) % Size
  <2>1. (idx + 1) % Size = IF (idx % Size) + 1 = Size THEN 0 ELSE (idx % Size) + 1
    BY <1>0, NextRemainder
  <2>2. (n + 1) % Size = IF (n % Size) + 1 = Size THEN 0 ELSE (n % Size) + 1
    BY NextRemainder
  <2> QED
    BY <2>1, <2>2
<1>2. (idx + 1) % IdxMod = IF idx + 1 < IdxMod THEN idx + 1 ELSE 0
  <2>1. (idx + 1) % IdxMod = IF idx + 1 < IdxMod THEN idx + 1 ELSE idx + 1 - IdxMod
    <3>1. IdxMod \in Nat \ {0}
      OBVIOUS
    <3>2. \A x \in 0..(2 * IdxMod - 1) : x % IdxMod = IF x < IdxMod THEN x ELSE x - IdxMod
      BY <3>1, SmallRemainder
    <3> QED
      BY <1>0, <3>2
  <2> QED
    BY <1>0, <2>1
<1>3. 0 % Size = 0 /\ IdxMod % Size = 0
  BY SmallRemainder
<1>4. CASE idx + 1 < IdxMod
  BY <1>1, <1>2, <1>4
<1>5. CASE ~(idx + 1 < IdxMod)
  BY <1>0, <1>1, <1>2, <1>3, <1>5
<1> QED
  BY <1>4, <1>5

------------------------------------------------------------------------------
(* Steps of the reader, by what they do to the indices.                     *)

\* It neither moves nor loads.
ReaderStays ==
  LoopTop \/ Open \/ WaitReturns \/ WaitTimesOut \/ WaitFails \/ ReadNothing
    \/ ReadBegin \/ Recheck \/ HandleEvent

\* It jumps to the writer.
ReaderJumps == StartFlush \/ ResetFlush \/ ReadOverrun

LEMMA NextCases ==
  ASSUME [Next]_vars
  PROVE  \/ \E w \in Words : StoreWord(w)
         \/ Publish \/ SetFlag
         \/ ReaderStays \/ ReaderJumps \/ Commit
         \/ \E w \in Words : LoadWord(w)
         \/ UNCHANGED vars
BY DEF Next, Producer, Thread, ReaderStays, ReaderJumps

LEMMA ReaderStaysPut ==
  ASSUME ReaderStays
  PROVE  UNCHANGED <<producer, read_idx, copy, event, R>>
BY DEF ReaderStays, LoopTop, Open, WaitReturns, WaitTimesOut, WaitFails, ReadNothing,
   ReadBegin, Recheck, HandleEvent

LEMMA ReaderJumpsTo ==
  ASSUME ReaderJumps
  PROVE  /\ read_idx' = write_idx /\ R' = W
         /\ UNCHANGED <<producer, copy, event, flag>>
         /\ pc' \in {"top", "fetch", "reset"}
BY DEF ReaderJumps, StartFlush, ResetFlush, ReadOverrun, FlushTo, JumpToWriter

------------------------------------------------------------------------------
(* Types.                                                                   *)

LEMMA TypeInit == Init => TypeOK
<1> SUFFICES ASSUME Init
             PROVE  TypeOK
  OBVIOUS
<1>1. NoEvent \in Event
  BY DEF NoEvent, Event
<1>2. ring \in [SlotNos -> Event]
  BY <1>1 DEF Init
<1>3. write_idx \in 0..(IdxMod - 1) /\ read_idx \in 0..(IdxMod - 1) /\ W \in Nat /\ R \in Nat
  BY DEF Init
<1>4. copy \in Event /\ event \in Event
  BY <1>1 DEF Init
<1> QED
  BY <1>2, <1>3, <1>4 DEF Init, TypeOK, Results, PcLabels

LEMMA TypeNext == TypeOK /\ [Next]_vars => TypeOK'
<1> SUFFICES ASSUME TypeOK, [Next]_vars
             PROVE  TypeOK'
  OBVIOUS
<1> USE DEF TypeOK
<1>1. ASSUME NEW w \in Words, StoreWord(w)
      PROVE  TypeOK'
  <2>1. write_idx % Size \in SlotNos
    BY Division DEF SlotNos
  <2>2. W + 1 \in 0..MaxEvents
    BY <1>1 DEF StoreWord
  <2>3. ring' \in [SlotNos -> Event]
    BY <1>1, <2>1, <2>2 DEF StoreWord, Event
  <2>4. stored' \subseteq Words
    BY <1>1 DEF StoreWord
  <2> QED
    BY <1>1, <2>3, <2>4 DEF StoreWord, consumer
<1>2. CASE Publish
  <2>1. write_idx' \in 0..(IdxMod - 1)
    BY <1>2, Division DEF Publish
  <2> QED
    BY <1>2, <2>1 DEF Publish, consumer
<1>3. CASE SetFlag
  BY <1>3 DEF SetFlag, consumer
<1>4. CASE ReaderStays
  <2>1. pc' \in PcLabels
    BY <1>4 DEF ReaderStays, LoopTop, Open, WaitReturns, WaitTimesOut, WaitFails,
         ReadNothing, ReadBegin, Recheck, HandleEvent, PcLabels
  <2>2. flag' \in BOOLEAN
    BY <1>4 DEF ReaderStays, LoopTop, Open, WaitReturns, WaitTimesOut, WaitFails,
         ReadNothing, ReadBegin, Recheck, HandleEvent
  <2>3. loaded' \subseteq Words /\ result' \in Results
    BY <1>4 DEF ReaderStays, LoopTop, Open, WaitReturns, WaitTimesOut, WaitFails,
         ReadNothing, ReadBegin, Recheck, HandleEvent, Results
  <2> QED
    BY <1>4, <2>1, <2>2, <2>3, ReaderStaysPut DEF producer
<1>5. CASE ReaderJumps
  <2>1. pc' \in PcLabels /\ loaded' \subseteq Words /\ result' \in Results
    BY <1>5 DEF ReaderJumps, StartFlush, ResetFlush, ReadOverrun, FlushTo, PcLabels, Results
  <2> QED
    BY <1>5, <2>1, ReaderJumpsTo DEF producer
<1>6. CASE Commit
  <2>1. read_idx' \in 0..(IdxMod - 1) /\ R' \in Nat
    BY <1>6, Division DEF Commit
  <2>2. pc' \in PcLabels /\ event' \in Event /\ result' \in Results
    BY <1>6 DEF Commit, PcLabels, Results
  <2> QED
    BY <1>6, <2>1, <2>2 DEF Commit, producer
<1>7. ASSUME NEW w \in Words, LoadWord(w)
      PROVE  TypeOK'
  <2>1. read_idx % Size \in SlotNos
    BY Division DEF SlotNos
  <2>2. copy' \in Event
    BY <1>7, <2>1 DEF LoadWord, Event
  <2>3. loaded' \subseteq Words
    BY <1>7 DEF LoadWord
  <2> QED
    BY <1>7, <2>2, <2>3 DEF LoadWord, producer
<1>8. CASE UNCHANGED vars
  BY <1>8 DEF vars, producer, consumer
<1> QED
  BY <1>1, <1>2, <1>3, <1>4, <1>5, <1>6, <1>7, <1>8, NextCases

\* Indices, slots and words keep their types.
THEOREM TypeCorrect == Spec => []TypeOK
<1> QED
  BY TypeInit, TypeNext, PTL DEF Spec

------------------------------------------------------------------------------
(* Indices and what they stand for.                                         *)

\* The reader is behind the writer, by less than one turn of the indices.
LagInv ==
  /\ R <= W /\ W - R <= MaxLag
  /\ stored # {} => W - R < MaxLag
  /\ pc \in {"copy", "commit"} => R < W

\* The indices differ as what they stand for does, up to one turn, and select
\* the same slots.
IdxInv ==
  /\ W - R = write_idx - read_idx \/ W - R = write_idx - read_idx + IdxMod
  /\ write_idx % Size = W % Size /\ read_idx % Size = R % Size

LEMMA DeltaIsLag ==
  ASSUME TypeOK, LagInv, IdxInv
  PROVE  /\ Delta = W - R
         /\ read_idx = write_idx <=> R = W
<1>1. IdxMod \in Nat \ {0} /\ W - R < IdxMod
  BY DEF TypeOK, LagInv
<1>2. write_idx + IdxMod - read_idx \in 0..(2 * IdxMod - 1)
  BY <1>1 DEF TypeOK
<1>3. \A x \in 0..(2 * IdxMod - 1) : x % IdxMod = IF x < IdxMod THEN x ELSE x - IdxMod
  BY <1>1, SmallRemainder
<1>4. Delta = IF write_idx + IdxMod - read_idx < IdxMod
              THEN write_idx + IdxMod - read_idx ELSE write_idx - read_idx
  BY <1>1, <1>2, <1>3 DEF Delta, TypeOK
<1> QED
  BY <1>1, <1>4 DEF TypeOK, LagInv, IdxInv

LEMMA IdxInit == Init => LagInv /\ IdxInv
BY DEF Init, LagInv, IdxInv

LEMMA IdxNext ==
  TypeOK /\ LagInv /\ IdxInv /\ [Next]_vars => LagInv' /\ IdxInv'
<1> SUFFICES ASSUME TypeOK, LagInv, IdxInv, [Next]_vars
             PROVE  LagInv' /\ IdxInv'
  OBVIOUS
<1>0. \A x \in 0..(2 * IdxMod - 1) : x % IdxMod = IF x < IdxMod THEN x ELSE x - IdxMod
  <2>1. IdxMod \in Nat \ {0}
    OBVIOUS
  <2> QED
    BY <2>1, SmallRemainder
<1>1. ASSUME NEW w \in Words, StoreWord(w)
      PROVE  LagInv' /\ IdxInv'
  BY <1>1 DEF StoreWord, consumer, LagInv, IdxInv
<1>2. CASE Publish
  <2>1. write_idx' = IF write_idx + 1 < IdxMod THEN write_idx + 1 ELSE write_idx + 1 - IdxMod
    BY <1>0, <1>2 DEF Publish, TypeOK
  <2>2. W' = W + 1 /\ UNCHANGED <<read_idx, R, pc>> /\ stored # {} /\ stored' = {}
    BY <1>2 DEF Publish, consumer
  <2>3. LagInv'
    BY <2>2 DEF LagInv, TypeOK
  <2>4. write_idx' % Size = W' % Size
    <3>1. write_idx \in 0..(IdxMod - 1) /\ W \in Nat /\ write_idx % Size = W % Size
      BY DEF TypeOK, IdxInv
    <3>2. ((write_idx + 1) % IdxMod) % Size = (W + 1) % Size
      BY <3>1, SlotOfNext
    <3> QED
      BY <1>2, <3>2 DEF Publish
  <2>5. \/ W' - R' = write_idx' - read_idx'
        \/ W' - R' = write_idx' - read_idx' + IdxMod
    BY <2>1, <2>2, <2>3 DEF IdxInv, TypeOK, LagInv
  <2> QED
    BY <2>2, <2>3, <2>4, <2>5 DEF IdxInv
<1>3. CASE SetFlag
  BY <1>3 DEF SetFlag, consumer, LagInv, IdxInv
<1>4. CASE ReaderStays
  <2>1. pc' \in {"copy", "commit"} => R < W
    <3>1. CASE ReadBegin
      BY <3>1, DeltaIsLag DEF ReadBegin, LagInv, TypeOK
    <3>2. CASE Recheck
      BY <3>2 DEF Recheck, LagInv
    <3> QED
      BY <1>4, <3>1, <3>2 DEF ReaderStays, LoopTop, Open, WaitReturns, WaitTimesOut,
           WaitFails, ReadNothing, HandleEvent
  <2> QED
    BY <1>4, <2>1, ReaderStaysPut DEF producer, LagInv, IdxInv
<1>5. CASE ReaderJumps
  BY <1>5, ReaderJumpsTo DEF producer, LagInv, IdxInv, TypeOK
<1>6. CASE Commit
  <2>1. read_idx' = IF read_idx + 1 < IdxMod THEN read_idx + 1 ELSE read_idx + 1 - IdxMod
    BY <1>0, <1>6 DEF Commit, TypeOK
  <2>2. /\ R' = R + 1 /\ R < W /\ pc' \notin {"copy", "commit"}
        /\ UNCHANGED <<write_idx, W, stored>>
    BY <1>6 DEF Commit, producer, LagInv
  <2>3. LagInv'
    BY <2>2 DEF LagInv, TypeOK
  <2>4. read_idx' % Size = R' % Size
    <3>1. read_idx \in 0..(IdxMod - 1) /\ R \in Nat /\ read_idx % Size = R % Size
      BY DEF TypeOK, IdxInv
    <3>2. ((read_idx + 1) % IdxMod) % Size = (R + 1) % Size
      BY <3>1, SlotOfNext
    <3> QED
      BY <1>6, <3>2 DEF Commit
  <2>5. \/ W' - R' = write_idx' - read_idx'
        \/ W' - R' = write_idx' - read_idx' + IdxMod
    BY <2>1, <2>2, <2>3 DEF IdxInv, TypeOK, LagInv
  <2> QED
    BY <2>2, <2>3, <2>4, <2>5 DEF IdxInv
<1>7. ASSUME NEW w \in Words, LoadWord(w)
      PROVE  LagInv' /\ IdxInv'
  BY <1>7 DEF LoadWord, producer, LagInv, IdxInv
<1>8. CASE UNCHANGED vars
  BY <1>8 DEF vars, producer, consumer, LagInv, IdxInv
<1> QED
  BY <1>1, <1>2, <1>3, <1>4, <1>5, <1>6, <1>7, <1>8, NextCases

------------------------------------------------------------------------------
(* The signal.                                                              *)

\* The reader is on its way to the wait, or in it, without a signal, though
\* events are there, only for the reasons NoLostWakeup allows.
WakeInv ==
  pc \in {"top", "wait"} /\ R # W /\ ~flag =>
    ppc = "signal" \/ ~signalled \/ result = "FAULT"

LEMMA WakeNext ==
  TypeOK /\ LagInv /\ IdxInv /\ WakeInv /\ [Next]_vars => WakeInv'
<1> SUFFICES ASSUME TypeOK, LagInv, IdxInv, WakeInv, [Next]_vars
             PROVE  WakeInv'
  OBVIOUS
<1> USE DEF WakeInv
<1>1. ASSUME NEW w \in Words, StoreWord(w)
      PROVE  WakeInv'
  BY <1>1 DEF StoreWord, consumer
<1>2. CASE Publish
  BY <1>2 DEF Publish, consumer
<1>3. CASE SetFlag
  BY <1>3 DEF SetFlag, consumer
<1>4. CASE ReadNothing
  BY <1>4, DeltaIsLag DEF ReadNothing, producer
<1>5. CASE LoopTop
  BY <1>5 DEF LoopTop, producer
<1>6. CASE ReaderStays /\ pc' \notin {"top", "wait"}
  BY <1>6
<1>7. CASE ReaderJumps
  BY <1>7, ReaderJumpsTo DEF producer
<1>8. CASE Commit
  BY <1>8 DEF Commit
<1>9. ASSUME NEW w \in Words, LoadWord(w)
      PROVE  WakeInv'
  BY <1>9 DEF LoadWord, producer
<1>10. CASE UNCHANGED vars
  BY <1>10 DEF vars, producer, consumer
<1>11. ReaderStays => ReadNothing \/ LoopTop \/ pc' \notin {"top", "wait"}
  BY DEF ReaderStays, Open, WaitReturns, WaitTimesOut, WaitFails, ReadBegin, Recheck,
     HandleEvent
<1> QED
  BY <1>1, <1>2, <1>3, <1>4, <1>5, <1>6, <1>7, <1>8, <1>9, <1>10, <1>11, NextCases

------------------------------------------------------------------------------
(* What the slots and the reader's copy hold.                               *)

\* The word of slot n % Size is at least that of event n + 1, and the words the
\* writer has stored are those of the event it emits next.
StoredInv ==
  /\ \A w \in stored : ring[W % Size][w] = W + 1
  /\ \A n \in 0..(W - 1), w \in Words : ring[n % Size][w] >= n + 1
  /\ ppc = "signal" => stored = {}

\* Whatever is in a slot belongs there, and is at most the next event's.
SlotInv ==
  \A s \in SlotNos, w \in Words :
    /\ ring[s][w] <= W + 1
    /\ ring[s][w] # 0 => (ring[s][w] - 1) % Size = s

\* A word of the copy is that of the event to be read, or of one that came a
\* whole number of laps later.
CopyInv ==
  pc \in {"copy", "commit"} =>
    \A w \in loaded : copy[w] \in (R + 1)..(W + 1) /\ (copy[w] - 1) % Size = R % Size

LEMMA StoredNext ==
  TypeOK /\ LagInv /\ IdxInv /\ StoredInv /\ [Next]_vars => StoredInv'
<1> SUFFICES ASSUME TypeOK, LagInv, IdxInv, StoredInv, [Next]_vars
             PROVE  StoredInv'
  OBVIOUS
<1>1. ASSUME NEW w \in Words, StoreWord(w)
      PROVE  StoredInv'
  <2>1. write_idx % Size = W % Size /\ W % Size \in SlotNos
    BY Division DEF IdxInv, TypeOK, SlotNos
  <2>2. ring' = [ring EXCEPT ![W % Size][w] = W + 1]
    BY <1>1, <2>1 DEF StoreWord
  <2>3. \A s \in SlotNos, v \in Words :
          ring'[s][v] = IF s = W % Size /\ v = w THEN W + 1 ELSE ring[s][v]
    BY <2>1, <2>2 DEF TypeOK, Event
  <2>4. W' = W /\ stored' = stored \cup {w} /\ ppc' = ppc /\ ppc = "store"
    BY <1>1 DEF StoreWord
  <2>5. \A v \in stored' : ring'[W' % Size][v] = W' + 1
    BY <2>1, <2>3, <2>4 DEF StoredInv, TypeOK
  <2>6. ASSUME NEW n \in 0..(W' - 1), NEW v \in Words
        PROVE  ring'[n % Size][v] >= n + 1
    <3>1. n \in Nat /\ n % Size \in SlotNos /\ n \in 0..(W - 1)
      BY <2>4, <2>6, Division DEF SlotNos, TypeOK
    <3>2. ring[n % Size][v] >= n + 1
      BY <3>1 DEF StoredInv
    <3> QED
      BY <2>3, <3>1, <3>2 DEF TypeOK
  <2> QED
    BY <2>4, <2>5, <2>6 DEF StoredInv
<1>2. CASE Publish
  <2>1. W' = W + 1 /\ stored = Words /\ stored' = {} /\ ring' = ring
    BY <1>2 DEF Publish
  <2>2. ASSUME NEW n \in 0..W, NEW w \in Words
        PROVE  ring[n % Size][w] >= n + 1
    <3>1. CASE n = W
      <4>1. ring[W % Size][w] = W + 1
        BY <2>1 DEF StoredInv
      <4> QED
        BY <3>1, <4>1 DEF TypeOK
    <3>2. CASE n # W
      <4>1. n \in 0..(W - 1)
        BY <3>2 DEF TypeOK
      <4> QED
        BY <4>1 DEF StoredInv
    <3> QED
      BY <3>1, <3>2
  <2>3. 0..(W' - 1) = 0..W
    BY <2>1 DEF TypeOK
  <2> QED
    BY <2>1, <2>2, <2>3 DEF StoredInv
<1>3. CASE SetFlag
  BY <1>3 DEF SetFlag, StoredInv
<1>4. UNCHANGED producer => StoredInv'
  BY DEF producer, StoredInv
<1>5. CASE ReaderStays \/ ReaderJumps \/ Commit \/ \E w \in Words : LoadWord(w)
  BY <1>4, <1>5, ReaderStaysPut, ReaderJumpsTo DEF Commit, LoadWord
<1>6. CASE UNCHANGED vars
  BY <1>4, <1>6 DEF vars
<1> QED
  BY <1>1, <1>2, <1>3, <1>5, <1>6, NextCases

LEMMA SlotNext == TypeOK /\ IdxInv /\ SlotInv /\ [Next]_vars => SlotInv'
<1> SUFFICES ASSUME TypeOK, IdxInv, SlotInv, [Next]_vars
             PROVE  SlotInv'
  OBVIOUS
<1>1. ASSUME NEW w \in Words, StoreWord(w)
      PROVE  SlotInv'
  <2>1. write_idx % Size = W % Size /\ W % Size \in SlotNos
    BY Division DEF IdxInv, TypeOK, SlotNos
  <2>2. ring' = [ring EXCEPT ![W % Size][w] = W + 1] /\ W' = W
    BY <1>1, <2>1 DEF StoreWord
  <2>3. \A s \in SlotNos, v \in Words :
          ring'[s][v] = IF s = W % Size /\ v = w THEN W + 1 ELSE ring[s][v]
    BY <2>1, <2>2 DEF TypeOK, Event
  <2>4. (W + 1) - 1 = W
    BY DEF TypeOK
  <2>5. ASSUME NEW s \in SlotNos, NEW v \in Words
        PROVE  /\ ring'[s][v] <= W + 1
               /\ ring'[s][v] # 0 => (ring'[s][v] - 1) % Size = s
    BY <2>3, <2>4 DEF SlotInv, TypeOK
  <2> QED
    BY <2>2, <2>5 DEF SlotInv
<1>2. CASE Publish
  <2>1. ring' = ring /\ W' = W + 1
    BY <1>2 DEF Publish
  <2>2. \A s \in SlotNos, w \in Words : ring[s][w] \in Nat
    BY DEF TypeOK, Event
  <2> QED
    BY <2>1, <2>2 DEF SlotInv, TypeOK
<1>3. CASE SetFlag
  BY <1>3 DEF SetFlag, SlotInv
<1>4. UNCHANGED producer => SlotInv'
  BY DEF producer, SlotInv
<1>5. CASE ReaderStays \/ ReaderJumps \/ Commit \/ \E w \in Words : LoadWord(w)
  BY <1>4, <1>5, ReaderStaysPut, ReaderJumpsTo DEF Commit, LoadWord
<1>6. CASE UNCHANGED vars
  BY <1>4, <1>6 DEF vars
<1> QED
  BY <1>1, <1>2, <1>3, <1>5, <1>6, NextCases

\* What a load of the slot being read can return.
LEMMA LoadedWord ==
  ASSUME TypeOK, IdxInv, StoredInv, SlotInv, R < W, NEW w \in Words
  PROVE  LET v == ring[read_idx % Size][w] IN
         v \in (R + 1)..(W + 1) /\ (v - 1) % Size = R % Size
<1> DEFINE v == ring[R % Size][w]
<1>1. read_idx % Size = R % Size /\ R % Size \in SlotNos /\ R \in 0..(W - 1)
  BY Division DEF IdxInv, TypeOK, SlotNos
<1>2. v \in Nat
  BY <1>1 DEF TypeOK, Event
<1>3. v >= R + 1
  BY <1>1 DEF StoredInv
<1>4. v <= W + 1 /\ (v # 0 => (v - 1) % Size = R % Size)
  BY <1>1 DEF SlotInv
<1>5. v \in (R + 1)..(W + 1) /\ v # 0
  BY <1>2, <1>3, <1>4 DEF TypeOK
<1> QED
  BY <1>1, <1>4, <1>5

\* A number less than a lap ahead that has the same slot is the same, and one at
\* most a lap ahead is the same or exactly a lap ahead.
LEMMA SameSlot ==
  ASSUME NEW r \in Nat, NEW v \in (r + 1)..(r + Size + 1), (v - 1) % Size = r % Size
  PROVE  v \in {r + 1, r + Size + 1}
<1>1. v - 1 \in Nat
  OBVIOUS
<1>2. ASSUME r < v - 1, v - 1 < r + Size
      PROVE  FALSE
  BY <1>1, <1>2, OwnSlots
<1> QED
  BY <1>1, <1>2

LEMMA CopyNext ==
  TypeOK /\ LagInv /\ IdxInv /\ StoredInv /\ SlotInv /\ CopyInv /\ [Next]_vars => CopyInv'
<1> SUFFICES ASSUME TypeOK, LagInv, IdxInv, StoredInv, SlotInv, CopyInv, [Next]_vars
             PROVE  CopyInv'
  OBVIOUS
<1> DEFINE Belongs(v, w) == v \in (R + 1)..(w + 1) /\ (v - 1) % Size = R % Size
<1>1. CASE UNCHANGED consumer /\ W' \in {W, W + 1}
  <2>1. (R + 1)..(W + 1) \subseteq (R + 1)..(W' + 1)
    <3>1. R \in Nat /\ W \in Nat /\ W' \in Nat /\ W <= W'
      BY <1>1 DEF TypeOK
    <3> QED
      BY <3>1, WiderInterval
  <2> QED
    BY <1>1, <2>1 DEF consumer, CopyInv
<1>2. (\E w \in Words : StoreWord(w)) \/ Publish \/ SetFlag
        => UNCHANGED consumer /\ W' \in {W, W + 1}
  BY DEF StoreWord, Publish, SetFlag
<1>3. CASE ReaderStays
  <2>1. \/ pc' \notin {"copy", "commit"}
        \/ pc' = "copy" /\ loaded' = {}
        \/ pc = "copy" /\ loaded' = loaded
    BY <1>3 DEF ReaderStays, LoopTop, Open, WaitReturns, WaitTimesOut, WaitFails,
         ReadNothing, ReadBegin, Recheck, HandleEvent
  <2> QED
    BY <1>3, <2>1, ReaderStaysPut DEF CopyInv, producer
<1>4. CASE ReaderJumps
  BY <1>4, ReaderJumpsTo DEF CopyInv
<1>5. CASE Commit
  BY <1>5 DEF Commit, CopyInv
<1>6. ASSUME NEW w \in Words, LoadWord(w)
      PROVE  CopyInv'
  <2>1. /\ pc \in {"copy", "commit"} /\ R < W
        /\ copy' = [copy EXCEPT ![w] = ring[read_idx % Size][w]]
        /\ loaded' = loaded \cup {w} /\ R' = R /\ W' = W
    BY <1>6 DEF LoadWord, LagInv, producer
  <2>2. Belongs(copy'[w], W)
    <3>1. copy'[w] = ring[read_idx % Size][w]
      BY <2>1 DEF TypeOK, Event
    <3>2. Belongs(ring[read_idx % Size][w], W)
      BY <2>1, LoadedWord
    <3> QED
      BY <3>1, <3>2
  <2>3. ASSUME NEW v \in loaded
        PROVE  Belongs(copy'[v], W)
    <3>1. v \in Words /\ Belongs(copy[v], W)
      BY <2>1 DEF CopyInv, TypeOK
    <3>2. v # w => copy'[v] = copy[v]
      BY <2>1, <3>1 DEF TypeOK, Event
    <3> QED
      BY <2>2, <3>1, <3>2
  <2>4. \A v \in loaded' : Belongs(copy'[v], W)
    BY <2>1, <2>2, <2>3
  <2> QED
    BY <2>1, <2>4 DEF CopyInv
<1>7. CASE UNCHANGED vars
  BY <1>7 DEF vars, producer, consumer, CopyInv
<1> QED
  BY <1>1, <1>2, <1>3, <1>4, <1>5, <1>6, <1>7, NextCases

\* The second check sees a lag of at most Size.
LEMMA LapNext ==
  ASSUME TypeOK, LagInv, IdxInv, CopyInv, [Next]_vars,
         pc = "copy", pc' = "commit", loaded = Words, NEW w \in Words
  PROVE  copy[w] \in {R + 1, R + 1 + Size}
<1>1. Recheck
  <2>1. (\E v \in Words : StoreWord(v)) \/ Publish \/ SetFlag => UNCHANGED consumer
    BY DEF StoreWord, Publish, SetFlag
  <2>2. pc' # pc
    OBVIOUS
  <2>3. ~UNCHANGED consumer /\ ~UNCHANGED vars
    BY <2>2 DEF consumer, vars
  <2>4. ReaderStays => Recheck
    BY DEF ReaderStays, LoopTop, Open, WaitReturns, WaitTimesOut, WaitFails,
         ReadNothing, ReadBegin, HandleEvent
  <2>5. ~ReaderJumps
    BY ReaderJumpsTo
  <2>6. ~Commit /\ \A v \in Words : ~LoadWord(v)
    BY DEF Commit, LoadWord
  <2> QED
    BY <2>1, <2>3, <2>4, <2>5, <2>6, NextCases
<1>2. W - R <= Size
  BY <1>1, DeltaIsLag, SizeAssumption DEF Recheck, Overrun, TypeOK
<1>3. copy[w] \in (R + 1)..(R + Size + 1) /\ (copy[w] - 1) % Size = R % Size
  BY <1>2 DEF CopyInv, TypeOK
<1>4. copy[w] \in {R + 1, R + Size + 1}
  BY <1>3, SameSlot DEF TypeOK
<1> QED
  BY <1>4 DEF TypeOK

------------------------------------------------------------------------------
(* Theorems.                                                                *)

IInv ==
  /\ TypeOK /\ LagInv /\ IdxInv /\ WakeInv
  /\ StoredInv /\ SlotInv /\ CopyInv

LEMMA InvInit == Init => IInv
<1> SUFFICES ASSUME Init
             PROVE  IInv
  OBVIOUS
<1>1. TypeOK /\ LagInv /\ IdxInv /\ WakeInv
  BY TypeInit, IdxInit DEF Init, WakeInv
<1>2. StoredInv
  <2>1. 0..(W - 1) = {}
    BY DEF Init
  <2> QED
    BY <2>1 DEF Init, StoredInv
<1>3. SlotInv
  <2>1. \A s \in SlotNos, w \in Words : ring[s][w] = 0
    BY DEF Init, NoEvent
  <2> QED
    BY <2>1 DEF Init, SlotInv
<1>4. CopyInv
  BY DEF Init, CopyInv
<1> QED
  BY <1>1, <1>2, <1>3, <1>4 DEF IInv

LEMMA InvNext == IInv /\ [Next]_vars => IInv'
BY TypeNext, IdxNext, WakeNext, StoredNext, SlotNext, CopyNext DEF IInv

LEMMA InvAlways == Spec => []IInv
BY InvInit, InvNext, PTL DEF Spec

\* The reader never waits without a signal while events are there, unless the
\* signal is on its way or failed, or a failed copy made it stop early.
THEOREM SignalsAreNotLost == Spec => []NoLostWakeup
<1>1. IInv => NoLostWakeup
  BY DEF IInv, WakeInv, NoLostWakeup
<1> QED
  BY <1>1, InvAlways, PTL

\* A copy that was complete when the second check let it through holds, word by
\* word, the event to be read or the one Size events later.
THEOREM OverrunsAreBounded == Spec => AtMostOneLap
<1> DEFINE Bounded == pc = "copy" /\ pc' = "commit" /\ loaded = Words
                        => \A w \in Words : copy[w] \in {R + 1, R + 1 + Size}
<1>1. IInv /\ [Next]_vars => [Bounded]_vars
  BY LapNext DEF IInv
<1> QED
  BY <1>1, InvAlways, PTL DEF Spec, AtMostOneLap

\* While fewer than Size events wait, the copy is the event.
LEMMA CopyIsIntact ==
  ASSUME IInv, pc = "commit", loaded = Words, W - R < Size, NEW w \in Words
  PROVE  copy[w] = R + 1
<1>1. /\ R \in Nat /\ copy[w] \in (R + 1)..(R + Size + 1) /\ copy[w] # R + Size + 1
      /\ (copy[w] - 1) % Size = R % Size
  BY DEF IInv, CopyInv, TypeOK
<1>2. copy[w] \in {R + 1, R + Size + 1}
  BY <1>1, SameSlot
<1> QED
  BY <1>1, <1>2

LEMMA StreamInit == Init => Abstract!SInit
<1>1. Init => event \in Event
  BY DEF Init, NoEvent, Event
<1> QED
  BY <1>1 DEF Init, Abstract!SInit

LEMMA StreamNext == IInv /\ [Next]_vars => [Abstract!SNext]_(Abstract!svars)
<1> SUFFICES ASSUME IInv, [Next]_vars
             PROVE  [Abstract!SNext]_(Abstract!svars)
  OBVIOUS
<1> USE DEF Abstract!svars, Abstract!SNext
<1>0. TypeOK /\ Delta = W - R /\ (read_idx = write_idx <=> R = W)
  BY DeltaIsLag DEF IInv
<1>1. CASE (\E w \in Words : StoreWord(w)) \/ SetFlag
  BY <1>1 DEF StoreWord, SetFlag, consumer
<1>2. CASE Publish
  BY <1>2 DEF Publish, consumer, Abstract!Publish
<1>3. CASE ReadNothing
  BY <1>0, <1>3 DEF ReadNothing, producer, Abstract!Idle
<1>4. CASE ReaderStays /\ ~ReadNothing
  <2>1. result' = result
    BY <1>4 DEF ReaderStays, LoopTop, Open, WaitReturns, WaitTimesOut, WaitFails,
         ReadBegin, Recheck, HandleEvent
  <2> QED
    BY <1>4, <2>1, ReaderStaysPut DEF producer
<1>5. CASE StartFlush \/ ResetFlush
  BY <1>5 DEF StartFlush, ResetFlush, FlushTo, JumpToWriter, producer, Abstract!Flush
<1>6. CASE ReadOverrun
  BY <1>0, <1>6 DEF ReadOverrun, Overrun, JumpToWriter, producer, Abstract!Overflow
<1>7. CASE Commit
  <2>1. R < W /\ R' = R + 1 /\ W' = W /\ pc = "commit" /\ loaded = Words
    BY <1>7 DEF Commit, producer, IInv, LagInv
  <2>2. CASE event' = copy /\ result' = "EVENT"
    <3>1. copy \in Event /\ DOMAIN copy = Words
      BY <1>0 DEF TypeOK, Event
    <3>2. W - R < Size => Abstract!IsEvent(copy, R + 1)
      BY <2>1, <3>1, CopyIsIntact DEF Abstract!IsEvent
    <3>3. Abstract!Deliver
      BY <2>1, <2>2, <3>1, <3>2 DEF Abstract!Deliver
    <3> QED
      BY <3>3
  <2>3. CASE event' = event /\ result' = "FAULT"
    BY <2>1, <2>3 DEF Abstract!Fault
  <2> QED
    BY <1>7, <2>2, <2>3 DEF Commit
<1>8. CASE \E w \in Words : LoadWord(w)
  BY <1>8 DEF LoadWord, producer
<1>9. CASE UNCHANGED vars
  BY <1>9 DEF vars, producer, consumer
<1> QED
  BY <1>1, <1>2, <1>3, <1>4, <1>5, <1>6, <1>7, <1>8, <1>9, NextCases DEF ReaderJumps

\* The ring buffer is an event stream.
THEOREM RingIsAStream == Spec => RefinesStream
<1> QED
  BY StreamInit, StreamNext, InvAlways, PTL DEF Spec, RefinesStream, Abstract!Stream

==============================================================================
