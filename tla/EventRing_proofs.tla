-------------------------- MODULE EventRing_proofs --------------------------
(***************************************************************************)
(* Theorems about EventRing, for every ring size, set of contents and      *)
(* peers, and whatever the clock reads.  The inductive invariant IInv says *)
(* where in the circular array each of the last RingSize identifiers is:   *)
(* counted back from the write position, with the wrap-around explicit.    *)
(***************************************************************************)
EXTENDS EventRing, TLAPS

\* The slot j steps behind the write position p.
Behind(p, j) == IF j <= p THEN p - j ELSE p - j + RingSize

RingHoldsLog ==
  /\ ring.count = IF Len(log) < RingSize THEN Len(log) ELSE RingSize
  /\ ring.count < RingSize => ring.pos = ring.count
  /\ \A j \in 1 .. ring.count :
       ring.buf[Behind(ring.pos, j)] = log[Len(log) - j + 1]

\* Every identifier of this node in the log was minted by newMessage before.
OwnMinted ==
  \A i \in 1 .. Len(log) : log[i].source = Self => log[i].ts <= lastTS

IInv == TypeOK /\ RingHoldsLog /\ OwnMinted /\ NoReplayInWindow

\* The position after p, as RingBuffer.Add computes it.
LEMMA NextSlot ==
  ASSUME NEW p \in Slots
  PROVE  (p + 1) % RingSize = IF p + 1 = RingSize THEN 0 ELSE p + 1
  BY RingSizeAssumption DEF Slots

\* What RingBuffer.Add returns, field by field.
LEMMA RingAddFields ==
  ASSUME NEW r, NEW id
  PROVE  /\ RingAdd(r, id).buf = [r.buf EXCEPT ![r.pos] = id]
         /\ RingAdd(r, id).pos = (r.pos + 1) % RingSize
         /\ RingAdd(r, id).count = IF r.count < RingSize THEN r.count + 1 ELSE r.count
  BY DEF RingAdd

\* The wall clock may stand still or step back: the timestamp of a new event
\* still exceeds the last one.
LEMMA NextTSIncreases ==
  ASSUME lastTS \in Nat, NEW now \in Nat
  PROVE  NextTS(now) \in Nat /\ NextTS(now) > lastTS
  BY DEF NextTS

\* The arithmetic of "so many steps behind the write position": it stays inside
\* the array, only RingSize steps lead back to the position itself, ...
LEMMA BehindSlot ==
  ASSUME NEW p \in Slots
  PROVE  /\ \A j \in 1 .. RingSize : Behind(p, j) \in Slots
         /\ \A j \in 1 .. RingSize - 1 : Behind(p, j) # p
  BY RingSizeAssumption DEF Behind, Slots

\* ... advancing the position moves everything one step further behind, ...
LEMMA BehindNext ==
  ASSUME NEW p \in Slots, NEW q, q = IF p + 1 = RingSize THEN 0 ELSE p + 1
  PROVE  /\ Behind(q, 1) = p
         /\ \A j \in 1 .. RingSize - 1 : Behind(q, j + 1) = Behind(p, j)
  BY RingSizeAssumption DEF Behind, Slots

\* ... and every slot is that many steps behind.
LEMMA BehindCovers ==
  ASSUME NEW p \in Slots, NEW s \in Slots
  PROVE  /\ \E j \in 1 .. RingSize : Behind(p, j) = s
         /\ s < p => \E j \in 1 .. p : Behind(p, j) = s
<1>1. CASE s < p
  <2>1. p - s \in 1 .. RingSize /\ p - s \in 1 .. p /\ Behind(p, p - s) = s
    BY <1>1, RingSizeAssumption DEF Behind, Slots
  <2> QED BY <2>1
<1>2. CASE ~ (s < p)
  <2>1. p - s + RingSize \in 1 .. RingSize /\ Behind(p, p - s + RingSize) = s
    BY <1>2, RingSizeAssumption DEF Behind, Slots
  <2> QED BY <1>2, <2>1
<1> QED BY <1>1, <1>2

\* The invariant says what Contains answers.
LEMMA RingHoldsLogIsWindow ==
  ASSUME TypeOK, RingHoldsLog
  PROVE  RingIsWindow
<1> USE RingSizeAssumption
<1>1. Len(log) \in Nat
  BY DEF TypeOK
<1>2. ring.pos \in Slots /\ ring.count \in 0 .. RingSize
  BY DEF TypeOK
<1>3. ASSUME NEW i \in Window
      PROVE  RingContains(ring, log[i])
  <2> DEFINE j == Len(log) - i + 1
  <2>1. j \in 1 .. ring.count /\ Len(log) - j + 1 = i
    BY <1>1, <1>3 DEF Window, RingHoldsLog
  <2>2. ring.buf[Behind(ring.pos, j)] = log[i]
    BY <2>1 DEF RingHoldsLog
  <2>3. Behind(ring.pos, j) \in Slots
    <3>1. ring.pos \in Slots /\ j \in 1 .. RingSize
      BY <1>2, <2>1
    <3> HIDE DEF j
    <3> QED BY <3>1, BehindSlot
  <2>4. Behind(ring.pos, j) < ring.count
    BY <1>2, <2>1, <2>3 DEF RingHoldsLog, Behind, Slots
  <2> QED BY <2>2, <2>3, <2>4 DEF RingContains
<1>4. ASSUME NEW s \in Slots, RingContains(ring, ring.buf[s])
      PROVE  \E i \in Window : log[i] = ring.buf[s]
  <2>1. PICK t \in Slots : t < ring.count /\ ring.buf[t] = ring.buf[s]
    BY <1>4 DEF RingContains
  <2>2. PICK j \in 1 .. ring.count : Behind(ring.pos, j) = t
    <3>1. CASE ring.count = RingSize
      BY <1>2, <3>1, BehindCovers
    <3>2. CASE ring.count < RingSize
      <4>1. ring.pos = ring.count
        BY <3>2 DEF RingHoldsLog
      <4> QED BY <1>2, <2>1, <4>1, BehindCovers
    <3> QED BY <1>2, <3>1, <3>2
  <2>3. log[Len(log) - j + 1] = ring.buf[s]
    BY <2>1, <2>2 DEF RingHoldsLog
  <2>4. Len(log) - j + 1 \in Window
    BY <1>1, <1>2, <2>2 DEF Window, RingHoldsLog
  <2> QED BY <2>3, <2>4
<1> QED BY <1>3, <1>4 DEF RingIsWindow

\* Adding an identifier to the ring and to the log keeps the correspondence.
LEMMA AddKeepsRing ==
  ASSUME TypeOK, RingHoldsLog, NEW id \in EventIDs,
         ring' = RingAdd(ring, id), log' = Append(log, id), lastTS' \in Nat
  PROVE  TypeOK' /\ RingHoldsLog'
<1> USE RingSizeAssumption
<1> DEFINE p == ring.pos
           q == (p + 1) % RingSize
<1>1. p \in Slots /\ ring.count \in 0 .. RingSize /\ Len(log) \in Nat
  BY DEF TypeOK
<1>2. /\ ring'.buf = [ring.buf EXCEPT ![p] = id]
      /\ ring'.pos = q
      /\ ring'.count = IF ring.count < RingSize THEN ring.count + 1 ELSE ring.count
      /\ ring' = [buf |-> ring'.buf, pos |-> ring'.pos, count |-> ring'.count]
  BY DEF RingAdd
<1>3. q = IF p + 1 = RingSize THEN 0 ELSE p + 1
  BY <1>1, NextSlot
<1>4. /\ log' \in Seq(EventIDs)
      /\ Len(log') = Len(log) + 1
      /\ \A i \in 1 .. Len(log) : log'[i] = log[i]
      /\ log'[Len(log) + 1] = id
  BY DEF TypeOK
<1>5. TypeOK'
  <2>1. ring'.buf \in [Slots -> EventIDs \cup {NoEvent}]
    BY <1>2 DEF TypeOK
  <2>2. ring'.pos \in Slots
    BY <1>1, <1>2, <1>3 DEF Slots
  <2>3. ring'.count \in 0 .. RingSize
    BY <1>1, <1>2
  <2> QED BY <1>2, <1>4, <2>1, <2>2, <2>3 DEF TypeOK
<1>6. ring'.count = IF Len(log') < RingSize THEN Len(log') ELSE RingSize
  BY <1>1, <1>2, <1>4 DEF RingHoldsLog
<1>7. ring'.count < RingSize => ring'.pos = ring'.count
  BY <1>1, <1>2, <1>3 DEF RingHoldsLog, Slots
<1>8. ASSUME NEW j \in 1 .. ring'.count
      PROVE  ring'.buf[Behind(q, j)] = log'[Len(log') - j + 1]
  <2>0. j \in Nat /\ (j = 1 \/ j > 1)
    BY <1>1, <1>2
  <2>1. CASE j = 1
    <3>1. Behind(q, j) = p
      BY <1>1, <1>3, <2>1, BehindNext
    <3>2. ring'.buf[p] = id
      BY <1>1, <1>2 DEF TypeOK
    <3> QED BY <1>1, <1>4, <2>1, <3>1, <3>2
  <2>2. CASE j > 1
    <3> DEFINE k == j - 1
    <3>1. k \in 1 .. RingSize - 1 /\ k \in 1 .. ring.count /\ j = k + 1
      BY <1>1, <1>2, <2>2
    <3>2. Behind(q, k + 1) = Behind(p, k) /\ Behind(p, k) # p /\ Behind(p, k) \in Slots
      <4> HIDE DEF k, p, q
      <4> QED BY <1>1, <1>3, <3>1, BehindSlot, BehindNext
    <3>3. ring'.buf[Behind(p, k)] = ring.buf[Behind(p, k)]
      BY <1>2, <3>2 DEF TypeOK
    <3>4. ring.buf[Behind(p, k)] = log[Len(log) - k + 1]
      BY <3>1 DEF RingHoldsLog
    <3>5. Len(log) - k + 1 \in 1 .. Len(log) /\ Len(log') - j + 1 = Len(log) - k + 1
      BY <1>1, <1>4, <3>1 DEF RingHoldsLog
    <3> HIDE DEF k, q
    <3> QED BY <1>4, <3>1, <3>2, <3>3, <3>4, <3>5
  <2> QED BY <2>0, <2>1, <2>2
<1> QED BY <1>2, <1>5, <1>6, <1>7, <1>8 DEF RingHoldsLog

LEMMA InitInvariant == Init => IInv
<1> SUFFICES ASSUME Init PROVE IInv
  OBVIOUS
<1> USE RingSizeAssumption DEF Init, EmptyRing
<1>1. TypeOK
  BY DEF TypeOK, Slots
<1>2. RingHoldsLog
  BY DEF RingHoldsLog
<1>3. OwnMinted /\ NoReplayInWindow
  BY DEF OwnMinted, NoReplayInWindow
<1> QED BY <1>1, <1>2, <1>3 DEF IInv

\* A local copy: its identifier is later than all of this node's own.
LEMMA CopyInvariant ==
  ASSUME IInv, NEW content \in Contents, NEW now \in 0 .. MaxTime, Copy(content, now)
  PROVE  IInv' /\ \A i \in 1 .. Len(log) : log[i] # log'[Len(log')]
<1> DEFINE id == [content |-> content, source |-> Self, ts |-> NextTS(now)]
<1>1. lastTS \in Nat /\ Len(log) \in Nat
  BY DEF IInv, TypeOK
<1>2. lastTS' = NextTS(now) /\ lastTS' \in Nat /\ lastTS' > lastTS
  BY <1>1, NextTSIncreases, EventRingAssumption DEF Copy
<1>3. id \in EventIDs
  BY <1>2 DEF EventIDs
<1>4. ring' = RingAdd(ring, id) /\ log' = Append(log, id)
  BY DEF Copy
<1>5. TypeOK' /\ RingHoldsLog'
  <2> HIDE DEF id
  <2> QED BY <1>2, <1>3, <1>4, AddKeepsRing DEF IInv
<1>6. /\ Len(log') = Len(log) + 1
      /\ \A i \in 1 .. Len(log) : log'[i] = log[i]
      /\ log'[Len(log) + 1] = id
      /\ \A i \in 1 .. Len(log) : log[i] \in EventIDs
  <2> HIDE DEF id
  <2> QED BY <1>3, <1>4 DEF IInv, TypeOK
<1>7. \A i \in 1 .. Len(log) : log[i] # id
  <2> SUFFICES ASSUME NEW i \in 1 .. Len(log), log[i] = id PROVE FALSE
    OBVIOUS
  <2>1. log[i].source = Self /\ log[i].ts = lastTS'
    BY <1>2
  <2>2. log[i].ts <= lastTS
    BY <2>1 DEF IInv, OwnMinted
  <2> QED BY <1>1, <1>2, <2>1, <2>2
<1>8. OwnMinted'
  <2> SUFFICES ASSUME NEW i \in 1 .. Len(log'), log'[i].source = Self
               PROVE  log'[i].ts <= lastTS'
    BY DEF OwnMinted
  <2>1. CASE i = Len(log) + 1
    <3>1. log'[i].ts = lastTS'
      BY <1>2, <1>6, <2>1
    <3> QED BY <1>2, <3>1
  <2>2. CASE i # Len(log) + 1
    <3>1. i \in 1 .. Len(log) /\ log'[i] = log[i]
      BY <1>1, <1>6, <2>2
    <3>2. log[i].ts <= lastTS /\ log[i].ts \in Nat
      BY <1>6, <3>1 DEF IInv, OwnMinted, EventIDs
    <3> QED BY <1>1, <1>2, <3>1, <3>2
  <2> QED BY <2>1, <2>2
<1>9. NoReplayInWindow'
  <2> SUFFICES ASSUME NEW i \in 1 .. Len(log'), NEW j \in 1 .. Len(log'),
                      i < j, log'[i] = log'[j]
               PROVE  j - i > RingSize
    BY DEF NoReplayInWindow
  <2>1. j # Len(log) + 1
    BY <1>1, <1>6, <1>7
  <2>2. i \in 1 .. Len(log) /\ j \in 1 .. Len(log) /\ log[i] = log[j]
    BY <1>1, <1>6, <2>1
  <2> QED BY <2>2 DEF IInv, NoReplayInWindow
<1> QED BY <1>1, <1>5, <1>6, <1>7, <1>8, <1>9 DEF IInv

\* An event accepted from a peer: the ring did not contain it, so it is not
\* among the last RingSize identifiers.
LEMMA AcceptInvariant ==
  ASSUME IInv, NEW id \in EventIDs, Accept(id)
  PROVE  IInv'
<1>1. lastTS \in Nat /\ lastTS' = lastTS /\ Len(log) \in Nat
  BY DEF IInv, TypeOK, Accept
<1>2. id \in EventIDs
  OBVIOUS
<1>3. ring' = RingAdd(ring, id) /\ log' = Append(log, id) /\ ~ RingContains(ring, id)
  BY DEF Accept
<1>4. TypeOK' /\ RingHoldsLog'
  BY <1>1, <1>2, <1>3, AddKeepsRing DEF IInv
<1>5. /\ Len(log') = Len(log) + 1
      /\ \A i \in 1 .. Len(log) : log'[i] = log[i]
      /\ log'[Len(log) + 1] = id
  BY <1>2, <1>3 DEF IInv, TypeOK
<1>6. OwnMinted'
  <2> SUFFICES ASSUME NEW i \in 1 .. Len(log'), log'[i].source = Self
               PROVE  log'[i].ts <= lastTS'
    BY DEF OwnMinted
  <2>1. CASE i = Len(log) + 1
    BY <1>1, <1>5, <2>1 DEF IInv, OwnMinted, Accept, CanArrive
  <2>2. CASE i # Len(log) + 1
    BY <1>1, <1>5, <2>2 DEF IInv, OwnMinted
  <2> QED BY <2>1, <2>2
<1>7. NoReplayInWindow'
  <2> SUFFICES ASSUME NEW i \in 1 .. Len(log'), NEW j \in 1 .. Len(log'),
                      i < j, log'[i] = log'[j]
               PROVE  j - i > RingSize
    BY DEF NoReplayInWindow
  <2>1. CASE j = Len(log) + 1
    <3>1. i \in 1 .. Len(log) /\ log[i] = id
      BY <1>1, <1>5, <2>1
    <3>2. i \notin Window
      BY <1>3, <3>1, RingHoldsLogIsWindow DEF IInv, RingIsWindow
    <3> QED BY <1>1, <2>1, <3>1, <3>2, RingSizeAssumption DEF Window
  <2>2. CASE j # Len(log) + 1
    <3>1. i \in 1 .. Len(log) /\ j \in 1 .. Len(log) /\ log[i] = log[j]
      BY <1>1, <1>5, <2>2
    <3> QED BY <3>1 DEF IInv, NoReplayInWindow
  <2> QED BY <2>1, <2>2
<1> QED BY <1>4, <1>6, <1>7 DEF IInv

LEMMA StepInvariant == IInv /\ [Next]_vars => IInv'
<1> SUFFICES ASSUME IInv, [Next]_vars PROVE IInv'
  OBVIOUS
<1>1. CASE \E content \in Contents, now \in 0 .. MaxTime : Copy(content, now)
  BY <1>1, CopyInvariant
<1>2. CASE \E id \in Arrivals : Accept(id)
  <2>1. Arrivals \subseteq EventIDs
    BY EventRingAssumption DEF EventIDs, Arrivals
  <2> QED BY <1>2, <2>1, AcceptInvariant
<1>3. CASE UNCHANGED vars
  BY <1>3 DEF vars, IInv, TypeOK, RingHoldsLog, OwnMinted, NoReplayInWindow
<1> QED BY <1>1, <1>2, <1>3 DEF Next

THEOREM Invariance == Spec => []IInv
  BY InitInvariant, StepInvariant, PTL DEF Spec

\* RingBuffer.Contains is membership among the last RingSize identifiers added,
\* whatever the ring size.
THEOREM ContainsIsWindow == Spec => []RingIsWindow
<1>1. IInv => RingIsWindow
  BY RingHoldsLogIsWindow DEF IInv
<1> QED BY <1>1, Invariance, PTL

\* No event is handled again before more than RingSize others were.
THEOREM NoReplay == Spec => []NoReplayInWindow
<1>1. IInv => NoReplayInWindow
  BY DEF IInv
<1> QED BY <1>1, Invariance, PTL

\* A re-copied content gets an identifier this node never had in its ring,
\* whatever the wall clock does.
THEOREM RecopyMintsNewEvent == Spec => RecopyIsNew
<1>1. IInv /\ [Next]_vars =>
        [ lastTS' # lastTS => \A i \in 1 .. Len(log) : log[i] # log'[Len(log')] ]_vars
  <2> SUFFICES ASSUME IInv, Next, lastTS' # lastTS
               PROVE  \A i \in 1 .. Len(log) : log[i] # log'[Len(log')]
    OBVIOUS
  <2>1. CASE \E content \in Contents, now \in 0 .. MaxTime : Copy(content, now)
    BY <2>1, CopyInvariant
  <2>2. CASE \E id \in Arrivals : Accept(id)
    BY <2>2 DEF Accept
  <2> QED BY <2>1, <2>2 DEF Next
<1> QED BY <1>1, Invariance, PTL DEF Spec, RecopyIsNew
=============================================================================
