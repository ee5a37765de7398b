----------------------------- MODULE LoopGuard -----------------------------
(***************************************************************************)
(* The two data structures of loop.go that keep a clipboard event from     *)
(* going round in circles, as operators that the state machines share:     *)
(*                                                                         *)
(*   - the ring of recently seen event identifiers (RingBuffer), by which  *)
(*     a node ignores an event that reaches it a second time;              *)
(*   - the list of expected echoes (EchoBuffer), by which a node           *)
(*     recognises the clipboard notification its own write provokes.       *)
(*                                                                         *)
(* Both hold at most RingSize entries: 32 in the program.                  *)
(***************************************************************************)
EXTENDS Integers, SequencesExt

CONSTANT RingSize

ASSUME RingSizeAssumption == RingSize \in Nat \ {0}

(***************************************************************************)
(* RingBuffer.  The slots of the Go array are 0 .. RingSize-1; a slot that *)
(* was never written holds whatever blank the caller chooses for the zero  *)
(* EventID, which Contains never looks at.                                 *)
(***************************************************************************)
Slots == 0 .. RingSize - 1

EmptyRing(blank) == [buf |-> [s \in Slots |-> blank], pos |-> 0, count |-> 0]

\* Wrong: the write position runs off the end of the array.
RingAddNoWrap(r, id) ==
  [buf   |-> [r.buf EXCEPT ![r.pos] = id],
   pos   |-> r.pos + 1,
   count |-> IF r.count < RingSize THEN r.count + 1 ELSE r.count]

\* Wrong: the count stops one short, so that Contains misses the last slot.
RingAddCountShort(r, id) ==
  [buf   |-> [r.buf EXCEPT ![r.pos] = id],
   pos   |-> (r.pos + 1) % RingSize,
   count |-> IF r.count < RingSize - 1 THEN r.count + 1 ELSE r.count]

RingAdd(r, id) ==
  [buf   |-> [r.buf EXCEPT ![r.pos] = id],
   pos   |-> (r.pos + 1) % RingSize,
   count |-> IF r.count < RingSize THEN r.count + 1 ELSE r.count]

\* Wrong: the scan ends one slot early.
RingContainsShort(r, id) == \E s \in Slots : s + 1 < r.count /\ r.buf[s] = id

RingContains(r, id) == \E s \in Slots : s < r.count /\ r.buf[s] = id

(***************************************************************************)
(* EchoBuffer.  An entry is a record with at least the fields key (message *)
(* type and content hash) and expires.  A marker is live strictly before   *)
(* its expiry, and Consume throws the dead ones away before it looks.      *)
(***************************************************************************)
EchoAdd(entries, entry) ==
  IF Len(entries) = RingSize THEN Append(Tail(entries), entry)
                             ELSE Append(entries, entry)

\* The positions of the live markers.
LiveEchoes(entries, now) == {i \in DOMAIN entries : entries[i].expires > now}

\* Wrong: any marker of the type matches, as a cooldown would.
EchoMatchesType(entries, key, now) ==
  {i \in LiveEchoes(entries, now) : entries[i].key[1] = key[1]}

EchoMatches(entries, key, now) == {i \in LiveEchoes(entries, now) : entries[i].key = key}

\* Consume's second result: some live marker expects this notification.
EchoExpected(entries, key, now) == EchoMatches(entries, key, now) # {}

\* The entries at some positions, in their order.
Position(positions, k) == CHOOSE i \in positions : Cardinality({j \in positions : j <= i}) = k

EntriesAt(entries, positions) ==
  [k \in 1 .. Cardinality(positions) |-> entries[Position(positions, k)]]

\* Wrong: Consume removes every marker that matches.
EchoRestDropsAll(entries, key, now) ==
  EntriesAt(entries, LiveEchoes(entries, now) \ EchoMatches(entries, key, now))

\* What Consume leaves behind: the live markers but for the oldest that matches.
EchoRest(entries, key, now) ==
  LET matches == EchoMatches(entries, key, now)
      oldest  == {i \in matches : \A j \in matches : i <= j}
  IN  EntriesAt(entries, LiveEchoes(entries, now) \ oldest)
=============================================================================
