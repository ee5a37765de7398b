--------------------------- MODULE Inbound_proofs ---------------------------
(***************************************************************************)
(* Theorems about Inbound: whatever connections bring, cut off or not, in  *)
(* whichever version, the event loop acts on messages that were made, and  *)
(* only ignores what it handled before; and the image directory, which     *)
(* every image handled goes to, keeps its limit and the newest image.      *)
(***************************************************************************)
EXTENDS Inbound, EventRing_proofs, SequenceTheorems, FiniteSetTheorems, WellFoundedInduction

-----------------------------------------------------------------------------
(* Frames *)

Bytes == Seq(Nat)

\* The messages that newMessage and peers of version 1 make.
Made ==
  {m \in [version : {LegacyProtocolVersion, ProtocolVersion}, type : MessageTypes,
          content : Contents, source : Others \cup {Self}, ts : Nat, payload : Bytes] :
     /\ m.type = TypeOf[m.content] /\ m.payload = PayloadOf[m.content]
     /\ m.version = IF m.source = Legacy THEN LegacyProtocolVersion ELSE ProtocolVersion
     /\ m.source = Legacy => m.ts = 0}

\* Four sequences in a row, and each of them again.
IsJoined(s, h, a, b, r) ==
  /\ s \in Bytes /\ Len(s) = Len(h) + Len(a) + Len(b) + Len(r)
  /\ \A i \in 1 .. Len(h) : s[i] = h[i]
  /\ SubSeq(s, Len(h) + 1, Len(h) + Len(a)) = a
  /\ SubSeq(s, Len(h) + Len(a) + 1, Len(h) + Len(a) + Len(b)) = b
  /\ SubSeq(s, Len(h) + Len(a) + Len(b) + 1, Len(s)) = r

LEMMA Parts ==
  ASSUME NEW h \in Bytes, NEW a \in Bytes, NEW b \in Bytes, NEW r \in Bytes
  PROVE  IsJoined(h \o a \o b \o r, h, a, b, r)
<1> SUFFICES ASSUME NEW s, s = h \o a \o b \o r PROVE IsJoined(s, h, a, b, r)
  OBVIOUS
<1> USE DEF Bytes
<1>1. /\ Len(h) \in Nat /\ Len(a) \in Nat /\ Len(b) \in Nat /\ Len(r) \in Nat
  OBVIOUS
<1>2. /\ h \o a \in Bytes /\ Len(h \o a) = Len(h) + Len(a)
      /\ \A i \in 1 .. Len(h) + Len(a) :
           (h \o a)[i] = IF i <= Len(h) THEN h[i] ELSE a[i - Len(h)]
  BY ConcatProperties
<1>3. /\ h \o a \o b \in Bytes /\ Len(h \o a \o b) = Len(h) + Len(a) + Len(b)
      /\ \A i \in 1 .. Len(h) + Len(a) + Len(b) :
           (h \o a \o b)[i] = IF i <= Len(h) + Len(a) THEN (h \o a)[i] ELSE b[i - (Len(h) + Len(a))]
  BY <1>2, ConcatProperties
<1>4. /\ s \in Bytes /\ Len(s) = Len(h) + Len(a) + Len(b) + Len(r)
      /\ \A i \in 1 .. Len(s) :
           s[i] = IF i <= Len(h) + Len(a) + Len(b) THEN (h \o a \o b)[i]
                                                   ELSE r[i - (Len(h) + Len(a) + Len(b))]
  BY <1>3, ConcatProperties
<1>5. \A i \in 1 .. Len(h) : s[i] = h[i]
  BY <1>1, <1>2, <1>3, <1>4
<1>6. \A i \in 1 .. Len(a) : s[Len(h) + i] = a[i]
  BY <1>1, <1>2, <1>3, <1>4
<1>7. \A i \in 1 .. Len(b) : s[Len(h) + Len(a) + i] = b[i]
  BY <1>1, <1>2, <1>3, <1>4
<1>8. \A i \in 1 .. Len(r) : s[Len(h) + Len(a) + Len(b) + i] = r[i]
  BY <1>1, <1>2, <1>3, <1>4
<1>9. ASSUME NEW t \in Bytes, NEW k \in Nat, k + Len(t) <= Len(s),
             \A i \in 1 .. Len(t) : s[k + i] = t[i]
      PROVE  SubSeq(s, k + 1, k + Len(t)) = t
  <2>1. Len(t) \in Nat /\ k + 1 \in Int /\ k + Len(t) \in Int
    OBVIOUS
  <2>2. ASSUME NEW i \in k + 1 .. k + Len(t) PROVE s[i] \in Nat
    <3>1. PICK j \in 1 .. Len(t) : i = k + j
      BY <2>1
    <3>2. t[j] \in Nat
      OBVIOUS
    <3> QED BY <1>9, <3>1, <3>2
  <2>3. /\ SubSeq(s, k + 1, k + Len(t)) \in Seq(Nat)
        /\ Len(SubSeq(s, k + 1, k + Len(t))) = Len(t)
        /\ \A i \in 1 .. Len(t) : SubSeq(s, k + 1, k + Len(t))[i] = s[k + i]
    <3>1. /\ SubSeq(s, k + 1, k + Len(t)) \in Seq(Nat)
          /\ Len(SubSeq(s, k + 1, k + Len(t)))
               = IF k + 1 <= k + Len(t) THEN k + Len(t) - (k + 1) + 1 ELSE 0
          /\ \A i \in 1 .. k + Len(t) - (k + 1) + 1 :
               SubSeq(s, k + 1, k + Len(t))[i] = s[k + 1 + i - 1]
      BY ONLY <2>1, <2>2, SubSeqProperties
    <3>2. /\ IF k + 1 <= k + Len(t) THEN k + Len(t) - (k + 1) + 1 = Len(t) ELSE Len(t) = 0
          /\ k + Len(t) - (k + 1) + 1 = Len(t)
          /\ \A i \in 1 .. Len(t) : k + 1 + i - 1 = k + i
      BY <2>1
    <3> QED BY ONLY <3>1, <3>2
  <2> HIDE DEF Bytes
  <2> DEFINE u == SubSeq(s, k + 1, k + Len(t))
  <2>4. u \in Seq(Nat) /\ t \in Seq(Nat) /\ Len(u) = Len(t) /\ \A i \in 1 .. Len(u) : u[i] = t[i]
    BY <1>9, <2>3 DEF Bytes
  <2> HIDE DEF u
  <2>5. u = t
    BY <2>4, SeqEqual
  <2> QED BY <2>5 DEF u
<1>10. SubSeq(s, Len(h) + 1, Len(h) + Len(a)) = a
  BY <1>1, <1>4, <1>6, <1>9
<1>11. SubSeq(s, Len(h) + Len(a) + 1, Len(h) + Len(a) + Len(b)) = b
  BY <1>1, <1>4, <1>7, <1>9
<1>12. SubSeq(s, Len(h) + Len(a) + Len(b) + 1, Len(s)) = r
  BY <1>1, <1>4, <1>8, <1>9
<1> QED BY <1>4, <1>5, <1>10, <1>11, <1>12 DEF IsJoined

\* What a frame is made of: a header, the source, the payload.
Header(m) ==
  IF m.source = Legacy
    THEN <<LegacyProtocolVersion, m.type, m.content, Len(m.payload)>>
    ELSE <<ProtocolVersion, m.type, m.content, m.ts, Len(m.source), Len(m.payload)>>

LEMMA FrameParts ==
  ASSUME NEW m \in Made
  PROVE  /\ m.source \in Bytes /\ m.payload \in Bytes /\ Header(m) \in Bytes
         /\ Len(m.source) \in Nat /\ Len(m.payload) \in Nat
         /\ Frame(m) = Header(m) \o m.source \o m.payload
         /\ Len(Header(m)) = HeaderSize(m.version)
<1>1. /\ m.source \in Bytes /\ m.payload \in Bytes /\ m.content \in Nat /\ m.ts \in Nat
      /\ m.type \in Nat /\ Len(m.source) \in Nat /\ Len(m.payload) \in Nat
  <2>1. /\ m.source \in Others \cup {Self} /\ m.payload \in Bytes /\ m.content \in Contents
        /\ m.ts \in Nat /\ m.type \in MessageTypes
    BY DEF Made
  <2>2. Others \cup {Self} \subseteq Seq(Nat) /\ Contents \subseteq Nat
    BY InboundAssumption
  <2>3. MessageTypes \subseteq Nat
    BY DEF MessageTypes, TypeText, TypeFileFetch
  <2>4. m.source \in Bytes
    BY <2>1, <2>2 DEF Bytes
  <2>5. Len(m.source) \in Nat /\ Len(m.payload) \in Nat
    BY <2>1, <2>4 DEF Bytes
  <2> QED BY <2>1, <2>2, <2>3, <2>4, <2>5
<1>2. CASE m.source = Legacy
  <2> DEFINE H == <<LegacyProtocolVersion, m.type, m.content, Len(m.payload)>>
  <2>1. H \in Bytes /\ Len(H) = 4
    BY <1>1 DEF Bytes, LegacyProtocolVersion
  <2>2. Frame(m) = H \o m.payload /\ Header(m) = H /\ m.version = LegacyProtocolVersion
    BY <1>2 DEF Frame, EncodeLegacy, Header, Made
  <2> HIDE DEF H
  <2>3. H \o m.source = H
    BY <1>2, <2>1, ConcatEmptySeq DEF Legacy, Bytes
  <2> QED BY <1>1, <2>1, <2>2, <2>3 DEF HeaderSize
<1>3. CASE m.source # Legacy
  <2> DEFINE H == <<ProtocolVersion, m.type, m.content, m.ts, Len(m.source), Len(m.payload)>>
  <2>1. H \in Bytes /\ Len(H) = 6
    BY <1>1 DEF Bytes, ProtocolVersion
  <2>2. Frame(m) = H \o m.source \o m.payload /\ Header(m) = H
    BY <1>3 DEF Frame, Encode, Header
  <2>3. m.version = ProtocolVersion /\ HeaderSize(m.version) = 6
    BY <1>3 DEF Made, HeaderSize, ProtocolVersion, LegacyProtocolVersion
  <2> HIDE DEF H
  <2> QED BY <1>1, <2>1, <2>2, <2>3
<1> QED BY <1>2, <1>3

\* A stream that starts like a frame, read as far as its header goes.
LEMMA HeaderFields ==
  ASSUME NEW m \in Made, NEW s \in Bytes, Len(s) >= Len(Header(m)),
         \A i \in 1 .. Len(Header(m)) : s[i] = Header(m)[i]
  PROVE  /\ s[1] = m.version /\ s[2] = m.type /\ s[3] = m.content
         /\ m.version = LegacyProtocolVersion => s[4] = Len(m.payload)
         /\ m.version = ProtocolVersion => s[4] = m.ts /\ s[5] = Len(m.source) /\ s[6] = Len(m.payload)
<1>1. CASE m.source = Legacy
  BY <1>1 DEF Header, Made, LegacyProtocolVersion, ProtocolVersion
<1>2. CASE m.source # Legacy
  BY <1>2 DEF Header, Made, LegacyProtocolVersion, ProtocolVersion
<1> QED BY <1>1, <1>2

\* Decode takes a frame off the front of a stream: it gives the message that
\* was encoded and leaves what follows.
LEMMA DecodeFrame ==
  ASSUME NEW m \in Made, Encodable(m), NEW r \in Bytes
  PROVE  /\ Frame(m) \o r \in Bytes
         /\ Decode(Frame(m) \o r) = [result |-> "message", msg |-> m, rest |-> r]
<1> DEFINE s == Frame(m) \o r
           h == Len(Header(m))
           a == Len(m.source)
           b == Len(m.payload)
<1>1. /\ s \in Bytes /\ Len(s) = h + a + b + Len(r)
      /\ \A i \in 1 .. h : s[i] = Header(m)[i]
      /\ SubSeq(s, h + 1, h + a) = m.source
      /\ SubSeq(s, h + a + 1, h + a + b) = m.payload
      /\ SubSeq(s, h + a + b + 1, Len(s)) = r
  <2>1. PICK H, S, P : H = Header(m) /\ S = m.source /\ P = m.payload
    OBVIOUS
  <2>2. /\ s = H \o S \o P \o r /\ h = Len(H) /\ a = Len(S) /\ b = Len(P)
        /\ H \in Bytes /\ S \in Bytes /\ P \in Bytes
    BY <2>1, FrameParts
  <2> HIDE DEF s, h, a, b
  <2>3. IsJoined(s, H, S, P, r)
    BY <2>2, Parts
  <2>4. IsJoined(s, Header(m), m.source, m.payload, r)
    BY <2>1, <2>3
  <2> QED BY <2>4 DEF IsJoined, h, a, b
<1>2. h = HeaderSize(m.version) /\ h \in {4, 6} /\ a \in Nat /\ b \in Nat /\ Len(r) \in Nat
  <2>1. h = HeaderSize(m.version) /\ a \in Nat /\ b \in Nat
    BY FrameParts
  <2>2. HeaderSize(m.version) \in {4, 6} /\ Len(r) \in Nat
    BY DEF HeaderSize, Bytes
  <2> HIDE DEF h, a, b
  <2> QED BY <2>1, <2>2
<1>3. /\ m.version \in {LegacyProtocolVersion, ProtocolVersion} /\ m.type \in MessageTypes
      /\ m.version = LegacyProtocolVersion => a = 0 /\ m.ts = 0
      /\ m = [version |-> m.version, type |-> m.type, content |-> m.content,
              source |-> m.source, ts |-> m.ts, payload |-> m.payload]
  BY DEF Made, Legacy, LegacyProtocolVersion, ProtocolVersion
<1>4. b <= MaxPayloadSize /\ a <= MaxSourceSize
  BY DEF Encodable
<1> HIDE DEF s, h, a, b
<1>5. Len(s) >= h
  BY <1>1, <1>2
<1>6. /\ s[1] = m.version /\ s[2] = m.type /\ s[3] = m.content
      /\ m.version = LegacyProtocolVersion => s[4] = b
      /\ m.version = ProtocolVersion => s[4] = m.ts /\ s[5] = a /\ s[6] = b
  BY <1>1, <1>5, HeaderFields DEF h, a, b
<1>7. MaxPayloadSize \in Nat /\ MaxSourceSize \in Nat
  BY WireFormatAssumption
<1>8. CASE m.version = LegacyProtocolVersion
  <2>1. h = 4 /\ m.version # ProtocolVersion
    BY <1>2, <1>8 DEF HeaderSize, LegacyProtocolVersion, ProtocolVersion
  <2>2. ~ (Len(s) < 2) /\ ~ (Len(s) < HeaderSize(s[1])) /\ HeaderSize(s[1]) = 4
    BY <1>1, <1>2, <1>6, <2>1
  <2>3. s[4] = b /\ ~ (s[4] > MaxPayloadSize) /\ ~ (0 > MaxSourceSize) /\ ~ (Len(s) < 4 + 0 + b)
    BY <1>1, <1>2, <1>3, <1>4, <1>6, <1>7, <1>8, <2>1
  <2>4. Decode(s) = [result |-> "message",
                     msg |-> [version |-> s[1], type |-> s[2], content |-> s[3],
                              source |-> SubSeq(s, 4 + 1, 4 + 0), ts |-> 0,
                              payload |-> SubSeq(s, 4 + 0 + 1, 4 + 0 + b)],
                     rest |-> SubSeq(s, 4 + 0 + b + 1, Len(s))]
    BY <1>3, <1>6, <1>8, <2>2, <2>3 DEF Decode
  <2>5. a = 0 /\ m.ts = 0
    BY <1>3, <1>8
  <2>6. /\ SubSeq(s, 4 + 1, 4 + 0) = m.source
        /\ SubSeq(s, 4 + 0 + 1, 4 + 0 + b) = m.payload
        /\ SubSeq(s, 4 + 0 + b + 1, Len(s)) = r
    BY <1>1, <2>1, <2>5
  <2> QED BY <1>1, <1>3, <1>6, <2>4, <2>5, <2>6 DEF s
<1>9. CASE m.version = ProtocolVersion
  <2>1. h = 6 /\ m.version # LegacyProtocolVersion
    BY <1>2, <1>9 DEF HeaderSize, LegacyProtocolVersion, ProtocolVersion
  <2>2. ~ (Len(s) < 2) /\ ~ (Len(s) < HeaderSize(s[1])) /\ HeaderSize(s[1]) = 6
    BY <1>1, <1>2, <1>6, <2>1
  <2>3. /\ s[5] = a /\ s[6] = b /\ ~ (s[6] > MaxPayloadSize) /\ ~ (a > MaxSourceSize)
        /\ ~ (Len(s) < 6 + a + b)
    BY <1>1, <1>2, <1>4, <1>6, <1>7, <1>9, <2>1
  <2>4. Decode(s) = [result |-> "message",
                     msg |-> [version |-> s[1], type |-> s[2], content |-> s[3],
                              source |-> SubSeq(s, 6 + 1, 6 + a), ts |-> s[4],
                              payload |-> SubSeq(s, 6 + a + 1, 6 + a + b)],
                     rest |-> SubSeq(s, 6 + a + b + 1, Len(s))]
    BY <1>3, <1>6, <1>9, <2>1, <2>2, <2>3 DEF Decode
  <2>5. /\ SubSeq(s, 6 + 1, 6 + a) = m.source
        /\ SubSeq(s, 6 + a + 1, 6 + a + b) = m.payload
        /\ SubSeq(s, 6 + a + b + 1, Len(s)) = r
    BY <1>1, <2>1
  <2> QED BY <1>1, <1>3, <1>6, <1>9, <2>4, <2>5 DEF s
<1> QED BY <1>3, <1>8, <1>9

\* A frame that is cut off anywhere is not a message yet, nor refused.
LEMMA DecodeCut ==
  ASSUME NEW m \in Made, Encodable(m), NEW k \in Nat, k < Len(Frame(m))
  PROVE  Decode(SubSeq(Frame(m), 1, k)) = Incomplete
<1> DEFINE f == Frame(m)
           s == SubSeq(f, 1, k)
           h == Len(Header(m))
           a == Len(m.source)
           b == Len(m.payload)
<1>1. f \in Bytes /\ Len(f) = h + a + b /\ \A i \in 1 .. h : f[i] = Header(m)[i]
  <2>1. << >> \in Bytes /\ Len(<< >>) = 0
    BY DEF Bytes
  <2>2. PICK H, S, P : H = Header(m) /\ S = m.source /\ P = m.payload
    OBVIOUS
  <2>3. /\ f = H \o S \o P /\ h = Len(H) /\ a = Len(S) /\ b = Len(P)
        /\ H \in Bytes /\ S \in Bytes /\ P \in Bytes
    BY <2>2, FrameParts
  <2> DEFINE g == f \o << >>
  <2>4. g = H \o S \o P \o << >>
    BY <2>3
  <2>5. f \in Bytes
    BY <2>3, ConcatProperties DEF Bytes
  <2>6. g = f
    BY <2>5, ConcatEmptySeq DEF Bytes
  <2> HIDE DEF f, g, h, a, b
  <2>7. IsJoined(g, H, S, P, << >>)
    BY <2>1, <2>3, <2>4, Parts
  <2>8. Len(H) \in Nat /\ Len(S) \in Nat /\ Len(P) \in Nat
    BY <2>3 DEF Bytes
  <2>9. Len(f) = h + a + b
    BY <2>1, <2>3, <2>6, <2>7, <2>8 DEF IsJoined
  <2>10. \A i \in 1 .. h : f[i] = Header(m)[i]
    BY <2>2, <2>3, <2>6, <2>7 DEF IsJoined
  <2> QED BY <2>5, <2>9, <2>10
<1>2. h = HeaderSize(m.version) /\ h \in {4, 6} /\ a \in Nat /\ b \in Nat
  BY FrameParts DEF HeaderSize
<1>3. m.version \in {LegacyProtocolVersion, ProtocolVersion} /\ m.type \in MessageTypes
      /\ (m.version = LegacyProtocolVersion => a = 0)
  BY DEF Made, Legacy, LegacyProtocolVersion, ProtocolVersion
<1>4. b <= MaxPayloadSize /\ a <= MaxSourceSize
  BY DEF Encodable
<1> HIDE DEF f, h, a, b
<1>5. s \in Bytes /\ Len(s) = k /\ \A i \in 1 .. k : s[i] = f[i]
  <2>1. \A i \in 1 .. k : f[i] \in Nat
    <3>1. f \in Seq(Nat) /\ Len(f) = h + a + b
      BY <1>1 DEF Bytes
    <3>2. k < Len(f)
      BY DEF f
    <3>3. \A i \in 1 .. k : i \in 1 .. Len(f)
      BY <1>2, <3>1, <3>2
    <3> QED BY <3>1, <3>3
  <2>2. /\ s \in Seq(Nat) /\ Len(s) = IF 1 <= k THEN k - 1 + 1 ELSE 0
        /\ \A i \in 1 .. k - 1 + 1 : s[i] = f[1 + i - 1]
    BY <2>1, SubSeqProperties
  <2> HIDE DEF s
  <2> QED BY <2>2 DEF Bytes
<1> HIDE DEF s
<1>6. MaxPayloadSize \in Nat /\ MaxSourceSize \in Nat
  BY WireFormatAssumption
<1>7. CASE k < 2
  BY <1>5, <1>7 DEF Decode, s, f
<1>8. CASE k >= 2 /\ k < h
  <2>1. Header(m)[1] = m.version /\ Header(m)[2] = m.type
    BY DEF Header, Made, Legacy
  <2>2. s[1] = m.version /\ s[2] = m.type
    BY <1>1, <1>2, <1>5, <1>8, <2>1
  <2>3. ~ (Len(s) < 2) /\ Len(s) < HeaderSize(s[1])
    BY <1>2, <1>5, <1>8, <2>2
  <2> QED BY <1>3, <2>2, <2>3 DEF Decode, s, f
<1>9. CASE k >= h
  <2>1. Len(s) >= h /\ \A i \in 1 .. h : s[i] = Header(m)[i]
    BY <1>1, <1>2, <1>5, <1>9
  <2>2. /\ s[1] = m.version /\ s[2] = m.type /\ s[3] = m.content
        /\ m.version = LegacyProtocolVersion => s[4] = b
        /\ m.version = ProtocolVersion => s[4] = m.ts /\ s[5] = a /\ s[6] = b
    BY <1>5, <2>1, HeaderFields DEF h, a, b
  <2>3. k < h + a + b
    BY <1>1 DEF f
  <2>4. ~ (Len(s) < 2) /\ ~ (Len(s) < HeaderSize(s[1])) /\ HeaderSize(s[1]) = h
    BY <1>2, <1>5, <1>9, <2>2
  <2>5. CASE m.version = LegacyProtocolVersion
    <3>1. h = 4 /\ s[4] = b /\ a = 0
      BY <1>2, <1>3, <2>2, <2>5 DEF HeaderSize
    <3>2. ~ (s[4] > MaxPayloadSize) /\ ~ (0 > MaxSourceSize) /\ Len(s) < 4 + 0 + s[4]
      BY <1>2, <1>4, <1>5, <1>6, <2>3, <3>1
    <3>3. Decode(s) = Incomplete
      BY <1>3, <2>2, <2>4, <2>5, <3>1, <3>2 DEF Decode
    <3> QED BY <3>3 DEF s, f
  <2>6. CASE m.version = ProtocolVersion
    <3>1. h = 6 /\ s[5] = a /\ s[6] = b /\ m.version # LegacyProtocolVersion
      BY <1>2, <2>2, <2>6 DEF HeaderSize, LegacyProtocolVersion, ProtocolVersion
    <3>2. ~ (s[6] > MaxPayloadSize) /\ ~ (s[5] > MaxSourceSize) /\ Len(s) < 6 + s[5] + s[6]
      BY <1>2, <1>4, <1>5, <1>6, <2>3, <3>1
    <3>3. Decode(s) = Incomplete
      BY <1>3, <2>2, <2>4, <2>6, <3>1, <3>2 DEF Decode
    <3> QED BY <3>3 DEF s, f
  <2> QED BY <1>3, <2>5, <2>6
<1> QED BY <1>2, <1>7, <1>8, <1>9
-----------------------------------------------------------------------------
(* Streams *)

\* The streams of whole frames of messages of M that end in one of Ends.  They
\* are the least set that holds Ends and any of its own members after a frame.
Closed(S, Ends, M) == Ends \subseteq S /\ \A m \in M, r \in S : Frame(m) \o r \in S

Streams(Ends, M) == {s \in Bytes : \A S \in SUBSET Bytes : Closed(S, Ends, M) => s \in S}

\* On an open connection nothing is cut off; on a broken one, what comes last may be.
Whole(M) == Streams({<< >>}, M)

Pieces(M) == {t \in Bytes : \E m \in M : \E k \in Nat : k < Len(Frame(m)) /\ t = SubSeq(Frame(m), 1, k)}

Cut(M) == Streams({<< >>} \cup Pieces(M), M)

LEMMA FrameBytes ==
  ASSUME NEW m \in Made
  PROVE  Frame(m) \in Bytes
<1>1. PICK H, S, P : H = Header(m) /\ S = m.source /\ P = m.payload
  OBVIOUS
<1>2. Frame(m) = H \o S \o P /\ H \in Seq(Nat) /\ S \in Seq(Nat) /\ P \in Seq(Nat)
  BY <1>1, FrameParts DEF Bytes
<1> QED BY <1>2, ConcatProperties DEF Bytes

LEMMA JoinBytes ==
  ASSUME NEW s \in Bytes, NEW t \in Bytes
  PROVE  s \o t \in Bytes /\ Len(s \o t) = Len(s) + Len(t) /\ Len(s) \in Nat /\ Len(t) \in Nat
  BY ConcatProperties DEF Bytes

LEMMA JoinAssociative ==
  ASSUME NEW s \in Bytes, NEW t \in Bytes, NEW u \in Bytes
  PROVE  s \o (t \o u) = (s \o t) \o u
<1>1. s \in Seq(Nat) /\ t \in Seq(Nat) /\ u \in Seq(Nat)
  BY DEF Bytes
<1>2. PICK p, q, v, w : p = s \o t /\ q = t \o u /\ v = s \o q /\ w = p \o u
  OBVIOUS
<1>3. Len(s) \in Nat /\ Len(t) \in Nat /\ Len(u) \in Nat
  BY <1>1
<1>4. /\ p \in Seq(Nat) /\ Len(p) = Len(s) + Len(t)
      /\ \A i \in 1 .. Len(s) + Len(t) : p[i] = IF i <= Len(s) THEN s[i] ELSE t[i - Len(s)]
  BY <1>1, <1>2, ConcatProperties
<1>5. /\ q \in Seq(Nat) /\ Len(q) = Len(t) + Len(u)
      /\ \A i \in 1 .. Len(t) + Len(u) : q[i] = IF i <= Len(t) THEN t[i] ELSE u[i - Len(t)]
  BY <1>1, <1>2, ConcatProperties
<1>6. /\ v \in Seq(Nat) /\ Len(v) = Len(s) + Len(q)
      /\ \A i \in 1 .. Len(s) + Len(q) : v[i] = IF i <= Len(s) THEN s[i] ELSE q[i - Len(s)]
  BY <1>1, <1>2, <1>5, ConcatProperties
<1>7. /\ w \in Seq(Nat) /\ Len(w) = Len(p) + Len(u)
      /\ \A i \in 1 .. Len(p) + Len(u) : w[i] = IF i <= Len(p) THEN p[i] ELSE u[i - Len(p)]
  BY <1>1, <1>2, <1>4, ConcatProperties
<1>8. Len(v) = Len(w)
  BY <1>3, <1>4, <1>5, <1>6, <1>7
<1>9. \A i \in 1 .. Len(v) : v[i] = w[i]
  <2> TAKE i \in 1 .. Len(v)
  <2>1. i \in Nat /\ i >= 1 /\ i <= Len(s) + Len(t) + Len(u)
    BY <1>3, <1>5, <1>6
  <2>2. /\ i \in 1 .. Len(s) + Len(q) /\ i \in 1 .. Len(p) + Len(u)
        /\ v[i] = IF i <= Len(s) THEN s[i] ELSE q[i - Len(s)]
        /\ w[i] = IF i <= Len(p) THEN p[i] ELSE u[i - Len(p)]
    <3>1. i \in 1 .. Len(s) + Len(q) /\ i \in 1 .. Len(p) + Len(u)
      BY <1>3, <1>4, <1>5, <2>1
    <3>2. v[i] = IF i <= Len(s) THEN s[i] ELSE q[i - Len(s)]
      BY ONLY <1>6, <3>1
    <3>3. w[i] = IF i <= Len(p) THEN p[i] ELSE u[i - Len(p)]
      BY ONLY <1>7, <3>1
    <3> QED BY <3>1, <3>2, <3>3
  <2>3. CASE i <= Len(s)
    <3>1. i \in 1 .. Len(s) + Len(t) /\ i <= Len(p)
      BY <1>3, <1>4, <2>1, <2>3
    <3>2. p[i] = s[i]
      BY <1>4, <2>3, <3>1
    <3> QED BY <2>2, <2>3, <3>1, <3>2
  <2>4. CASE ~ (i <= Len(s))
    <3>1. PICK j : j = i - Len(s)
      OBVIOUS
    <3>2. j \in 1 .. Len(t) + Len(u) /\ v[i] = q[j]
      BY <1>3, <2>1, <2>2, <2>4, <3>1
    <3>3. q[j] = IF j <= Len(t) THEN t[j] ELSE u[j - Len(t)]
      BY <1>5, <3>2
    <3>4. CASE j <= Len(t)
      <4>1. i \in 1 .. Len(s) + Len(t) /\ i <= Len(p)
        BY <1>3, <1>4, <2>1, <3>1, <3>4
      <4>2. p[i] = t[j]
        BY <1>4, <2>4, <3>1, <4>1
      <4> QED BY <2>2, <3>2, <3>3, <3>4, <4>1, <4>2
    <3>5. CASE ~ (j <= Len(t))
      <4>1. ~ (i <= Len(p)) /\ i - Len(p) = j - Len(t)
        BY <1>3, <1>4, <2>1, <3>1, <3>5
      <4> QED BY <2>2, <3>2, <3>3, <3>5, <4>1
    <3> QED BY <3>4, <3>5
  <2> QED BY <2>3, <2>4
<1>10. v = w
  BY <1>6, <1>7, <1>8, <1>9, SeqEqual
<1> QED BY <1>2, <1>10

\* The streams are closed themselves, ...
LEMMA StreamsClosed ==
  ASSUME NEW M \in SUBSET Made, NEW Ends \in SUBSET Bytes
  PROVE  Closed(Streams(Ends, M), Ends, M)
<1>1. Ends \subseteq Streams(Ends, M)
  BY DEF Streams, Closed
<1>2. ASSUME NEW m \in M, NEW r \in Streams(Ends, M)
      PROVE  Frame(m) \o r \in Streams(Ends, M)
  <2>1. r \in Bytes /\ Frame(m) \o r \in Bytes
    BY FrameBytes, JoinBytes DEF Streams
  <2>2. ASSUME NEW S \in SUBSET Bytes, Closed(S, Ends, M)
        PROVE  Frame(m) \o r \in S
    BY <2>2 DEF Streams, Closed
  <2> QED BY <2>1, <2>2 DEF Streams
<1> QED BY <1>1, <1>2 DEF Closed

\* ... they are in every closed set, ...
LEMMA StreamsLeast ==
  ASSUME NEW M \in SUBSET Made, NEW Ends \in SUBSET Bytes,
         NEW S \in SUBSET Bytes, Closed(S, Ends, M)
  PROVE  Streams(Ends, M) \subseteq S
  BY DEF Streams

\* ... and each is an end or starts with a frame.
LEMMA StreamStarts ==
  ASSUME NEW M \in SUBSET Made, NEW Ends \in SUBSET Bytes, NEW s \in Streams(Ends, M)
  PROVE  \/ s \in Ends
         \/ \E m \in M, r \in Streams(Ends, M) : s = Frame(m) \o r
<1> DEFINE S == Ends \cup {t \in Bytes : \E m \in M, r \in Streams(Ends, M) : t = Frame(m) \o r}
<1>1. S \in SUBSET Bytes
  OBVIOUS
<1>2. Closed(Streams(Ends, M), Ends, M)
  BY StreamsClosed
<1>3. S \subseteq Streams(Ends, M)
  BY <1>2 DEF Closed
<1>4. ASSUME NEW m \in M, NEW r \in S PROVE Frame(m) \o r \in S
  <2>1. r \in Streams(Ends, M) /\ r \in Bytes
    BY <1>1, <1>3
  <2>2. Frame(m) \o r \in Bytes
    BY <2>1, FrameBytes, JoinBytes
  <2> QED BY <2>1, <2>2
<1>5. Closed(S, Ends, M)
  BY <1>4 DEF Closed
<1>6. Streams(Ends, M) \subseteq S
  <2> HIDE DEF S
  <2> QED BY <1>1, <1>5, StreamsLeast
<1> QED BY <1>6

\* More messages and more ends make more streams.
LEMMA StreamsGrow ==
  ASSUME NEW M \in SUBSET Made, NEW N \in SUBSET Made, M \subseteq N,
         NEW Ends \in SUBSET Bytes, NEW More \in SUBSET Bytes, Ends \subseteq More
  PROVE  Streams(Ends, M) \subseteq Streams(More, N)
<1>1. Closed(Streams(More, N), More, N)
  BY StreamsClosed
<1>2. Closed(Streams(More, N), Ends, M)
  BY <1>1 DEF Closed
<1>3. Streams(More, N) \in SUBSET Bytes
  BY DEF Streams
<1> QED BY <1>2, <1>3, StreamsLeast

LEMMA EndsAreBytes ==
  ASSUME NEW M \in SUBSET Made
  PROVE  {<< >>} \in SUBSET Bytes /\ {<< >>} \cup Pieces(M) \in SUBSET Bytes
<1>1. << >> \in Bytes
  BY DEF Bytes
<1>2. Pieces(M) \subseteq Bytes
  BY DEF Pieces
<1> QED BY <1>1, <1>2

LEMMA WholeAndCut ==
  ASSUME NEW M \in SUBSET Made, NEW N \in SUBSET Made, M \subseteq N
  PROVE  /\ Whole(M) \subseteq Whole(N) /\ Cut(M) \subseteq Cut(N)
         /\ << >> \in Whole(M) /\ << >> \in Cut(M)
         /\ Whole(M) \subseteq Bytes /\ Cut(M) \subseteq Bytes
<1>1. {<< >>} \cup Pieces(M) \subseteq {<< >>} \cup Pieces(N)
  BY DEF Pieces
<1>2. Whole(M) \subseteq Whole(N)
  BY StreamsGrow, EndsAreBytes DEF Whole
<1>3. Cut(M) \subseteq Cut(N)
  <2> DEFINE E == {<< >>} \cup Pieces(M)
             F == {<< >>} \cup Pieces(N)
  <2>1. E \in SUBSET Bytes /\ F \in SUBSET Bytes /\ E \subseteq F
    BY <1>1, EndsAreBytes
  <2>2. Streams(E, M) \subseteq Streams(F, N)
    <3> HIDE DEF E, F
    <3> QED BY <2>1, StreamsGrow
  <2> QED BY <2>2 DEF Cut
<1>4. << >> \in Whole(M) /\ << >> \in Cut(M)
  BY StreamsClosed, EndsAreBytes DEF Whole, Cut, Closed
<1> QED BY <1>2, <1>3, <1>4 DEF Whole, Cut, Streams

\* A writer adds a frame at the end of a stream.
LEMMA FrameAppended ==
  ASSUME NEW M \in SUBSET Made, NEW s \in Whole(M), NEW m \in M
  PROVE  s \o Frame(m) \in Whole(M)
<1> DEFINE S == {t \in Whole(M) : t \o Frame(m) \in Whole(M)}
<1>1. Closed(Whole(M), {<< >>}, M) /\ Whole(M) \in SUBSET Bytes
  BY StreamsClosed, EndsAreBytes, WholeAndCut DEF Whole
<1>2. << >> \in S
  <2>1. << >> \in Whole(M) /\ Frame(m) \in Seq(Nat)
    BY WholeAndCut, FrameBytes DEF Bytes
  <2>2. << >> \o Frame(m) = Frame(m) /\ Frame(m) \o << >> = Frame(m)
    BY <2>1, ConcatEmptySeq
  <2>3. Frame(m) \o << >> \in Whole(M)
    BY <1>1, <2>1 DEF Closed
  <2> QED BY <2>1, <2>2, <2>3
<1>3. ASSUME NEW n \in M, NEW t \in S PROVE Frame(n) \o t \in S
  <2>1. t \in Whole(M) /\ t \o Frame(m) \in Whole(M) /\ t \in Bytes
    BY <1>1
  <2>2. Frame(n) \o t \in Whole(M) /\ Frame(n) \o (t \o Frame(m)) \in Whole(M)
    BY <1>1, <2>1 DEF Closed
  <2>3. PICK f, g : f = Frame(n) /\ g = Frame(m)
    OBVIOUS
  <2>4. f \in Seq(Nat) /\ g \in Seq(Nat) /\ t \in Seq(Nat)
    BY <2>1, <2>3, FrameBytes DEF Bytes
  <2>5. f \o (t \o g) = (f \o t) \o g
    BY ONLY <2>4, JoinAssociative DEF Bytes
  <2> QED BY <2>2, <2>3, <2>5
<1>4. Closed(S, {<< >>}, M) /\ S \in SUBSET Bytes
  BY <1>1, <1>2, <1>3 DEF Closed
<1>5. Whole(M) \subseteq S
  <2> HIDE DEF S
  <2> QED BY <1>4, StreamsLeast, EndsAreBytes DEF Whole
<1> QED BY <1>5

\* What remains of two sequences that are cut off together.
LEMMA CutJoined ==
  ASSUME NEW f \in Bytes, NEW r \in Bytes, NEW k \in 0 .. Len(f \o r)
  PROVE  /\ k < Len(f) => SubSeq(f \o r, 1, k) = SubSeq(f, 1, k)
         /\ k >= Len(f) => /\ k - Len(f) \in 0 .. Len(r)
                           /\ SubSeq(f \o r, 1, k) = f \o SubSeq(r, 1, k - Len(f))
<1>1. SUFFICES ASSUME NEW s, s = f \o r
               PROVE  /\ k < Len(f) => SubSeq(s, 1, k) = SubSeq(f, 1, k)
                      /\ k >= Len(f) => /\ k - Len(f) \in 0 .. Len(r)
                                        /\ SubSeq(s, 1, k) = f \o SubSeq(r, 1, k - Len(f))
  OBVIOUS
<1>2. /\ s \in Seq(Nat) /\ Len(s) = Len(f) + Len(r) /\ Len(f) \in Nat /\ Len(r) \in Nat
      /\ f \in Seq(Nat) /\ r \in Seq(Nat)
      /\ \A i \in 1 .. Len(f) + Len(r) : s[i] = IF i <= Len(f) THEN f[i] ELSE r[i - Len(f)]
  BY <1>1, ConcatProperties DEF Bytes
<1>3. k \in Nat /\ k <= Len(f) + Len(r)
  BY <1>1, <1>2
<1>4. ASSUME NEW t \in Seq(Nat), NEW j \in 0 .. Len(t)
      PROVE  /\ SubSeq(t, 1, j) \in Seq(Nat) /\ Len(SubSeq(t, 1, j)) = j
             /\ \A i \in 1 .. j : SubSeq(t, 1, j)[i] = t[i]
  <2>1. \A i \in 1 .. j : t[i] \in Nat
    OBVIOUS
  <2>2. /\ SubSeq(t, 1, j) \in Seq(Nat)
        /\ Len(SubSeq(t, 1, j)) = IF 1 <= j THEN j - 1 + 1 ELSE 0
        /\ \A i \in 1 .. j - 1 + 1 : SubSeq(t, 1, j)[i] = t[1 + i - 1]
    BY <2>1, SubSeqProperties
  <2>3. j \in Nat
    OBVIOUS
  <2>4. (IF 1 <= j THEN j - 1 + 1 ELSE 0) = j /\ j - 1 + 1 = j /\ \A i \in 1 .. j : 1 + i - 1 = i
    BY <2>3
  <2> QED BY ONLY <2>2, <2>4
<1>5. /\ SubSeq(s, 1, k) \in Seq(Nat) /\ Len(SubSeq(s, 1, k)) = k
      /\ \A i \in 1 .. k : SubSeq(s, 1, k)[i] = s[i]
  BY <1>2, <1>3, <1>4
<1>6. PICK u : u = SubSeq(s, 1, k)
  OBVIOUS
<1>7. u \in Seq(Nat) /\ Len(u) = k /\ \A i \in 1 .. k : u[i] = s[i]
  BY <1>5, <1>6
<1>8. CASE k < Len(f)
  <2>1. PICK t : t = SubSeq(f, 1, k)
    OBVIOUS
  <2>2. t \in Seq(Nat) /\ Len(t) = k /\ \A i \in 1 .. k : t[i] = f[i]
    BY <1>2, <1>3, <1>4, <1>8, <2>1
  <2>3. \A i \in 1 .. k : u[i] = t[i]
    <3> TAKE i \in 1 .. k
    <3>1. u[i] = s[i] /\ t[i] = f[i]
      BY <1>7, <2>2
    <3>2. i \in 1 .. Len(f) + Len(r) /\ i <= Len(f)
      BY <1>2, <1>3, <1>8
    <3> QED BY <1>2, <3>1, <3>2
  <2>4. u = t
    BY <1>7, <2>2, <2>3, SeqEqual
  <2> QED BY <1>2, <1>3, <1>6, <1>8, <2>1, <2>4, SMTT(20)
<1>9. CASE k >= Len(f)
  <2>1. PICK j : j = k - Len(f)
    OBVIOUS
  <2>2. j \in 0 .. Len(r) /\ k = Len(f) + j
    BY <1>2, <1>3, <1>9, <2>1
  <2>3. PICK t : t = SubSeq(r, 1, j)
    OBVIOUS
  <2>4. t \in Seq(Nat) /\ Len(t) = j /\ \A i \in 1 .. j : t[i] = r[i]
    BY <1>2, <1>4, <2>2, <2>3
  <2>5. PICK v : v = f \o t
    OBVIOUS
  <2>6. /\ v \in Seq(Nat) /\ Len(v) = Len(f) + Len(t)
        /\ \A i \in 1 .. Len(f) + Len(t) : v[i] = IF i <= Len(f) THEN f[i] ELSE t[i - Len(f)]
    <3>1. f \in Seq(Nat) /\ t \in Seq(Nat)
      BY <1>2, <2>4
    <3> QED BY ONLY <3>1, <2>5, ConcatProperties
  <2>7. \A i \in 1 .. k : u[i] = v[i]
    <3> TAKE i \in 1 .. k
    <3>1. u[i] = s[i] /\ i \in 1 .. Len(f) + Len(r) /\ i \in 1 .. Len(f) + Len(t)
      BY <1>2, <1>3, <1>7, <2>2, <2>4
    <3>2. CASE i <= Len(f)
      BY <1>2, <2>6, <3>1, <3>2
    <3>3. CASE ~ (i <= Len(f))
      <4>1. i - Len(f) \in 1 .. j
        BY <1>2, <1>3, <2>2, <3>3
      <4> QED BY <1>2, <2>4, <2>6, <3>1, <3>3, <4>1
    <3> QED BY <3>2, <3>3
  <2>8. u = v
    BY <1>7, <2>2, <2>4, <2>6, <2>7, SeqEqual
  <2>9. k - Len(f) \in 0 .. Len(r) /\ SubSeq(s, 1, k) = f \o SubSeq(r, 1, k - Len(f))
    BY ONLY <1>6, <2>1, <2>2, <2>3, <2>5, <2>8
  <2>10. ~ (k < Len(f))
    BY <1>2, <1>3, <1>9
  <2> QED BY ONLY <2>9, <2>10
<1> QED BY <1>2, <1>3, <1>8, <1>9

\* A connection that breaks leaves whole frames, and maybe the start of another.
LEMMA StreamCut ==
  ASSUME NEW M \in SUBSET Made, NEW s \in Whole(M), NEW k \in 0 .. Len(s)
  PROVE  SubSeq(s, 1, k) \in Cut(M)
<1> DEFINE S == {t \in Bytes : \A j \in 0 .. Len(t) : SubSeq(t, 1, j) \in Cut(M)}
<1>1. << >> \in S
  <2>1. << >> \in Bytes /\ << >> \in Cut(M)
    BY WholeAndCut DEF Bytes
  <2>2. ASSUME NEW j \in 0 .. Len(<< >>) PROVE SubSeq(<< >>, 1, j) = << >>
    OBVIOUS
  <2> QED BY <2>1, <2>2
<1>2. Closed(Cut(M), {<< >>} \cup Pieces(M), M)
  BY StreamsClosed, EndsAreBytes DEF Cut
<1>3. ASSUME NEW m \in M, NEW r \in S PROVE Frame(m) \o r \in S
  <2>1. PICK f : f = Frame(m)
    OBVIOUS
  <2>2. f \in Bytes /\ r \in Bytes /\ f \o r \in Bytes /\ Len(f) \in Nat
    BY <2>1, FrameBytes, JoinBytes
  <2>3. ASSUME NEW j \in 0 .. Len(f \o r) PROVE SubSeq(f \o r, 1, j) \in Cut(M)
    <3>1. j \in Nat /\ (j < Len(f) \/ j >= Len(f))
      BY <2>2
    <3>2. CASE j < Len(f)
      <4>1. SubSeq(f \o r, 1, j) = SubSeq(f, 1, j)
        BY <2>2, <3>2, CutJoined
      <4>2. SubSeq(f, 1, j) \in Bytes
        <5>1. \A i \in 1 .. j : f[i] \in Nat
          BY <2>2, <3>1, <3>2 DEF Bytes
        <5> QED BY <3>1, <5>1, SubSeqProperties DEF Bytes
      <4>3. SubSeq(f, 1, j) \in Pieces(M)
        BY <2>1, <3>1, <3>2, <4>2 DEF Pieces
      <4> QED BY <1>2, <4>1, <4>3 DEF Closed
    <3>3. CASE j >= Len(f)
      <4>1. PICK i : i = j - Len(f)
        OBVIOUS
      <4>2. i \in 0 .. Len(r) /\ SubSeq(f \o r, 1, j) = f \o SubSeq(r, 1, i)
        BY <2>2, <3>3, <4>1, CutJoined
      <4>3. SubSeq(r, 1, i) \in Cut(M)
        BY <4>2
      <4> QED BY <1>2, <2>1, <4>2, <4>3 DEF Closed
    <3> QED BY <3>1, <3>2, <3>3
  <2> QED BY <2>1, <2>2, <2>3
<1>4. Closed(S, {<< >>}, M) /\ S \in SUBSET Bytes
  BY <1>1, <1>3 DEF Closed
<1>5. Whole(M) \subseteq S
  <2> HIDE DEF S
  <2> QED BY <1>4, StreamsLeast, EndsAreBytes DEF Whole
<1> QED BY <1>5

\* Whatever has arrived of a stream, Decode either waits for more or takes off
\* it a message that was sent: it never refuses, nor misreads.
LEMMA DecodeStream ==
  ASSUME NEW M \in SUBSET Made, \A m \in M : Encodable(m),
         NEW Ends \in SUBSET ({<< >>} \cup Pieces(M)), NEW s \in Streams(Ends, M)
  PROVE  \/ Decode(s) = Incomplete
         \/ \E m \in M, r \in Streams(Ends, M) :
              Decode(s) = [result |-> "message", msg |-> m, rest |-> r]
<1>1. Ends \in SUBSET Bytes
  BY EndsAreBytes
<1>2. CASE s = << >>
  BY <1>2 DEF Decode
<1>3. CASE s \in Pieces(M)
  <2>1. PICK m \in M, k \in Nat : k < Len(Frame(m)) /\ s = SubSeq(Frame(m), 1, k)
    BY <1>3 DEF Pieces
  <2> QED BY <2>1, DecodeCut
<1>4. CASE \E m \in M, r \in Streams(Ends, M) : s = Frame(m) \o r
  <2>1. PICK m \in M, r \in Streams(Ends, M) : s = Frame(m) \o r
    BY <1>4
  <2>2. r \in Bytes
    BY DEF Streams
  <2> QED BY <2>1, <2>2, DecodeFrame
<1> QED BY <1>1, <1>2, <1>3, <1>4, StreamStarts

-----------------------------------------------------------------------------
(* Induction over finite sets, by least counterexample *)

\* Every set of numbers has a least one.
LEMMA LeastNumber ==
  ASSUME NEW T \in SUBSET Nat, T # {}
  PROVE  \E n \in T : \A m \in T : n <= m
<1>1. PICK n \in T : \A m \in T : <<m, n>> \notin OpToRel(<, Nat)
  <2>1. IsWellFoundedOn(OpToRel(<, Nat), Nat)
    BY NatLessThanWellFounded
  <2> QED BY <2>1, WFMin
<1>2. \A m \in T : ~ (m < n)
  BY <1>1 DEF OpToRel
<1>3. \A m \in T : m \in Nat
  OBVIOUS
<1> QED BY <1>2, <1>3

\* What holds of the empty set, and of a set when it holds of every set with one
\* element less, holds of all subsets of a finite set.
LEMMA SubsetInduction ==
  ASSUME NEW F, IsFiniteSet(F), NEW P, {} \in P,
         \A s \in SUBSET F : s # {} /\ (\A x \in s : s \ {x} \in P) => s \in P
  PROVE  SUBSET F \subseteq P
<1>1. \A s \in SUBSET F : IsFiniteSet(s) /\ Cardinality(s) \in Nat
  BY FS_Subset, FS_CardinalityType
<1>2. SUFFICES ASSUME \E s \in SUBSET F : s \notin P PROVE FALSE
  OBVIOUS
<1> DEFINE T == {Cardinality(s) : s \in {t \in SUBSET F : t \notin P}}
<1>3. T \in SUBSET Nat /\ T # {}
  BY <1>1, <1>2
<1>4. PICK n \in T : \A m \in T : n <= m
  <2> HIDE DEF T
  <2> QED BY <1>3, LeastNumber
<1>5. PICK s \in SUBSET F : s \notin P /\ Cardinality(s) = n
  BY <1>4
<1>6. \A x \in s : s \ {x} \in P
  <2> SUFFICES ASSUME NEW x \in s, s \ {x} \notin P PROVE FALSE
    OBVIOUS
  <2>1. Cardinality(s \ {x}) = Cardinality(s) - 1
    BY <1>1, FS_RemoveElement
  <2>2. Cardinality(s \ {x}) \in T
    BY <1>5
  <2>3. n \in Nat /\ n - 1 \in T
    BY <1>3, <1>5, <2>1, <2>2
  <2>4. n <= n - 1
    BY <1>4, <2>3
  <2> QED BY <2>3, <2>4
<1> QED BY <1>5, <1>6

\* c picks an element of every non-empty subset of F.
Picks(c, F) == \A s \in SUBSET F : s # {} => c[s] \in s

\* g is the function defined by recursion over the subsets of F.
Recurses(g, F, base, h, c) ==
  \A s \in SUBSET F : g[s] = IF s = {} THEN base ELSE h[<<c[s], g[s \ {c[s]}]>>]

\* A function defined by recursion over the subsets of a finite set exists: by
\* induction on the size up to which it does.
LEMMA SetRecursion ==
  ASSUME NEW F, IsFiniteSet(F), NEW A, NEW base \in A, NEW h \in [F \X A -> A],
         NEW c, Picks(c, F)
  PROVE  \E g \in [SUBSET F -> A] : Recurses(g, F, base, h, c)
<1> DEFINE Upto(n) == {s \in SUBSET F : Cardinality(s) <= n}
           Rec(g, n) == \A s \in Upto(n) : g[s] = IF s = {} THEN base ELSE h[<<c[s], g[s \ {c[s]}]>>]
           T == {n \in Nat : \A g \in [Upto(n) -> A] : ~ Rec(g, n)}
<1>0. \A s \in SUBSET F : s # {} => c[s] \in s
  BY DEF Picks
<1>1. \A s \in SUBSET F : IsFiniteSet(s) /\ Cardinality(s) \in Nat /\ Cardinality(s) <= Cardinality(F)
  BY FS_Subset, FS_CardinalityType
<1>2. \A s \in SUBSET F : Cardinality(s) = 0 <=> s = {}
  BY <1>1, FS_EmptySet
<1>3. 0 \notin T
  <2> DEFINE g0 == [s \in Upto(0) |-> base]
  <2>1. \A s \in Upto(0) : s = {}
    BY <1>1, <1>2
  <2>2. g0 \in [Upto(0) -> A] /\ Rec(g0, 0)
    BY <2>1
  <2> HIDE DEF Upto, Rec, g0
  <2> QED BY <2>2
<1>4. ASSUME NEW n \in Nat, n \notin T PROVE n + 1 \notin T
  <2>1. PICK g \in [Upto(n) -> A] : Rec(g, n)
    <3> HIDE DEF Upto, Rec
    <3> QED BY <1>4
  <2> DEFINE k == [s \in Upto(n + 1) |-> IF s = {} THEN base ELSE h[<<c[s], g[s \ {c[s]}]>>]]
  <2>2. ASSUME NEW s \in Upto(n + 1), s # {} PROVE s \ {c[s]} \in Upto(n)
    <3>1. s \in SUBSET F /\ IsFiniteSet(s) /\ c[s] \in s /\ Cardinality(s) \in Nat /\ Cardinality(s) <= n + 1
      BY <1>0, <1>1, <2>2
    <3>2. Cardinality(s \ {c[s]}) = Cardinality(s) - 1
      BY <3>1, FS_RemoveElement
    <3> QED BY <3>1, <3>2
  <2>3. k \in [Upto(n + 1) -> A]
    <3> SUFFICES ASSUME NEW s \in Upto(n + 1), s # {} PROVE h[<<c[s], g[s \ {c[s]}]>>] \in A
      BY Zenon
    <3>1. g[s \ {c[s]}] \in A /\ c[s] \in F
      BY <1>0, <2>2
    <3> QED BY <3>1
  <2>4. \A s \in Upto(n) : s \in Upto(n + 1) /\ k[s] = g[s]
    BY <1>1, <2>1
  <2>5. Rec(k, n + 1)
    <3> SUFFICES ASSUME NEW s \in Upto(n + 1), s # {} PROVE k[s] = h[<<c[s], k[s \ {c[s]}]>>]
      BY Zenon
    <3>1. k[s \ {c[s]}] = g[s \ {c[s]}]
      BY <2>2, <2>4
    <3>2. k[s] = h[<<c[s], g[s \ {c[s]}]>>]
      OBVIOUS
    <3> QED BY <3>1, <3>2
  <2> HIDE DEF Upto, Rec, k
  <2> QED BY <2>3, <2>5
<1>5. T = {}
  <2> SUFFICES ASSUME T # {} PROVE FALSE
    OBVIOUS
  <2>1. PICK n \in T : \A m \in T : n <= m
    <3>1. T \in SUBSET Nat OBVIOUS
    <3> HIDE DEF T
    <3> QED BY <3>1, LeastNumber
  <2>2. n \in Nat
    OBVIOUS
  <2> HIDE DEF T
  <2>3. n # 0 BY <1>3
  <2>4. n - 1 \in Nat /\ n - 1 \notin T
    BY <2>1, <2>2, <2>3
  <2> QED BY <1>4, <2>1, <2>2, <2>4
<1>6. PICK N \in Nat : N = Cardinality(F)
  BY FS_CardinalityType
<1>7. Upto(N) = SUBSET F
  BY <1>1, <1>6
<1>8. \E g \in [Upto(N) -> A] : Rec(g, N)
  <2> HIDE DEF Upto, Rec
  <2> QED BY <1>5, <1>6
<1>9. PICK g \in [Upto(N) -> A] : Rec(g, N)
  <2> HIDE DEF Upto, Rec
  <2> QED BY <1>8
<1> QED BY <1>7, <1>9 DEF Recurses

-----------------------------------------------------------------------------
(* Saved images: the sizes of files *)

\* Files whose sizes can be added up ...
Sized(files) == IsFiniteSet(files) /\ \A f \in files : f.size \in Nat

\* The sum is that of a recursive function, whatever element it takes first.
LEMMA SizeOfUnfolds ==
  ASSUME NEW F, Sized(F)
  PROVE  \E g \in [SUBSET F -> Nat] :
           /\ \A s \in SUBSET F : g[s] = IF s = {} THEN 0
                                         ELSE (CHOOSE x \in s : TRUE).size + g[s \ {CHOOSE x \in s : TRUE}]
           /\ SizeOf(F) = g[F]
<1> DEFINE c == [s \in SUBSET F |-> CHOOSE x \in s : TRUE]
           h == [p \in F \X Nat |-> p[1].size + p[2]]
           Body(g, s) == IF s = {} THEN 0
                         ELSE (CHOOSE x \in s : TRUE).size + g[s \ {CHOOSE x \in s : TRUE}]
           it == CHOOSE g : g = [s \in SUBSET F |-> Body(g, s)]
<1>1. h \in [F \X Nat -> Nat] /\ IsFiniteSet(F)
  BY DEF Sized
<1>2. \A s \in SUBSET F : s # {} => c[s] \in s
  OBVIOUS
<1>3. PICK g \in [SUBSET F -> Nat] :
        \A s \in SUBSET F : g[s] = IF s = {} THEN 0 ELSE h[<<c[s], g[s \ {c[s]}]>>]
  <2>1. Picks(c, F)
    BY <1>2 DEF Picks
  <2> HIDE DEF c, h
  <2>2. \E g \in [SUBSET F -> Nat] : Recurses(g, F, 0, h, c)
    BY <1>1, <2>1, SetRecursion
  <2> QED BY <2>2 DEF Recurses
<1>4. \A s \in SUBSET F : g[s] = Body(g, s)
  <2> SUFFICES ASSUME NEW s \in SUBSET F, s # {} PROVE g[s] = Body(g, s)
    BY <1>3
  <2>1. c[s] \in s /\ c[s] = CHOOSE x \in s : TRUE
    OBVIOUS
  <2>2. c[s] \in F /\ g[s \ {c[s]}] \in Nat
    BY <2>1
  <2>3. h[<<c[s], g[s \ {c[s]}]>>] = c[s].size + g[s \ {c[s]}]
    BY <2>2
  <2>4. g[s] = h[<<c[s], g[s \ {c[s]}]>>]
    BY <1>3
  <2> QED BY <2>1, <2>3, <2>4
<1>5. g = [s \in SUBSET F |-> Body(g, s)]
  <2> HIDE DEF Body
  <2> QED BY <1>4
<1>6. it = [s \in SUBSET F |-> Body(it, s)]
  <2> HIDE DEF Body
  <2> QED BY <1>5
<1>7. SizeOf(F) = it[F]
  BY DEF SizeOf, MapThenSumSet, MapThenFoldSet
<1>8. \A s \in SUBSET F : it[s] = Body(it, s)
  <2> HIDE DEF Body, it
  <2> QED BY <1>6
<1>9. \A s \in SUBSET F : it[s] \in Nat
  <2> DEFINE P == {s \in SUBSET F : it[s] \in Nat}
  <2>1. {} \in P
    <3>1. it[{}] = Body(it, {})
      <4> HIDE DEF it, Body
      <4> QED BY <1>8
    <3> HIDE DEF it
    <3>2. it[{}] = 0
      BY <3>1
    <3> QED BY <3>2
  <2>2. ASSUME NEW s \in SUBSET F, s # {}, \A x \in s : s \ {x} \in P PROVE s \in P
    <3> HIDE DEF it
    <3>1. PICK x \in s : x = CHOOSE y \in s : TRUE
      BY <2>2
    <3>2. it[s] = Body(it, s)
      <4> HIDE DEF it, Body
      <4> QED BY <1>8
    <3>3. Body(it, s) = x.size + it[s \ {x}]
      BY <2>2, <3>1
    <3>4. x.size \in Nat /\ it[s \ {x}] \in Nat
      BY <2>2 DEF Sized
    <3> QED BY <3>2, <3>3, <3>4
  <2>3. SUBSET F \subseteq P
    <3> HIDE DEF P
    <3> QED BY <1>1, <2>1, <2>2, SubsetInduction
  <2> QED BY <2>3
<1>10. it \in [SUBSET F -> Nat]
  <2> HIDE DEF it, Body
  <2> QED BY <1>6, <1>9
<1> HIDE DEF it
<1> QED BY <1>7, <1>8, <1>10

\* Nothing has no size.
LEMMA SizeOfEmpty == SizeOf({}) = 0
<1>1. Sized({})
  BY FS_EmptySet DEF Sized
<1> QED BY <1>1, SizeOfUnfolds

LEMMA SizedSubset ==
  ASSUME NEW F, Sized(F), NEW s \in SUBSET F
  PROVE  Sized(s)
BY FS_Subset DEF Sized

\* The same sum counts from the rest of the set.
LEMMA SizeOfChosen ==
  ASSUME NEW F, Sized(F), F # {}
  PROVE  \E x \in F : SizeOf(F) = x.size + SizeOf(F \ {x}) /\ SizeOf(F \ {x}) \in Nat
<1>1. PICK x \in F : x = CHOOSE y \in F : TRUE
  OBVIOUS
<1> DEFINE Body(g, s) == IF s = {} THEN 0
                         ELSE (CHOOSE y \in s : TRUE).size + g[s \ {CHOOSE y \in s : TRUE}]
<1>2. PICK R : R = F \ {x}
  OBVIOUS
<1>3. PICK g \in [SUBSET F -> Nat] : (\A s \in SUBSET F : g[s] = Body(g, s)) /\ SizeOf(F) = g[F]
  BY SizeOfUnfolds
<1>4. Sized(R)
  BY <1>2, SizedSubset
<1>5. PICK r \in [SUBSET R -> Nat] : (\A s \in SUBSET R : r[s] = Body(r, s)) /\ SizeOf(R) = r[R]
  BY <1>4, SizeOfUnfolds
<1>6. g[R] = r[R]
  <2> DEFINE P == {s \in SUBSET R : g[s] = r[s]}
  <2>1. {} \in P
    BY <1>3, <1>5
  <2>2. ASSUME NEW s \in SUBSET R, s # {}, \A y \in s : s \ {y} \in P PROVE s \in P
    <3>1. PICK y \in s : y = CHOOSE z \in s : TRUE
      BY <2>2
    <3>2. g[s \ {y}] = r[s \ {y}]
      BY <2>2, <3>1
    <3>3. g[s] = y.size + g[s \ {y}]
      BY <1>2, <1>3, <2>2, <3>1
    <3>4. r[s] = y.size + r[s \ {y}]
      BY <1>5, <2>2, <3>1
    <3> QED BY <3>2, <3>3, <3>4
  <2>3. IsFiniteSet(R)
    BY <1>4 DEF Sized
  <2>4. SUBSET R \subseteq P
    <3> HIDE DEF P
    <3> QED BY <2>1, <2>2, <2>3, SubsetInduction
  <2> QED BY <2>4
<1>7. g[F] = x.size + g[R]
  BY <1>1, <1>2, <1>3
<1>8. g[R] \in Nat
  BY <1>2, <1>3
<1> HIDE DEF Body
<1> QED BY <1>8, <1>2, <1>3, <1>5, <1>6, <1>7

\* Any element may be taken first.
LEMMA SizeOfRemoved ==
  ASSUME NEW F, Sized(F)
  PROVE  /\ SizeOf(F) \in Nat
         /\ \A x \in F : SizeOf(F) = x.size + SizeOf(F \ {x})
<1> DEFINE P == {s \in SUBSET F : SizeOf(s) \in Nat /\ \A x \in s : SizeOf(s) = x.size + SizeOf(s \ {x})}
<1>1. {} \in P
  BY SizeOfEmpty
<1>2. ASSUME NEW s \in SUBSET F, s # {}, \A x \in s : s \ {x} \in P PROVE s \in P
  <2>1. Sized(s)
    BY SizedSubset
  <2>2. PICK y \in s : SizeOf(s) = y.size + SizeOf(s \ {y}) /\ SizeOf(s \ {y}) \in Nat
    BY <1>2, <2>1, SizeOfChosen
  <2>3. \A x \in s : x.size \in Nat
    BY DEF Sized
  <2>4. ASSUME NEW x \in s, x # y PROVE SizeOf(s) = x.size + SizeOf(s \ {x})
    <3>1. PICK R : R = (s \ {x}) \ {y} /\ R = (s \ {y}) \ {x}
      OBVIOUS
    <3>2. SizeOf(s \ {y}) = x.size + SizeOf(R)
      BY <1>2, <2>4, <3>1
    <3>3. SizeOf(s \ {x}) = y.size + SizeOf(R)
      BY <1>2, <2>4, <3>1
    <3>4. SizeOf(s \ {x}) \in Nat /\ SizeOf(R) \in Nat
      <4>1. s \ {x} \in P
        BY <1>2
      <4>2. Sized(R)
        BY <3>1, SizedSubset
      <4>3. R # {} \/ R = {}
        OBVIOUS
      <4>4. R # {} => SizeOf(R) \in Nat
        <5> SUFFICES ASSUME R # {} PROVE SizeOf(R) \in Nat
          OBVIOUS
        <5>1. PICK z \in R : SizeOf(R) = z.size + SizeOf(R \ {z}) /\ SizeOf(R \ {z}) \in Nat
          BY <4>2, SizeOfChosen
        <5> QED BY <2>3, <3>1, <5>1
      <4> QED BY <4>1, <4>4, SizeOfEmpty
    <3> QED BY <2>2, <2>3, <3>2, <3>3, <3>4
  <2> QED BY <2>2, <2>3, <2>4
<1>3. SUBSET F \subseteq P
  <2>1. IsFiniteSet(F)
    BY DEF Sized
  <2> HIDE DEF P
  <2> QED BY <1>1, <1>2, <2>1, SubsetInduction
<1>4. F \in P
  BY <1>3
<1> QED BY <1>4

\* ... and whose times can be compared.
Dated(files) == Sized(files) /\ \A f \in files : f.time \in Nat

LEMMA NewestExists ==
  ASSUME NEW F, Dated(F), F # {}
  PROVE  Newest(F) \in F /\ \A f \in F : f.time <= Newest(F).time
<1> DEFINE HasNewest(s) == \E f \in s : \A g \in s : g.time <= f.time
           P == {s \in SUBSET F : s # {} => HasNewest(s)}
<1>1. {} \in P
  OBVIOUS
<1>2. ASSUME NEW s \in SUBSET F, s # {}, \A x \in s : s \ {x} \in P PROVE s \in P
  <2>1. \A f \in s : f.time \in Nat
    BY DEF Dated
  <2>2. PICK x \in s : TRUE
    BY <1>2
  <2>3. CASE s = {x}
    BY <2>1, <2>3
  <2>4. CASE s # {x}
    <3>1. PICK f \in s \ {x} : \A g \in s \ {x} : g.time <= f.time
      BY <1>2, <2>4
    <3>2. CASE x.time <= f.time
      BY <3>1, <3>2
    <3>3. CASE ~ (x.time <= f.time)
      <4>1. \A g \in s : g.time <= x.time
        BY <2>1, <3>1, <3>3
      <4> QED BY <4>1
    <3> QED BY <3>2, <3>3
  <2> QED BY <2>3, <2>4
<1>3. SUBSET F \subseteq P
  <2>1. IsFiniteSet(F)
    BY DEF Dated, Sized
  <2> HIDE DEF P
  <2> QED BY <1>1, <1>2, <2>1, SubsetInduction
<1>4. HasNewest(F)
  BY <1>3
<1> QED BY <1>4 DEF Newest

-----------------------------------------------------------------------------
(* Saved images: the loop of pruneImages *)

Results(F) == [total : Int, gone : SUBSET F, kept : SUBSET F]

LEMMA PruneOneType ==
  ASSUME NEW F, NEW f \in F, f.size \in Nat, NEW acc \in Results(F), NEW stuck
  PROVE  /\ PruneOne(acc, f, stuck) \in Results(F)
         /\ acc.total <= MaxSize => PruneOne(acc, f, stuck) = acc
         /\ ~ (acc.total <= MaxSize) /\ f \in stuck =>
              PruneOne(acc, f, stuck) = [total |-> acc.total, gone |-> acc.gone, kept |-> acc.kept \cup {f}]
         /\ ~ (acc.total <= MaxSize) /\ f \notin stuck =>
              PruneOne(acc, f, stuck) =
                [total |-> acc.total - f.size, gone |-> acc.gone \cup {f}, kept |-> acc.kept]
<1>1. PICK total \in Int, gone \in SUBSET F, kept \in SUBSET F :
        acc = [total |-> total, gone |-> gone, kept |-> kept]
  BY DEF Results
<1>2. CASE acc.total <= MaxSize
  BY <1>2 DEF PruneOne
<1>3. CASE ~ (acc.total <= MaxSize) /\ f \in stuck
  <2>1. PruneOne(acc, f, stuck) = [acc EXCEPT !.kept = @ \cup {f}]
    BY <1>3 DEF PruneOne
  <2>2. PruneOne(acc, f, stuck) = [total |-> total, gone |-> gone, kept |-> kept \cup {f}]
    BY <1>1, <2>1
  <2> QED BY <1>1, <1>3, <2>2 DEF Results
<1>4. CASE ~ (acc.total <= MaxSize) /\ f \notin stuck
  <2>1. PruneOne(acc, f, stuck) = [acc EXCEPT !.gone = @ \cup {f}, !.total = @ - f.size]
    BY <1>4 DEF PruneOne
  <2>2. PruneOne(acc, f, stuck) = [total |-> total - f.size, gone |-> gone \cup {f}, kept |-> kept]
    BY <1>1, <2>1
  <2> QED BY <1>1, <1>4, <2>2 DEF Results
<1> QED BY <1>2, <1>3, <1>4

\* r gives the loop's result for every set of images.
Prunes(r, F, total, stuck) ==
  /\ r[{}] = NonePruned(total)
  /\ \A s \in SUBSET F : s # {} => r[s] = PruneOne(r[s \ {Newest(s)}], Newest(s), stuck)

LEMMA PrunedUnfolds ==
  ASSUME NEW F, Dated(F), NEW total \in Int, NEW stuck
  PROVE  \E r \in [SUBSET F -> Results(F)] :
           Prunes(r, F, total, stuck) /\ Pruned(F, total, stuck) = r[F]
<1> DEFINE c == [s \in SUBSET F |-> Newest(s)]
           h == [p \in F \X Results(F) |-> PruneOne(p[2], p[1], stuck)]
           Body(g, s) == IF s = {} THEN NonePruned(total)
                         ELSE PruneOne(g[s \ {Newest(s)}], Newest(s), stuck)
           it == CHOOSE g : g = [s \in SUBSET F |-> Body(g, s)]
<1>1. NonePruned(total) \in Results(F)
  BY DEF NonePruned, Results
<1>2. ASSUME NEW f \in F, NEW acc \in Results(F) PROVE PruneOne(acc, f, stuck) \in Results(F)
  <2>1. f.size \in Nat
    BY DEF Dated, Sized
  <2> QED BY <2>1, PruneOneType
<1>3. h \in [F \X Results(F) -> Results(F)]
  BY <1>2
<1>4. \A s \in SUBSET F : s # {} => Newest(s) \in s
  <2> SUFFICES ASSUME NEW s \in SUBSET F, s # {} PROVE Newest(s) \in s
    OBVIOUS
  <2>1. Dated(s)
    BY SizedSubset DEF Dated
  <2> QED BY <2>1, NewestExists
<1>5. PICK g \in [SUBSET F -> Results(F)] : Recurses(g, F, NonePruned(total), h, c)
  <2>1. Picks(c, F)
    BY <1>4 DEF Picks
  <2>2. IsFiniteSet(F)
    BY DEF Dated, Sized
  <2> HIDE DEF c, h
  <2> QED BY <1>1, <1>3, <2>1, <2>2, SetRecursion
<1>6. \A s \in SUBSET F : g[s] = Body(g, s)
  <2> SUFFICES ASSUME NEW s \in SUBSET F PROVE g[s] = Body(g, s)
    OBVIOUS
  <2>1. CASE s = {}
    BY <1>5, <2>1 DEF Recurses
  <2>2. CASE s # {}
    <3>1. PICK f \in s : f = Newest(s) /\ f = c[s]
      BY <1>4, <2>2
    <3>2. PICK acc \in Results(F) : acc = g[s \ {f}]
      OBVIOUS
    <3>3. h[<<f, acc>>] = PruneOne(acc, f, stuck)
      OBVIOUS
    <3>4. g[s] = h[<<f, acc>>]
      <4> HIDE DEF h, c
      <4> QED BY <1>5, <2>2, <3>1, <3>2 DEF Recurses
    <3> HIDE DEF h, c
    <3> QED BY <2>2, <3>1, <3>2, <3>3, <3>4
  <2> QED BY <2>1, <2>2
<1>7. g = [s \in SUBSET F |-> Body(g, s)]
  <2> HIDE DEF Body
  <2> QED BY <1>6
<1>8. it = [s \in SUBSET F |-> Body(it, s)]
  <2> HIDE DEF Body
  <2> QED BY <1>7
<1>9. Pruned(F, total, stuck) = it[F]
  BY DEF Pruned, MapThenFoldSet
<1>10. \A s \in SUBSET F : it[s] = Body(it, s)
  <2> HIDE DEF Body, it
  <2> QED BY <1>8
<1>11. it[{}] = NonePruned(total) /\ \A s \in SUBSET F : s # {} => it[s] = PruneOne(it[s \ {Newest(s)}], Newest(s), stuck)
  <2>1. it[{}] = Body(it, {})
    <3> HIDE DEF Body, it
    <3> QED BY <1>10
  <2> HIDE DEF it
  <2> QED BY <1>10, <2>1
<1>12. \A s \in SUBSET F : it[s] \in Results(F)
  <2> DEFINE P == {s \in SUBSET F : it[s] \in Results(F)}
  <2> HIDE DEF it
  <2>1. {} \in P
    BY <1>1, <1>11
  <2>2. ASSUME NEW s \in SUBSET F, s # {}, \A x \in s : s \ {x} \in P PROVE s \in P
    <3>1. PICK f \in s : f = Newest(s)
      BY <1>4, <2>2
    <3>2. it[s \ {f}] \in Results(F)
      BY <2>2
    <3>3. it[s] = PruneOne(it[s \ {f}], f, stuck)
      BY <1>11, <2>2, <3>1
    <3>4. it[s] \in Results(F)
      BY <1>2, <3>2, <3>3
    <3> QED BY <3>4
  <2>3. SUBSET F \subseteq P
    <3>1. IsFiniteSet(F)
      BY DEF Dated, Sized
    <3> HIDE DEF P
    <3> QED BY <2>1, <2>2, <3>1, SubsetInduction
  <2> QED BY <2>3
<1>13. it \in [SUBSET F -> Results(F)]
  <2> HIDE DEF it, Body
  <2> QED BY <1>8, <1>12
<1> HIDE DEF it
<1> QED BY <1>9, <1>11, <1>13 DEF Prunes

LEMMA SizeOfDifference ==
  ASSUME NEW F, Sized(F), NEW G \in SUBSET F
  PROVE  /\ SizeOf(F) \in Nat /\ SizeOf(G) \in Nat /\ SizeOf(F \ G) \in Nat
         /\ SizeOf(F \ G) = SizeOf(F) - SizeOf(G)
<1> DEFINE P == {s \in SUBSET F : SizeOf(F \ s) = SizeOf(F) - SizeOf(s)}
<1>1. \A s \in SUBSET F : Sized(s) /\ SizeOf(s) \in Nat
  BY SizedSubset, SizeOfRemoved
<1>2. {} \in P
  BY <1>1, SizeOfEmpty
<1>3. ASSUME NEW s \in SUBSET F, s # {}, \A x \in s : s \ {x} \in P PROVE s \in P
  <2>1. PICK x \in s : TRUE
    BY <1>3
  <2>2. PICK R : R = F \ (s \ {x})
    OBVIOUS
  <2>3. SizeOf(R) = SizeOf(F) - SizeOf(s \ {x})
    BY <1>3, <2>2
  <2>4. x \in R /\ R \ {x} = F \ s /\ R \in SUBSET F
    BY <2>2
  <2>5. SizeOf(R) = x.size + SizeOf(F \ s)
    BY <1>1, <2>4, SizeOfRemoved
  <2>6. SizeOf(s) = x.size + SizeOf(s \ {x})
    BY <1>1, SizeOfRemoved
  <2>7. /\ SizeOf(F \ s) \in Nat /\ SizeOf(s) \in Nat /\ SizeOf(F) \in Nat /\ SizeOf(s \ {x}) \in Nat
        /\ x.size \in Nat
    BY <1>1 DEF Sized
  <2> QED BY <2>3, <2>5, <2>6, <2>7
<1>4. SUBSET F \subseteq P
  <2>1. IsFiniteSet(F)
    BY DEF Sized
  <2> HIDE DEF P
  <2> QED BY <1>2, <1>3, <2>1, SubsetInduction
<1>5. G \in P
  BY <1>4
<1> QED BY <1>1, <1>5

\* What the loop has done once it went through the images s.
PruneResult(r, s, total, stuck) ==
  /\ r.gone \subseteq s \ stuck /\ r.kept \subseteq s \cap stuck
  /\ r.total = total - SizeOf(r.gone)
  /\ r.total <= MaxSize \/ r.gone \cup r.kept = s

\* The loop goes on with an image that is newer than all before.
LEMMA PruneOneResult ==
  ASSUME NEW F, Sized(F), NEW stuck, NEW total \in Int, NEW s \in SUBSET F, NEW f \in s,
         NEW acc \in Results(F), PruneResult(acc, s \ {f}, total, stuck)
  PROVE  PruneResult(PruneOne(acc, f, stuck), s, total, stuck)
<1>1. PICK r : r = PruneOne(acc, f, stuck)
  OBVIOUS
<1>2. f.size \in Nat /\ f \in F
  BY DEF Sized
<1>3. CASE acc.total <= MaxSize
  <2>1. r = acc
    BY <1>1, <1>2, <1>3, PruneOneType
  <2> QED BY <1>1, <1>3, <2>1 DEF PruneResult
<1>4. CASE ~ (acc.total <= MaxSize) /\ f \in stuck
  <2>1. r = [total |-> acc.total, gone |-> acc.gone, kept |-> acc.kept \cup {f}]
    BY <1>1, <1>2, <1>4, PruneOneType
  <2>2. r.gone = acc.gone /\ r.kept = acc.kept \cup {f} /\ r.total = acc.total
    BY <2>1
  <2> QED BY <1>1, <1>4, <2>2 DEF PruneResult
<1>5. CASE ~ (acc.total <= MaxSize) /\ f \notin stuck
  <2>1. r = [total |-> acc.total - f.size, gone |-> acc.gone \cup {f}, kept |-> acc.kept]
    BY <1>1, <1>2, <1>5, PruneOneType
  <2>2. r.gone = acc.gone \cup {f} /\ r.kept = acc.kept /\ r.total = acc.total - f.size
    BY <2>1
  <2>3. f \notin acc.gone /\ acc.gone \cup {f} \in SUBSET F
    BY <1>2 DEF PruneResult, Results
  <2>4. PICK G \in SUBSET F : G = acc.gone \cup {f} /\ f \in G /\ G \ {f} = acc.gone
    BY <2>3
  <2>5. SizeOf(G) = f.size + SizeOf(acc.gone) /\ SizeOf(acc.gone) \in Nat /\ SizeOf(G) \in Nat
    <3>1. acc.gone \in SUBSET F
      BY DEF Results
    <3> QED BY <2>4, <3>1, SizedSubset, SizeOfRemoved
  <2>6. r.total = total - SizeOf(r.gone)
    BY <1>2, <2>2, <2>4, <2>5 DEF PruneResult
  <2>7. r.gone \subseteq s \ stuck /\ r.kept \subseteq s \cap stuck /\ r.gone \cup r.kept = s
    BY <1>5, <2>2 DEF PruneResult
  <2> QED BY <1>1, <2>6, <2>7 DEF PruneResult
<1> QED BY <1>3, <1>4, <1>5

\* ... so that it holds at the end, and before the newest image was looked at.
LEMMA PrunedResult ==
  ASSUME NEW F, Dated(F), NEW total \in Int, NEW stuck
  PROVE  /\ Pruned(F, total, stuck) \in Results(F)
         /\ PruneResult(Pruned(F, total, stuck), F, total, stuck)
         /\ F # {} =>
              \E acc \in Results(F) :
                /\ PruneResult(acc, F \ {Newest(F)}, total, stuck)
                /\ Pruned(F, total, stuck) = PruneOne(acc, Newest(F), stuck)
<1>0. PICK r \in [SUBSET F -> Results(F)] :
        Prunes(r, F, total, stuck) /\ Pruned(F, total, stuck) = r[F]
  BY PrunedUnfolds
<1>1. /\ r[{}] = NonePruned(total)
      /\ \A s \in SUBSET F : s # {} => r[s] = PruneOne(r[s \ {Newest(s)}], Newest(s), stuck)
      /\ Pruned(F, total, stuck) = r[F]
  BY <1>0 DEF Prunes
<1> DEFINE P == {s \in SUBSET F : PruneResult(r[s], s, total, stuck)}
<1>2. Sized(F) /\ IsFiniteSet(F)
  BY DEF Dated, Sized
<1>3. {} \in P
  <2>1. r[{}].gone = {} /\ r[{}].kept = {} /\ r[{}].total = total
    BY <1>1 DEF NonePruned
  <2>2. total = total - SizeOf({})
    BY SizeOfEmpty
  <2> QED BY <2>1, <2>2 DEF PruneResult
<1>4. \A s \in SUBSET F : s # {} => Newest(s) \in s
  <2> SUFFICES ASSUME NEW s \in SUBSET F, s # {} PROVE Newest(s) \in s
    OBVIOUS
  <2>1. Dated(s)
    BY SizedSubset DEF Dated
  <2> QED BY <2>1, NewestExists
<1>5. ASSUME NEW s \in SUBSET F, s # {}, \A x \in s : s \ {x} \in P PROVE s \in P
  <2>1. PICK f \in s : f = Newest(s)
    BY <1>4, <1>5
  <2>2. PICK acc \in Results(F) : acc = r[s \ {f}]
    OBVIOUS
  <2>3. PruneResult(acc, s \ {f}, total, stuck)
    BY <1>5, <2>2
  <2>4. PruneResult(PruneOne(acc, f, stuck), s, total, stuck)
    BY <1>2, <2>3, PruneOneResult
  <2>5. r[s] = PruneOne(acc, f, stuck)
    BY <1>1, <1>5, <2>1, <2>2
  <2> QED BY <2>4, <2>5
<1>6. SUBSET F \subseteq P
  <2> HIDE DEF P
  <2> QED BY <1>2, <1>3, <1>5, SubsetInduction
<1>7. F # {} =>
        \E acc \in Results(F) :
          /\ PruneResult(acc, F \ {Newest(F)}, total, stuck)
          /\ Pruned(F, total, stuck) = PruneOne(acc, Newest(F), stuck)
  <2> SUFFICES ASSUME F # {}
               PROVE  \E acc \in Results(F) :
                        /\ PruneResult(acc, F \ {Newest(F)}, total, stuck)
                        /\ Pruned(F, total, stuck) = PruneOne(acc, Newest(F), stuck)
    OBVIOUS
  <2>1. PICK R \in SUBSET F : R = F \ {Newest(F)}
    OBVIOUS
  <2>2. R \in P
    BY <1>6
  <2>3. r[R] \in Results(F) /\ PruneResult(r[R], R, total, stuck)
    BY <2>2
  <2>4. Pruned(F, total, stuck) = PruneOne(r[R], Newest(F), stuck)
    BY <1>1, <2>1
  <2> QED BY <2>1, <2>3, <2>4
<1>8. F \in P /\ r[F] \in Results(F)
  BY <1>6
<1> QED BY <1>1, <1>7, <1>8

\* What is invariant of the directory.
StoreInv == ImagesTypeOK /\ IsFiniteSet(images) /\ LimitKept /\ NewestKept

PngSize(png) == IF png = None THEN 0 ELSE png

\* A save that prunes leaves the directory within the limit, or nothing to remove;
\* and the image just saved only goes if there was no room for it alone.
LEMMA SavesKeepsStore ==
  ASSUME StoreInv, NEW size \in ImageSizes, Saves(size)
  PROVE  /\ IsFiniteSet(images') /\ LimitKept' /\ NewestKept'
<1> USE ImageStoreAssumption
<1>1. PICK new, all : new = [size |-> size, time |-> clock + 1] /\ all = images \cup {new}
  OBVIOUS
<1>2. PICK T \in Nat : T = PngSize(latest')
  <2>1. PngSize(latest') \in Nat
    BY DEF StoreInv, ImagesTypeOK, Saves, PngSize
  <2> QED BY <2>1
<1>3. Dated(all)
  <2>1. IsFiniteSet(all)
    BY <1>1, FS_AddElement DEF StoreInv
  <2>2. \A f \in images : f.size \in Nat /\ f.time \in Nat
    <3>1. \A f \in images : f.size \in ImageSizes /\ f.time \in 1 .. clock
      BY DEF StoreInv, ImagesTypeOK
    <3>2. ImageSizes \subseteq Nat
      OBVIOUS
    <3>3. \A n \in 1 .. clock : n \in Nat
      BY DEF StoreInv, ImagesTypeOK
    <3> QED BY <3>1, <3>2, <3>3
  <2>3. new.size \in Nat /\ new.time \in Nat
    BY <1>1 DEF StoreInv, ImagesTypeOK
  <2>4. \A f \in all : f.size \in Nat /\ f.time \in Nat
    BY <1>1, <2>2, <2>3
  <2> QED BY <2>1, <2>4 DEF Dated, Sized
<1>4. Newest(all) = new /\ new \notin images /\ new.size = size
  <2>1. \A f \in images : f.time < new.time /\ f.time \in Nat
    BY <1>1 DEF StoreInv, ImagesTypeOK
  <2>2. new.time \in Nat
    BY <1>1 DEF StoreInv, ImagesTypeOK
  <2>3. Newest(all) \in all /\ new.time <= Newest(all).time
    BY <1>1, <1>3, NewestExists
  <2> QED BY <1>1, <2>1, <2>2, <2>3
<1>5. CASE images' = all /\ lastSave' = None
  <2>1. IsFiniteSet(images')
    BY <1>3, <1>5 DEF Dated, Sized
  <2> QED BY <1>5, <2>1 DEF LimitKept, NewestKept
<1>6. CASE ~ (images' = all /\ lastSave' = None)
  <2>1. PICK stuck : LET result == Prune(all, latest', stuck) IN
                       /\ images' = all \ result.gone
                       /\ lastSave' = [size |-> size, lost |-> new \in result.gone, kept |-> result.kept]
    BY <1>1, <1>6 DEF Saves
  <2>2. PICK total \in Int : total = SizeOf(all) + T /\ total = Total(all, latest')
    <3>1. SizeOf(all) \in Nat
      BY <1>3, SizeOfRemoved DEF Dated
    <3> QED BY <1>2, <3>1 DEF Total, PngSize
  <2>3. PICK result \in Results(all) : result = Prune(all, latest', stuck) /\ result = Pruned(all, total, stuck)
    BY <1>3, <2>2, PrunedResult DEF Prune
  <2>4. /\ images' = all \ result.gone
        /\ lastSave' = [size |-> size, lost |-> new \in result.gone, kept |-> result.kept]
    BY <2>1, <2>3
  <2>5. PruneResult(result, all, total, stuck)
    BY <1>3, <2>3, PrunedResult
  <2>6. SizeOf(all \ result.gone) = SizeOf(all) - SizeOf(result.gone)
         /\ SizeOf(result.gone) \in Nat /\ SizeOf(all) \in Nat
    <3>1. result.gone \in SUBSET all
      BY DEF Results
    <3> QED BY <1>3, <3>1, SizeOfDifference DEF Dated
  <2>7. IsFiniteSet(images')
    BY <1>3, <2>4, FS_Subset DEF Dated, Sized
  <2>8. LimitKept'
    <3>1. Total(images, latest)' = SizeOf(images') + T
      BY <1>2 DEF Total, PngSize
    <3>2. SizeOf(images') + T = result.total
      BY <2>2, <2>4, <2>5, <2>6 DEF PruneResult
    <3>3. lastSave'.kept = result.kept
      BY <2>4
    <3>4. CASE result.total <= MaxSize
      BY <3>1, <3>2, <3>4 DEF LimitKept
    <3>5. CASE ~ (result.total <= MaxSize)
      <4>1. result.gone \cup result.kept = all
        BY <2>5, <3>5 DEF PruneResult
      <4>2. images' \subseteq lastSave'.kept
        BY <2>4, <3>3, <4>1
      <4> QED BY <4>2 DEF LimitKept
    <3> QED BY <3>4, <3>5
  <2>9. NewestKept'
    <3>1. lastSave'.kept = result.kept /\ lastSave'.size = size /\ lastSave'.lost = (new \in result.gone)
      BY <2>4
    <3> SUFFICES ASSUME new \in result.gone PROVE size + Total(result.kept, latest') > MaxSize
      BY <3>1 DEF NewestKept
    <3>2. PICK acc \in Results(all) :
            PruneResult(acc, all \ {new}, total, stuck) /\ result = PruneOne(acc, new, stuck)
      <4>1. all # {}
        BY <1>1
      <4>2. \E acc \in Results(all) :
              /\ PruneResult(acc, all \ {Newest(all)}, total, stuck)
              /\ Pruned(all, total, stuck) = PruneOne(acc, Newest(all), stuck)
        BY <1>3, <4>1, PrunedResult
      <4> QED BY <1>4, <2>3, <4>2
    <3>3. new \notin acc.gone
      BY <3>2 DEF PruneResult
    <3>4. size \in Nat /\ new \in all /\ new.size \in Nat
      BY <1>1, <1>4
    <3>5. ~ (acc.total <= MaxSize) /\ result.kept = acc.kept
      <4>1. acc.total <= MaxSize => result.gone = acc.gone
        BY <3>2, <3>4, PruneOneType
      <4>2. ~ (acc.total <= MaxSize) /\ new \in stuck => result.gone = acc.gone
        BY <3>2, <3>4, PruneOneType
      <4>3. ~ (acc.total <= MaxSize) /\ new \notin stuck => result.kept = acc.kept
        BY <3>2, <3>4, PruneOneType
      <4>4. result.gone # acc.gone
        BY <3>1, <3>3
      <4> QED BY <4>1, <4>2, <4>3, <4>4
    <3>6. acc.gone \cup acc.kept = all \ {new} /\ acc.gone \cap acc.kept = {}
      BY <3>2, <3>5 DEF PruneResult
    <3>7. acc.kept = (all \ acc.gone) \ {new} /\ new \in all \ acc.gone
      BY <3>3, <3>4, <3>6
    <3>8. PICK R \in SUBSET all : R = all \ acc.gone
      OBVIOUS
    <3>9. SizeOf(R) = SizeOf(all) - SizeOf(acc.gone) /\ SizeOf(acc.gone) \in Nat
      <4>1. acc.gone \in SUBSET all
        BY DEF Results
      <4> QED BY <1>3, <3>8, <4>1, SizeOfDifference DEF Dated
    <3>10. SizeOf(R) = size + SizeOf(acc.kept)
      <4>1. Sized(R)
        BY <1>3, SizedSubset DEF Dated
      <4> QED BY <1>4, <3>7, <3>8, <4>1, SizeOfRemoved
    <3>11. SizeOf(acc.kept) \in Nat
      <4>1. Sized(acc.kept)
        BY <1>3, SizedSubset DEF Dated, Results
      <4> QED BY <4>1, SizeOfRemoved
    <3>12. acc.total = total - SizeOf(acc.gone)
      BY <3>2 DEF PruneResult
    <3>13. Total(acc.kept, latest') = SizeOf(acc.kept) + T
      BY <1>2 DEF Total, PngSize
    <3>14. size + Total(acc.kept, latest') = acc.total
      BY <2>2, <2>6, <3>4, <3>9, <3>10, <3>11, <3>12, <3>13
    <3> QED BY <3>4, <3>5, <3>11, <3>13, <3>14
  <2> QED BY <2>7, <2>8, <2>9
<1> QED BY <1>5, <1>6

-----------------------------------------------------------------------------
(* The invariant *)

\* The messages that were made and can be sent.
Sendable(ms) == {m \in Made : Encodable(m) /\ \E i \in DOMAIN ms : ms[i] = m}

Connections ==
  [stream : Bytes, last : Nat, open : BOOLEAN, held : Seq(Made), done : BOOLEAN]

\* What is on its way, and what a reader holds.
ConnectionOK(conn, ms) ==
  /\ conn.last \in 0 .. Len(ms)
  /\ conn.stream \in IF conn.open THEN Whole(Sendable(ms)) ELSE Cut(Sendable(ms))
  /\ conn.held = << >> \/ \E m \in Sendable(ms) : conn.held = <<m>>
  /\ conn.done => ~ conn.open /\ conn.stream = << >>

MintedOK == minted \in Seq(Made)

ConnsOK == /\ conns \in [Conns -> Connections]
           /\ \A c \in Conns : ConnectionOK(conns[c], minted)

QueueOK == /\ incoming \in Seq(Sendable(minted)) /\ Len(incoming) <= IncomingCap
           /\ Len(fileOffers) <= 1
           /\ handled \cup ignored \subseteq Sendable(minted)

\* What the ring was given came from this node or was handled, ...
RingIsHandled ==
  \A i \in 1 .. Len(log) : log[i].source = Self \/ \E m \in handled : log[i] = EventID(m)

\* ... and nothing else was ignored.
IgnoredKnown == \A m \in ignored : m \in handled \/ m.source = Self

InboundInv == /\ IInv /\ StoreInv
              /\ MintedOK /\ ConnsOK /\ QueueOK /\ RingIsHandled /\ IgnoredKnown

\* A message that is made keeps what was made.
LEMMA Minting ==
  ASSUME MintedOK, NEW m \in Made, minted' = Append(minted, m)
  PROVE  /\ MintedOK' /\ Len(minted') = Len(minted) + 1 /\ Len(minted) \in Nat
         /\ Sendable(minted) \subseteq Sendable(minted')
<1>1. /\ minted' \in Seq(Made) /\ Len(minted') = Len(minted) + 1 /\ Len(minted) \in Nat
      /\ DOMAIN minted = 1 .. Len(minted) /\ DOMAIN minted' = 1 .. Len(minted')
      /\ \A i \in 1 .. Len(minted) : minted'[i] = minted[i]
  BY DEF MintedOK
<1>2. ASSUME NEW n \in Sendable(minted) PROVE n \in Sendable(minted')
  <2>1. PICK i \in 1 .. Len(minted) : minted[i] = n
    BY <1>1 DEF Sendable
  <2>2. i \in DOMAIN minted' /\ minted'[i] = n
    BY <1>1, <2>1
  <2> QED BY <2>2 DEF Sendable
<1> QED BY <1>1, <1>2 DEF MintedOK

\* More messages do no harm to a connection.
LEMMA ConnectionKept ==
  ASSUME NEW ms, NEW ns, Len(ms) \in Nat, Len(ns) \in Nat, Len(ms) <= Len(ns),
         Sendable(ms) \subseteq Sendable(ns), NEW conn, ConnectionOK(conn, ms)
  PROVE  ConnectionOK(conn, ns)
<1>1. Sendable(ms) \in SUBSET Made /\ Sendable(ns) \in SUBSET Made
  BY DEF Sendable
<1>2. Whole(Sendable(ms)) \subseteq Whole(Sendable(ns)) /\ Cut(Sendable(ms)) \subseteq Cut(Sendable(ns))
  BY <1>1, WholeAndCut
<1> QED BY <1>2 DEF ConnectionOK

LEMMA RingUnchanged ==
  ASSUME IInv, UNCHANGED vars
  PROVE  IInv'
  BY StepInvariant

LEMMA ImagesUnchanged ==
  ASSUME StoreInv, UNCHANGED imageVars
  PROVE  StoreInv'
  BY DEF StoreInv, ImagesTypeOK, LimitKept, NewestKept, imageVars

\* The queue and the histories, while messages are made but none is handled.
LEMMA QueueKept ==
  ASSUME QueueOK, Sendable(minted) \subseteq Sendable(minted'),
         UNCHANGED <<incoming, fileOffers, handled, ignored>>
  PROVE  QueueOK'
<1>1. incoming' \in Seq(Sendable(minted'))
  <2>1. incoming \in Seq(Sendable(minted))
    BY DEF QueueOK
  <2>2. PICK A, B : A = Sendable(minted) /\ B = Sendable(minted')
    OBVIOUS
  <2>3. A \subseteq B /\ incoming \in Seq(A)
    BY <2>1, <2>2
  <2>4. incoming \in Seq(B)
    BY <2>3
  <2> QED BY <2>2, <2>4
<1> QED BY <1>1 DEF QueueOK

LEMMA HistoriesUnchanged ==
  ASSUME RingIsHandled, IgnoredKnown, UNCHANGED <<log, handled, ignored>>
  PROVE  RingIsHandled' /\ IgnoredKnown'
  BY DEF RingIsHandled, IgnoredKnown

\* One connection changes.
LEMMA OneConnection ==
  ASSUME ConnsOK, NEW c \in Conns, NEW conn \in Connections, ConnectionOK(conn, minted),
         conns' = [conns EXCEPT ![c] = conn], UNCHANGED minted
  PROVE  ConnsOK'
  BY DEF ConnsOK

LEMMA InboundStart == InboundInit => InboundInv
<1> SUFFICES ASSUME InboundInit PROVE InboundInv
  OBVIOUS
<1> USE DEF InboundInit
<1>1. IInv
  BY InitInvariant
<1>2. StoreInv
  BY FS_EmptySet DEF ImagesInit, StoreInv, ImagesTypeOK, LimitKept, NewestKept
<1>3. MintedOK
  BY DEF MintedOK
<1>4. ConnsOK
  <2>1. Sendable(minted) \in SUBSET Made /\ << >> \in Bytes /\ << >> \in Seq(Made)
    BY DEF Sendable, Bytes
  <2>2. << >> \in Whole(Sendable(minted))
    BY <2>1, WholeAndCut
  <2>3. Len(minted) = 0
    OBVIOUS
  <2>4. NewConn \in Connections /\ ConnectionOK(NewConn, minted)
    BY <2>1, <2>2, <2>3 DEF NewConn, Connections, ConnectionOK
  <2> QED BY <2>4 DEF ConnsOK
<1>5. QueueOK
  <2>1. incoming \in Seq(Sendable(minted)) /\ Len(incoming) = 0 /\ Len(fileOffers) = 0
    OBVIOUS
  <2> QED BY <2>1, InboundAssumption DEF QueueOK
<1>6. RingIsHandled /\ IgnoredKnown
  BY DEF RingIsHandled, IgnoredKnown, Init
<1> QED BY <1>1, <1>2, <1>3, <1>4, <1>5, <1>6 DEF InboundInv

\* What newMessage and peers of version 1 make.
LEMMA NewMessageMade ==
  ASSUME NEW content \in Contents, NEW source \in Others \cup {Self}, NEW ts \in Nat,
         source = Legacy => ts = 0
  PROVE  NewMessage(content, source, ts) \in Made
<1>1. TypeOf[content] \in MessageTypes /\ PayloadOf[content] \in Bytes
  BY InboundAssumption DEF Bytes
<1> QED BY <1>1 DEF NewMessage, Made

\* A message is made, and nothing else changes but the ring.
LEMMA MintingKeeps ==
  ASSUME InboundInv, NEW m \in Made, minted' = Append(minted, m),
         UNCHANGED <<imageVars, conns, incoming, fileOffers, handled, ignored>>
  PROVE  StoreInv' /\ MintedOK' /\ ConnsOK' /\ QueueOK' /\ IgnoredKnown'
<1>1. MintedOK' /\ Len(minted') = Len(minted) + 1 /\ Len(minted) \in Nat
  BY Minting DEF InboundInv
<1>2. Sendable(minted) \subseteq Sendable(minted')
  BY Minting DEF InboundInv
<1>3. ConnsOK'
  <2>1. ASSUME NEW c \in Conns PROVE ConnectionOK(conns[c], minted')
    <3>1. ConnectionOK(conns[c], minted)
      BY DEF InboundInv, ConnsOK
    <3>2. PICK conn, ms, ns : conn = conns[c] /\ ms = minted /\ ns = minted'
      OBVIOUS
    <3>3. /\ Len(ms) \in Nat /\ Len(ns) \in Nat /\ Len(ms) <= Len(ns)
          /\ Sendable(ms) \subseteq Sendable(ns) /\ ConnectionOK(conn, ms)
      BY <1>1, <1>2, <3>1, <3>2
    <3>4. ConnectionOK(conn, ns)
      BY ONLY <3>3, ConnectionKept
    <3> QED BY <3>2, <3>4
  <2> QED BY <2>1 DEF InboundInv, ConnsOK
<1>4. QueueOK'
  BY <1>2, QueueKept DEF InboundInv
<1>5. StoreInv' /\ IgnoredKnown'
  BY ImagesUnchanged DEF InboundInv, IgnoredKnown
<1> QED BY <1>1, <1>3, <1>4, <1>5

LEMMA LocalCopyKeeps ==
  ASSUME InboundInv, NEW content \in Contents, NEW now \in 0 .. MaxTime, LocalCopy(content, now)
  PROVE  InboundInv' /\ \A i \in 1 .. Len(log) : log[i] # log'[Len(log')]
<1>1. IInv' /\ \A i \in 1 .. Len(log) : log[i] # log'[Len(log')]
  BY CopyInvariant DEF InboundInv, LocalCopy
<1>2. lastTS' \in Nat
  BY <1>1 DEF IInv, TypeOK
<1> DEFINE m == NewMessage(content, Self, lastTS')
<1>3. m \in Made
  BY <1>2, NewMessageMade, InboundAssumption DEF Legacy
<1>4. minted' = Append(minted, m)
  BY DEF LocalCopy
<1>5. StoreInv' /\ MintedOK' /\ ConnsOK' /\ QueueOK' /\ IgnoredKnown'
  <2> HIDE DEF m
  <2> QED BY <1>3, <1>4, MintingKeeps DEF LocalCopy
<1>6. RingIsHandled'
  <2>1. PICK id : id.source = Self /\ id \in EventIDs /\ log' = Append(log, id)
    <3> DEFINE new == [content |-> content, source |-> Self, ts |-> NextTS(now)]
    <3>1. new.source = Self /\ log' = Append(log, new)
      BY DEF LocalCopy, Copy
    <3>2. new \in EventIDs
      BY <1>2 DEF EventIDs, LocalCopy, Copy
    <3> QED BY <3>1, <3>2
  <2>2. /\ Len(log') = Len(log) + 1 /\ log'[Len(log) + 1] = id
        /\ \A i \in 1 .. Len(log) : log'[i] = log[i]
        /\ Len(log) \in Nat
    BY <2>1 DEF InboundInv, IInv, TypeOK
  <2>3. handled' = handled
    BY DEF LocalCopy
  <2> QED BY <2>1, <2>2, <2>3 DEF RingIsHandled, InboundInv
<1> QED BY <1>1, <1>5, <1>6 DEF InboundInv

LEMMA PeerCopiesKeeps ==
  ASSUME InboundInv, NEW content \in Contents, NEW source \in Others, PeerCopies(source, content)
  PROVE  InboundInv'
<1> DEFINE ts == IF source = Legacy THEN 0 ELSE Len(minted) + 1
           m == NewMessage(content, source, ts)
<1>1. ts \in Nat /\ (source = Legacy => ts = 0)
  BY DEF InboundInv, MintedOK
<1>2. m \in Made
  <2> HIDE DEF ts
  <2> QED BY <1>1, NewMessageMade
<1>3. minted' = Append(minted, m)
  BY DEF PeerCopies
<1>4. StoreInv' /\ MintedOK' /\ ConnsOK' /\ QueueOK' /\ IgnoredKnown'
  <2> HIDE DEF m
  <2> QED BY <1>2, <1>3, MintingKeeps DEF PeerCopies
<1>5. IInv' /\ RingIsHandled'
  <2>1. UNCHANGED vars /\ UNCHANGED <<log, handled>>
    BY DEF PeerCopies, vars
  <2> QED BY <2>1, RingUnchanged DEF InboundInv, RingIsHandled
<1> QED BY <1>4, <1>5 DEF InboundInv

\* A step that changes nothing but connections and the queue.
LEMMA NetworkKeeps ==
  ASSUME InboundInv, UNCHANGED <<vars, imageVars, minted, fileOffers, handled, ignored>>,
         ConnsOK', incoming' \in Seq(Sendable(minted)), Len(incoming') <= IncomingCap
  PROVE  InboundInv'
<1>1. IInv' /\ StoreInv'
  BY RingUnchanged, ImagesUnchanged DEF InboundInv
<1>2. MintedOK' /\ RingIsHandled' /\ IgnoredKnown'
  BY DEF InboundInv, MintedOK, RingIsHandled, IgnoredKnown, vars
<1>3. QueueOK'
  BY DEF InboundInv, QueueOK
<1> QED BY <1>1, <1>2, <1>3 DEF InboundInv

LEMMA PeerSendsKeeps ==
  ASSUME InboundInv, NEW c \in Conns, NEW i \in DOMAIN minted, PeerSends(c, i)
  PROVE  InboundInv'
<1> DEFINE old == conns[c]
           new == [old EXCEPT !.stream = @ \o Frame(minted[i]), !.last = i]
<1>1. old \in Connections /\ ConnectionOK(old, minted) /\ old.open
  BY DEF InboundInv, ConnsOK, PeerSends
<1>2. minted[i] \in Sendable(minted) /\ Sendable(minted) \in SUBSET Made /\ i \in 0 .. Len(minted)
  BY DEF InboundInv, MintedOK, PeerSends, Sendable
<1>3. old.stream \in Whole(Sendable(minted))
  BY <1>1 DEF ConnectionOK
<1>4. old.stream \o Frame(minted[i]) \in Whole(Sendable(minted))
  <2> HIDE DEF old
  <2> QED BY <1>2, <1>3, FrameAppended
<1>5. old.stream \o Frame(minted[i]) \in Bytes
  BY <1>2, <1>4, WholeAndCut
<1>6. PICK st : st = old.stream \o Frame(minted[i])
  OBVIOUS
<1>7. new = [old EXCEPT !.stream = st, !.last = i]
  BY <1>6
<1>8. new \in Connections /\ ConnectionOK(new, minted)
  <2> HIDE DEF old, new
  <2>1. i \in Nat
    BY <1>2 DEF InboundInv, MintedOK
  <2>2. /\ new \in Connections /\ new.stream = st /\ new.last = i
        /\ new.open = old.open /\ new.held = old.held /\ new.done = old.done
    BY <1>1, <1>5, <1>6, <1>7, <2>1 DEF Connections
  <2>3. ~ old.done
    BY <1>1 DEF ConnectionOK
  <2> QED BY <1>1, <1>2, <1>4, <1>6, <2>2, <2>3 DEF ConnectionOK
<1>9. conns' = [conns EXCEPT ![c] = new] /\ UNCHANGED minted
  BY DEF PeerSends, InboundInv, ConnsOK
<1>10. ConnsOK'
  <2> HIDE DEF new
  <2> QED BY <1>8, <1>9, OneConnection DEF InboundInv
<1> QED BY <1>10, NetworkKeeps DEF InboundInv, QueueOK, PeerSends

LEMMA BreaksKeeps ==
  ASSUME InboundInv, NEW c \in Conns, NEW k \in 0 .. Len(conns[c].stream), Breaks(c, k)
  PROVE  InboundInv'
<1> DEFINE old == conns[c]
           new == [old EXCEPT !.stream = SubSeq(@, 1, k), !.open = FALSE]
<1>1. old \in Connections /\ ConnectionOK(old, minted) /\ old.open
  BY DEF InboundInv, ConnsOK, Breaks
<1>2. Sendable(minted) \in SUBSET Made
  BY DEF Sendable
<1>3. old.stream \in Whole(Sendable(minted))
  BY <1>1 DEF ConnectionOK
<1>4. SubSeq(old.stream, 1, k) \in Cut(Sendable(minted))
  <2> HIDE DEF old
  <2>1. PICK st : st = old.stream
    OBVIOUS
  <2>2. k \in 0 .. Len(st)
    BY <2>1 DEF old
  <2> QED BY <1>2, <1>3, <2>1, <2>2, StreamCut
<1>5. SubSeq(old.stream, 1, k) \in Bytes
  BY <1>2, <1>4, WholeAndCut
<1>6. PICK st : st = SubSeq(old.stream, 1, k)
  OBVIOUS
<1>7. new = [old EXCEPT !.stream = st, !.open = FALSE]
  BY <1>6
<1>8. ~ old.done
  BY <1>1 DEF ConnectionOK
<1>9. new \in Connections /\ ConnectionOK(new, minted)
  <2> HIDE DEF old, new
  <2> QED BY <1>1, <1>4, <1>5, <1>6, <1>7, <1>8 DEF Connections, ConnectionOK
<1>10. conns' = [conns EXCEPT ![c] = new] /\ UNCHANGED minted
  BY DEF Breaks, InboundInv, ConnsOK
<1>11. ConnsOK'
  <2> HIDE DEF new
  <2> QED BY <1>9, <1>10, OneConnection DEF InboundInv
<1> QED BY <1>11, NetworkKeeps DEF InboundInv, QueueOK, Breaks

LEMMA ReadsKeeps ==
  ASSUME InboundInv, NEW c \in Conns, Reads(c)
  PROVE  InboundInv'
<1> DEFINE old == conns[c]
           M == Sendable(minted)
           Ends == IF old.open THEN {<< >>} ELSE {<< >>} \cup Pieces(M)
           gone == [NewConn EXCEPT !.last = conns[c].last, !.open = FALSE, !.done = TRUE]
<1>1. old \in Connections /\ ConnectionOK(old, minted) /\ ~ old.done
  BY DEF InboundInv, ConnsOK, Reads
<1>2. M \in SUBSET Made /\ \A m \in M : Encodable(m)
  BY DEF Sendable
<1>3. Ends \in SUBSET ({<< >>} \cup Pieces(M))
  OBVIOUS
<1>4. old.stream \in Streams(Ends, M)
  BY <1>1 DEF ConnectionOK, Whole, Cut
<1>5. Streams(Ends, M) = IF old.open THEN Whole(M) ELSE Cut(M)
  BY DEF Whole, Cut
<1>6. \/ Decode(old.stream) = Incomplete
      \/ \E m \in M, r \in Streams(Ends, M) :
           Decode(old.stream) = [result |-> "message", msg |-> m, rest |-> r]
  <2> HIDE DEF old, M, Ends
  <2> QED BY <1>2, <1>3, <1>4, DecodeStream
<1>7. CASE Return(c)
  <2>1. << >> \in Cut(M) /\ << >> \in Bytes /\ << >> \in Seq(Made)
    BY <1>2, WholeAndCut DEF Bytes
  <2>2. /\ gone.stream = << >> /\ gone.held = << >> /\ ~ gone.open /\ gone.last = old.last
        /\ gone \in Connections
    BY <1>1, <2>1 DEF NewConn, Connections
  <2>3. ConnectionOK(gone, minted)
    <3> HIDE DEF gone
    <3> QED BY <1>1, <2>1, <2>2 DEF ConnectionOK
  <2>4. conns' = [conns EXCEPT ![c] = gone] /\ UNCHANGED minted
    BY <1>7 DEF Return, Reads
  <2>5. ConnsOK'
    <3> HIDE DEF gone
    <3> QED BY <2>2, <2>3, <2>4, OneConnection DEF InboundInv
  <2> QED BY <2>5, NetworkKeeps DEF InboundInv, QueueOK, Reads
<1>8. CASE ~ Return(c)
  <2>1. Decode(old.stream).result = "message"
    BY <1>8 DEF Reads
  <2>2. PICK m \in M, r \in Streams(Ends, M) :
          Decode(old.stream) = [result |-> "message", msg |-> m, rest |-> r]
    <3>1. Decode(old.stream) # Incomplete
      BY <2>1 DEF Incomplete
    <3> QED BY <1>6, <3>1
  <2> DEFINE new == [old EXCEPT !.held = <<m>>, !.stream = r]
  <2>3. conns' = [conns EXCEPT ![c] = new] /\ UNCHANGED minted
    <3>1. Decode(old.stream).msg = m /\ Decode(old.stream).rest = r
      BY <2>2
    <3>2. conns' = [conns EXCEPT ![c].held = <<m>>, ![c].stream = r]
      BY <1>8, <2>1, <3>1 DEF Reads
    <3> QED BY <3>2 DEF Reads, InboundInv, ConnsOK
  <2>4. m \in Made /\ r \in Bytes /\ <<m>> \in Seq(Made)
    BY <1>2 DEF Streams
  <2>5. /\ new \in Connections /\ new.stream = r /\ new.held = <<m>>
        /\ new.open = old.open /\ new.last = old.last /\ new.done = old.done
    <3> HIDE DEF old
    <3> QED BY <1>1, <2>4 DEF Connections
  <2>6. ConnectionOK(new, minted)
    <3>1. r \in IF new.open THEN Whole(Sendable(minted)) ELSE Cut(Sendable(minted))
      BY <1>5, <2>5
    <3>2. m \in Sendable(minted)
      OBVIOUS
    <3>3. old.last \in 0 .. Len(minted)
      BY <1>1 DEF ConnectionOK
    <3> HIDE DEF new, old, M
    <3> QED BY <1>1, <2>5, <3>1, <3>2, <3>3 DEF ConnectionOK
  <2>7. ConnsOK'
    <3> HIDE DEF new
    <3> QED BY <2>3, <2>5, <2>6, OneConnection DEF InboundInv
  <2> QED BY <2>7, NetworkKeeps DEF InboundInv, QueueOK, Reads
<1> QED BY <1>7, <1>8

LEMMA PassesOnKeeps ==
  ASSUME InboundInv, NEW c \in Conns, PassesOn(c)
  PROVE  InboundInv'
<1> DEFINE old == conns[c]
           new == [old EXCEPT !.held = << >>]
<1>1. old \in Connections /\ ConnectionOK(old, minted) /\ old.held # << >>
  BY DEF InboundInv, ConnsOK, PassesOn
<1>2. PICK m \in Sendable(minted) : old.held = <<m>>
  BY <1>1 DEF ConnectionOK
<1>3. incoming' = incoming \o <<m>> /\ Len(incoming) < IncomingCap
  BY <1>2 DEF PassesOn
<1>4. PICK A : A = Sendable(minted)
  OBVIOUS
<1>5. incoming \in Seq(A) /\ m \in A
  BY <1>4 DEF InboundInv, QueueOK
<1>6. incoming' \in Seq(A) /\ Len(incoming') = Len(incoming) + 1 /\ Len(incoming) \in Nat
  BY <1>3, <1>5
<1>7. incoming' \in Seq(Sendable(minted)) /\ Len(incoming') <= IncomingCap
  BY <1>3, <1>4, <1>6, InboundAssumption
<1>8. /\ new \in Connections /\ new.held = << >> /\ new.stream = old.stream
      /\ new.open = old.open /\ new.last = old.last /\ new.done = old.done
  <2>1. << >> \in Seq(Made)
    OBVIOUS
  <2> HIDE DEF old
  <2> QED BY <1>1, <2>1 DEF Connections
<1>9. ConnectionOK(new, minted)
  <2> HIDE DEF old, new
  <2> QED BY <1>1, <1>8 DEF ConnectionOK
<1>10. conns' = [conns EXCEPT ![c] = new] /\ UNCHANGED minted
  BY DEF PassesOn, InboundInv, ConnsOK
<1>11. ConnsOK'
  <2> HIDE DEF new
  <2> QED BY <1>8, <1>9, <1>10, OneConnection DEF InboundInv
<1> QED BY <1>7, <1>11, NetworkKeeps DEF PassesOn

\* An image saved: its time is later than all others'.
LEMMA ImageTypesKept ==
  ASSUME ImagesTypeOK, NEW size \in ImageSizes, SaveImage(size)
  PROVE  ImagesTypeOK'
<1>1. CASE SaveFails
  BY <1>1 DEF SaveFails, ImagesTypeOK, imageVars
<1>2. CASE Saves(size)
  <2> DEFINE new == [size |-> size, time |-> clock + 1]
  <2>1. clock \in Nat /\ clock' = clock + 1
    BY <1>2 DEF ImagesTypeOK, Saves
  <2>2. latest' \in ImageSizes \cup {0, None}
    BY <1>2 DEF ImagesTypeOK, Saves
  <2>3. images' \subseteq images \cup {new}
    BY <1>2 DEF Saves
  <2>4. \A f \in images' : f.size \in ImageSizes /\ f.time \in 1 .. clock'
    BY <2>1, <2>3 DEF ImagesTypeOK
  <2>5. \A f, g \in images' : f # g => f.time # g.time
    <3>1. \A f \in images : f.time # new.time
      BY <2>1 DEF ImagesTypeOK
    <3> HIDE DEF new
    <3> QED BY <2>3, <3>1 DEF ImagesTypeOK
  <2> QED BY <2>1, <2>2, <2>4, <2>5 DEF ImagesTypeOK
<1> QED BY <1>1, <1>2 DEF SaveImage

LEMMA SaveImageKeeps ==
  ASSUME StoreInv, NEW size \in ImageSizes, SaveImage(size)
  PROVE  StoreInv'
<1>1. CASE SaveFails
  BY <1>1, ImagesUnchanged DEF SaveFails
<1>2. CASE Saves(size)
  BY <1>2, ImageTypesKept, SavesKeepsStore DEF StoreInv, SaveImage
<1> QED BY <1>1, <1>2 DEF SaveImage

\* A message is known by its event.
LEMMA EventIsMessage ==
  ASSUME NEW m \in Made, NEW n \in Made, EventID(m) = EventID(n)
  PROVE  m = n
<1>1. m.content = n.content /\ m.source = n.source /\ m.ts = n.ts
  BY DEF EventID
<1>2. m.version = n.version /\ m.type = n.type /\ m.payload = n.payload
  BY <1>1 DEF Made
<1> QED BY <1>1, <1>2 DEF Made

\* The queue without its head.
LEMMA TakenFromQueue ==
  ASSUME QueueOK, incoming # << >>, incoming' = Tail(incoming)
  PROVE  /\ Head(incoming) \in Sendable(minted)
         /\ incoming' \in Seq(Sendable(minted)) /\ Len(incoming') <= IncomingCap
<1>1. PICK A : A = Sendable(minted)
  OBVIOUS
<1>2. incoming \in Seq(A) /\ Len(incoming) <= IncomingCap /\ IncomingCap \in Nat
  BY <1>1, InboundAssumption DEF QueueOK
<1>3. Head(incoming) \in A /\ incoming' \in Seq(A) /\ Len(incoming') = Len(incoming) - 1
      /\ Len(incoming) \in Nat
  BY <1>2
<1> QED BY <1>1, <1>2, <1>3

\* A message is accepted: the ring and the log get its event.
LEMMA AcceptedKeeps ==
  ASSUME InboundInv, NEW m \in Sendable(minted), Accept(EventID(m)),
         handled' = handled \cup {m}
  PROVE  IInv' /\ RingIsHandled'
<1>1. m \in Made /\ EventID(m) \in EventIDs
  BY DEF Sendable, Made, EventID, EventIDs
<1>2. IInv'
  BY <1>1, AcceptInvariant DEF InboundInv
<1>3. PICK id : id = EventID(m)
  OBVIOUS
<1>4. log' = Append(log, id)
  BY <1>3 DEF Accept
<1>5. /\ Len(log') = Len(log) + 1 /\ log'[Len(log) + 1] = id
      /\ \A i \in 1 .. Len(log) : log'[i] = log[i]
      /\ Len(log) \in Nat
  BY <1>1, <1>3, <1>4 DEF InboundInv, IInv, TypeOK
<1>6. RingIsHandled'
  BY <1>3, <1>5 DEF RingIsHandled, InboundInv
<1> QED BY <1>2, <1>6

LEMMA LoopKeeps ==
  ASSUME InboundInv, LoopTakesMessage
  PROVE  InboundInv'
<1> DEFINE m == Head(incoming)
<1>1. /\ m \in Sendable(minted) /\ incoming' \in Seq(Sendable(minted))
      /\ Len(incoming') <= IncomingCap
  BY TakenFromQueue DEF InboundInv, LoopTakesMessage
<1>2. m \in Made
  BY <1>1 DEF Sendable
<1>3. IgnoreDuplicate(m) \/ Apply(m) \/ TakeOffer(m) \/ Drop(m)
  BY DEF LoopTakesMessage
<1> HIDE DEF m
<1>4. CASE IgnoreDuplicate(m)
  <2>1. IInv' /\ StoreInv'
    BY <1>4, RingUnchanged, ImagesUnchanged DEF InboundInv, IgnoreDuplicate
  <2>2. MintedOK' /\ ConnsOK' /\ RingIsHandled'
    BY <1>4 DEF InboundInv, IgnoreDuplicate, MintedOK, ConnsOK, RingIsHandled, vars
  <2>3. QueueOK'
    BY <1>1, <1>4 DEF InboundInv, QueueOK, IgnoreDuplicate
  <2>4. m \in handled \/ m.source = Self
    <3>1. PICK i \in 1 .. Len(log) : log[i] = EventID(m)
      <4>1. PICK s \in Slots : s < ring.count /\ ring.buf[s] = EventID(m)
        BY <1>4 DEF IgnoreDuplicate, RingContains
      <4>2. RingContains(ring, ring.buf[s])
        BY <4>1 DEF RingContains
      <4>3. RingIsWindow
        BY RingHoldsLogIsWindow DEF InboundInv, IInv
      <4>4. PICK i \in Window : log[i] = ring.buf[s]
        BY <4>2, <4>3 DEF RingIsWindow
      <4> QED BY <4>1, <4>4 DEF Window
    <3>2. CASE log[i].source = Self
      BY <3>1, <3>2 DEF EventID
    <3>3. CASE \E n \in handled : log[i] = EventID(n)
      <4>1. PICK n \in handled : EventID(n) = EventID(m)
        BY <3>1, <3>3
      <4>2. n \in Made
        BY DEF InboundInv, QueueOK, Sendable
      <4> QED BY <1>2, <4>1, <4>2, EventIsMessage
    <3> QED BY <3>2, <3>3 DEF InboundInv, RingIsHandled
  <2>5. IgnoredKnown'
    BY <1>4, <2>4 DEF InboundInv, IgnoredKnown, IgnoreDuplicate
  <2> QED BY <2>1, <2>2, <2>3, <2>5 DEF InboundInv
<1>5. CASE Apply(m)
  <2>1. IInv' /\ RingIsHandled'
    BY <1>1, <1>5, AcceptedKeeps DEF Apply
  <2>2. StoreInv'
    <3>1. CASE m.type = TypeImage
      <4>1. Len(m.payload) \in ImageSizes
        BY <1>2, <3>1, InboundAssumption DEF Made
      <4> QED BY <1>5, <3>1, <4>1, SaveImageKeeps DEF Apply, InboundInv
    <3>2. CASE m.type # TypeImage
      BY <1>5, <3>2, ImagesUnchanged DEF Apply, InboundInv
    <3> QED BY <3>1, <3>2
  <2>3. MintedOK' /\ ConnsOK' /\ IgnoredKnown'
    BY <1>5 DEF InboundInv, Apply, MintedOK, ConnsOK, IgnoredKnown
  <2>4. QueueOK'
    BY <1>1, <1>5 DEF InboundInv, QueueOK, Apply
  <2> QED BY <2>1, <2>2, <2>3, <2>4 DEF InboundInv
<1>6. CASE TakeOffer(m)
  <2>1. IInv' /\ RingIsHandled'
    BY <1>1, <1>6, AcceptedKeeps DEF TakeOffer
  <2>2. StoreInv'
    BY <1>6, ImagesUnchanged DEF TakeOffer, InboundInv
  <2>3. MintedOK' /\ ConnsOK' /\ IgnoredKnown'
    BY <1>6 DEF InboundInv, TakeOffer, MintedOK, ConnsOK, IgnoredKnown
  <2>4. QueueOK'
    <3>1. Len(fileOffers') <= 1
      BY <1>6 DEF TakeOffer
    <3> QED BY <1>1, <1>6, <3>1 DEF InboundInv, QueueOK, TakeOffer
  <2> QED BY <2>1, <2>2, <2>3, <2>4 DEF InboundInv
<1>7. CASE Drop(m)
  <2>1. UNCHANGED <<vars, imageVars, minted, fileOffers, handled, ignored>> /\ ConnsOK'
    BY <1>7 DEF Drop, Skip, InboundInv, ConnsOK
  <2> QED BY <1>1, <2>1, NetworkKeeps
<1> QED BY <1>3, <1>4, <1>5, <1>6, <1>7

LEMMA InboundStep == InboundInv /\ [InboundNext]_inboundVars => InboundInv'
<1> SUFFICES ASSUME InboundInv, [InboundNext]_inboundVars PROVE InboundInv'
  OBVIOUS
<1>1. CASE \E content \in Contents, now \in 0 .. MaxTime : LocalCopy(content, now)
  BY <1>1, LocalCopyKeeps
<1>2. CASE \E content \in Contents, source \in Others : PeerCopies(source, content)
  BY <1>2, PeerCopiesKeeps
<1>3. CASE \E c \in Conns, i \in DOMAIN minted : PeerSends(c, i)
  BY <1>3, PeerSendsKeeps
<1>4. CASE \E c \in Conns : \E k \in 0 .. Len(conns[c].stream) : Breaks(c, k)
  BY <1>4, BreaksKeeps
<1>5. CASE \E c \in Conns : Reads(c) \/ PassesOn(c)
  BY <1>5, ReadsKeeps, PassesOnKeeps
<1>6. CASE LoopTakesMessage
  BY <1>6, LoopKeeps
<1>7. CASE UNCHANGED inboundVars
  <2>1. UNCHANGED <<vars, imageVars, minted, fileOffers, handled, ignored>>
        /\ UNCHANGED <<conns, incoming>>
    BY <1>7 DEF inboundVars, netVars
  <2>2. ConnsOK'
    BY <2>1 DEF InboundInv, ConnsOK
  <2> QED BY <2>1, <2>2, NetworkKeeps DEF InboundInv, QueueOK
<1> QED BY <1>1, <1>2, <1>3, <1>4, <1>5, <1>6, <1>7 DEF InboundNext, Network

THEOREM InboundInvariance == InboundSpec => []InboundInv
  BY InboundStart, InboundStep, PTL DEF InboundSpec

\* The types and bounds of the receiving side: no reader holds more than one
\* message, the channel stays within its capacity, and a connection whose
\* reader has returned is closed.
THEOREM InboundTypeCorrect == InboundSpec => []InboundTypeOK
<1>1. InboundInv => InboundTypeOK
  <2> SUFFICES ASSUME InboundInv PROVE InboundTypeOK
    OBVIOUS
  <2>1. ASSUME NEW c \in Conns
        PROVE  /\ conns[c].last \in 0 .. Len(minted) /\ Len(conns[c].held) <= 1
               /\ conns[c].done => ~ conns[c].open /\ conns[c].stream = << >>
    <3>1. ConnectionOK(conns[c], minted)
      BY DEF InboundInv, ConnsOK
    <3>2. PICK conn : conn = conns[c]
      OBVIOUS
    <3>3. conn.held = << >> \/ \E m \in Sendable(minted) : conn.held = <<m>>
      BY <3>1, <3>2 DEF ConnectionOK
    <3>4. CASE conn.held = << >>
      <4>1. Len(conn.held) = 0
        BY <3>4
      <4> QED BY <3>1, <3>2, <4>1 DEF ConnectionOK
    <3>5. CASE conn.held # << >>
      <4>1. PICK m \in Sendable(minted) : conn.held = <<m>>
        BY <3>3, <3>5
      <4>2. Len(conn.held) = 1
        BY <4>1
      <4> QED BY <3>1, <3>2, <4>2 DEF ConnectionOK
    <3> QED BY <3>4, <3>5
  <2> QED BY <2>1 DEF InboundInv, IInv, StoreInv, QueueOK, InboundTypeOK
<1> QED BY <1>1, InboundInvariance, PTL

\* Whatever is cut off and whichever versions meet, the loop acts on messages
\* as their senders made them: Decode never tears, joins or misreads a frame.
THEOREM ReceivedAsMade == InboundSpec => []HandledWereMade
<1>1. InboundInv => HandledWereMade
  BY DEF InboundInv, QueueOK, Sendable, HandledWereMade
<1> QED BY <1>1, InboundInvariance, PTL

\* Only a message that was handled before, or that this node made itself, is
\* ever taken for a duplicate.
THEOREM IgnoredWereKnown == InboundSpec => []OnlyDuplicatesIgnored
<1>1. InboundInv => OnlyDuplicatesIgnored
  BY DEF InboundInv, IgnoredKnown, OnlyDuplicatesIgnored
<1> QED BY <1>1, InboundInvariance, PTL

\* What the ring guarantees on its own, it guarantees for all that the network
\* brings: no event is handled again before more than RingSize others, ...
THEOREM NoReplayFromPeers == InboundSpec => [](RingIsWindow /\ NoReplayInWindow)
<1>1. InboundInv => RingIsWindow /\ NoReplayInWindow
  BY RingHoldsLogIsWindow DEF InboundInv, IInv
<1> QED BY <1>1, InboundInvariance, PTL

\* ... and copying again is always a new event.
THEOREM RecopyIsNewAmongPeers == InboundSpec => RecopyIsNew
<1>1. InboundInv /\ [InboundNext]_inboundVars =>
        [ lastTS' # lastTS => \A i \in 1 .. Len(log) : log[i] # log'[Len(log')] ]_vars
  <2> SUFFICES ASSUME InboundInv, [InboundNext]_inboundVars, lastTS' # lastTS
               PROVE  \A i \in 1 .. Len(log) : log[i] # log'[Len(log')]
    BY DEF vars
  <2>1. CASE \E content \in Contents, now \in 0 .. MaxTime : LocalCopy(content, now)
    BY <2>1, LocalCopyKeeps
  <2>2. CASE Network
    BY <2>2 DEF Network, PeerCopies, PeerSends, Breaks, vars
  <2>3. CASE \E c \in Conns : Reads(c) \/ PassesOn(c)
    BY <2>3 DEF Reads, PassesOn, vars
  <2>4. CASE LoopTakesMessage
    <3>1. lastTS' = lastTS
      BY <2>4 DEF LoopTakesMessage, IgnoreDuplicate, Apply, TakeOffer, Drop, Skip, Accept, vars
    <3> QED BY <3>1
  <2>5. CASE UNCHANGED inboundVars
    BY <2>5 DEF inboundVars, vars
  <2> QED BY <2>1, <2>2, <2>3, <2>4, <2>5 DEF InboundNext
<1> QED BY <1>1, InboundInvariance, PTL DEF InboundSpec, RecopyIsNew

\* After a save that pruned, the png files take no more room than the limit,
\* latest.png included, or all that is left could not be removed.
THEOREM DirectoryWithinLimit == InboundSpec => []LimitKept
<1>1. InboundInv => LimitKept
  BY DEF InboundInv, StoreInv
<1> QED BY <1>1, InboundInvariance, PTL

\* The image just saved is never given up for older ones.
THEOREM NewestIsLast == InboundSpec => []NewestKept
<1>1. InboundInv => NewestKept
  BY DEF InboundInv, StoreInv
<1> QED BY <1>1, InboundInvariance, PTL
=============================================================================
