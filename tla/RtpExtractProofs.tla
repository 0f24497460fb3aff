-------------------------- MODULE RtpExtractProofs --------------------------
(***************************************************************************)
(* Proofs about the RTP payload extractor: processRTPPacket computes what  *)
(* spec section 4.B says for every datagram and every TS packet size, not *)
(* only for the datagrams a TLC run enumerates.  The argument is a case   *)
(* split along the early returns of the two functions; no induction over *)
(* the bytes is needed, because the window is one SubSeq.                 *)
(***************************************************************************)
EXTENDS RtpExtract, SequenceTheorems, TLAPS

USE RtpAssumption

\* The bit fields of a byte are small naturals.
LEMMA FieldTypes ==
  ASSUME NEW b \in Nat, b =< 255
  PROVE  /\ Version(b) \in Nat /\ Version(b) =< 3
         /\ PaddingBit(b) \in Nat /\ PaddingBit(b) =< 1
         /\ ExtensionBit(b) \in Nat /\ ExtensionBit(b) =< 1
         /\ CSRCCount(b) \in Nat /\ CSRCCount(b) =< 15
         /\ PayloadType(b) \in Nat /\ PayloadType(b) =< 127
BY DEF Version, PaddingBit, ExtensionBit, CSRCCount, PayloadType

\* A byte is a natural below 256.
LEMMA ByteBound ==
  ASSUME NEW x \in Bytes
  PROVE  x \in Nat /\ x =< 255
BY DEF Bytes

\* Every byte of a datagram is a number below 256.
LEMMA ByteAt ==
  ASSUME NEW d \in Seq(Bytes), NEW i \in 1 .. Len(d)
  PROVE  d[i] \in Nat /\ d[i] =< 255
<1>1. d[i] \in Bytes
  BY ElementOfSeq
<1>2. QED
  BY <1>1, ByteBound, Zenon

\* The header fields of a datagram at least 12 bytes long, as numbers.
LEMMA HeaderTypes ==
  ASSUME NEW d \in Seq(Bytes), Len(d) >= 12
  PROVE  /\ Len(d) \in Nat
         /\ d[1] \in Nat /\ d[1] =< 255
         /\ d[2] \in Nat /\ d[2] =< 255
         /\ d[Len(d)] \in Nat /\ d[Len(d)] =< 255
         /\ Version(d[1]) \in Nat /\ Version(d[1]) =< 3
         /\ PaddingBit(d[1]) \in Nat /\ PaddingBit(d[1]) =< 1
         /\ ExtensionBit(d[1]) \in Nat /\ ExtensionBit(d[1]) =< 1
         /\ CSRCCount(d[1]) \in Nat /\ CSRCCount(d[1]) =< 15
         /\ PayloadType(d[2]) \in Nat /\ PayloadType(d[2]) =< 127
<1>1. Len(d) \in Nat
  BY LenProperties
<1>2. /\ d[1] \in Nat /\ d[1] =< 255
      /\ d[2] \in Nat /\ d[2] =< 255
      /\ d[Len(d)] \in Nat /\ d[Len(d)] =< 255
  BY <1>1, ByteAt
<1>3. QED
  BY <1>1, <1>2, FieldTypes

(***************************************************************************)
(* The quantities rtpPayloadGet computes, named so that the arithmetic     *)
(* about them can be done without unfolding the byte lookups.              *)
(***************************************************************************)
HdrLen(d) == 12 + 4 * CSRCCount(d[1])
ExtWords(d) == BigEndian16(d, HdrLen(d) + 2)
PadLen(d) == IF PaddingBit(d[1]) = 1 /\ Len(d) > 0 THEN d[Len(d)] ELSE 0
Body(d) == IF ExtensionBit(d[1]) = 1 THEN HdrLen(d) + 4 + 4 * ExtWords(d)
                                     ELSE HdrLen(d)

\* rtpPayloadGet, in terms of those quantities.
LEMMA PayloadGetUnfold ==
  ASSUME NEW d
  PROVE  RtpPayloadGet(d) =
           IF \/ Len(d) < 12
              \/ Version(d[1]) # RTPVersion
              \/ ExtensionBit(d[1]) = 1 /\ HdrLen(d) + 4 > Len(d)
              \/ Body(d) + PadLen(d) > Len(d)
           THEN NoPayload
           ELSE [ok |-> TRUE, start |-> Body(d), end |-> PadLen(d)]
BY Zenon DEF RtpPayloadGet, HdrLen, ExtWords, PadLen, Body

\* The quantities are numbers, and the spec's header and padding lengths
\* are the code's whenever the extension header is inside the datagram.
LEMMA QuantitiesMatch ==
  ASSUME NEW d \in Seq(Bytes), Len(d) >= 12
  PROVE  /\ HdrLen(d) \in Nat
         /\ PadLen(d) \in Nat
         /\ PadLen(d) = SpecPad(d)
         /\ ExtensionBit(d[1]) = 1 /\ HdrLen(d) + 4 =< Len(d) =>
              /\ ExtWords(d) \in Nat
              /\ Body(d) \in Nat
              /\ SpecHeaderLen(d) = Body(d)
         /\ ExtensionBit(d[1]) # 1 => /\ Body(d) = HdrLen(d)
                                      /\ SpecHeaderLen(d) = Body(d)
<1>1. HdrLen(d) \in Nat
  BY HeaderTypes DEF HdrLen
<1>2. PadLen(d) \in Nat /\ PadLen(d) = SpecPad(d)
  BY HeaderTypes DEF PadLen, SpecPad
<1>3. ASSUME ExtensionBit(d[1]) = 1, HdrLen(d) + 4 =< Len(d)
      PROVE  /\ ExtWords(d) \in Nat
             /\ Body(d) \in Nat
             /\ SpecHeaderLen(d) = Body(d)
  <2>1. /\ HdrLen(d) + 2 + 1 \in 1 .. Len(d)
        /\ HdrLen(d) + 2 + 2 \in 1 .. Len(d)
        /\ HdrLen(d) + 2 + 1 = 12 + 4 * CSRCCount(d[1]) + 3
        /\ HdrLen(d) + 2 + 2 = 12 + 4 * CSRCCount(d[1]) + 4
    <3>1. CSRCCount(d[1]) \in Nat /\ Len(d) \in Nat
      BY HeaderTypes
    <3>2. QED
      BY <3>1, <1>3 DEF HdrLen
  <2>2. /\ d[HdrLen(d) + 2 + 1] \in Nat /\ d[HdrLen(d) + 2 + 1] =< 255
        /\ d[HdrLen(d) + 2 + 2] \in Nat /\ d[HdrLen(d) + 2 + 2] =< 255
    BY <2>1, ByteAt
  <2>3. ExtWords(d) = d[HdrLen(d) + 2 + 1] * 256 + d[HdrLen(d) + 2 + 2]
    BY DEF ExtWords, BigEndian16
  <2>4. ExtWords(d) \in Nat
    BY <2>2, <2>3
  <2>5. Body(d) = HdrLen(d) + 4 + 4 * ExtWords(d)
    BY <1>3 DEF Body
  <2>6. SpecHeaderLen(d) =
          12 + 4 * CSRCCount(d[1]) + 4
             + 4 * (d[HdrLen(d) + 2 + 1] * 256 + d[HdrLen(d) + 2 + 2])
    BY <1>3, <2>1, Zenon DEF SpecHeaderLen
  <2>7. QED
    BY <1>1, <2>3, <2>4, <2>5, <2>6 DEF HdrLen
<1>4. ASSUME ExtensionBit(d[1]) # 1
      PROVE  Body(d) = HdrLen(d) /\ SpecHeaderLen(d) = Body(d)
  BY <1>4 DEF Body, SpecHeaderLen, HdrLen
<1>5. QED
  BY <1>1, <1>2, <1>3, <1>4

\* On a v2 header, rtpPayloadGet succeeds exactly when the spec calls the
\* packet RTP, with the spec's header and padding length.
LEMMA PayloadGetMatches ==
  ASSUME NEW d \in Seq(Bytes), Len(d) >= 12, Version(d[1]) = RTPVersion
  PROVE  /\ RtpPayloadGet(d).ok <=> SpecIsRtp(d)
         /\ SpecIsRtp(d) => /\ RtpPayloadGet(d).start = SpecHeaderLen(d)
                            /\ RtpPayloadGet(d).end = SpecPad(d)
<1>1. SpecIsRtp(d) <=>
        /\ ExtensionBit(d[1]) = 1 => HdrLen(d) + 4 =< Len(d)
        /\ SpecHeaderLen(d) + SpecPad(d) =< Len(d)
  BY DEF SpecIsRtp, HdrLen, RTPVersion
<1>2. CASE ExtensionBit(d[1]) = 1 /\ HdrLen(d) + 4 > Len(d)
  <2>1. RtpPayloadGet(d) = NoPayload
    BY <1>2, PayloadGetUnfold
  <2>2. HdrLen(d) \in Nat /\ Len(d) \in Nat
    BY QuantitiesMatch, LenProperties
  <2>3. ~(HdrLen(d) + 4 =< Len(d))
    BY <1>2, <2>2
  <2>4. ~SpecIsRtp(d)
    BY <1>1, <1>2, <2>3, Zenon
  <2>5. QED
    BY <2>1, <2>4 DEF NoPayload
<1>3. CASE ~(ExtensionBit(d[1]) = 1 /\ HdrLen(d) + 4 > Len(d))
  <2>1. /\ Body(d) \in Nat
        /\ HdrLen(d) \in Nat
        /\ SpecHeaderLen(d) = Body(d)
        /\ PadLen(d) \in Nat
        /\ PadLen(d) = SpecPad(d)
        /\ Len(d) \in Nat
    BY <1>3, QuantitiesMatch, HeaderTypes
  <2>2. RtpPayloadGet(d) =
          IF Body(d) + PadLen(d) > Len(d) THEN NoPayload
          ELSE [ok |-> TRUE, start |-> Body(d), end |-> PadLen(d)]
    BY <1>3, PayloadGetUnfold
  <2>3. SpecIsRtp(d) <=> Body(d) + PadLen(d) =< Len(d)
    BY <1>1, <1>3, <2>1
  <2>4. QED
    BY <2>1, <2>2, <2>3 DEF NoPayload
<1>4. QED
  BY <1>2, <1>3

\* The copied window is the spec's window: SubSeq(data, s + 1, n - e) is
\* the function on 1 .. n - s - e that reads data[s + i].
LEMMA WindowIsSpec ==
  ASSUME NEW d, NEW n \in Nat, NEW s \in Nat, NEW e \in Nat, s + e =< n
  PROVE  SubSeq(d, s + 1, n - e) = [i \in 1 .. n - s - e |-> d[s + i]]
OBVIOUS

\* A datagram that processRTPPacket passes through unchanged is one the
\* spec passes through too.
LEMMA PassThroughMatches ==
  ASSUME NEW d \in Seq(Bytes), PassThrough(d)
  PROVE  SpecExtract(d) = d
<1>1. Len(d) \in Nat
  BY LenProperties
<1>2. CASE Len(d) < TSPktMin \/ d[1] = SyncByte \/ Len(d) < 12
  BY <1>1, <1>2 DEF SpecExtract, SpecIsRtp, SyncByte
<1>3. CASE Len(d) >= 12 /\ Version(d[1]) # RTPVersion
  BY <1>3 DEF SpecExtract, SpecIsRtp, RTPVersion
<1>4. CASE Len(d) >= 12 /\ Version(d[1]) = RTPVersion /\ ~RtpPayloadGet(d).ok
  <2>1. ~SpecIsRtp(d)
    BY <1>4, PayloadGetMatches
  <2>2. QED
    BY <2>1 DEF SpecExtract
<1>5. QED
  BY <1>1, <1>2, <1>3, <1>4 DEF PassThrough

\* For every datagram, processRTPPacket returns what spec 4.B prescribes.
LEMMA ProcessMatchesSpec ==
  ASSUME NEW d \in Seq(Bytes)
  PROVE  ProcessRTPPacket(d) = SpecExtract(d)
<1>1. CASE PassThrough(d)
  <2>1. ProcessRTPPacket(d) = d
    BY <1>1, Zenon DEF ProcessRTPPacket
  <2>2. QED
    BY <1>1, <2>1, PassThroughMatches
<1>2. CASE ~PassThrough(d)
  <2>1. /\ Len(d) >= TSPktMin /\ d[1] # SyncByte /\ Len(d) >= 12
        /\ Version(d[1]) = RTPVersion /\ RtpPayloadGet(d).ok
    BY <1>2, LenProperties DEF PassThrough
  <2>2. /\ SpecIsRtp(d)
        /\ RtpPayloadGet(d).start = SpecHeaderLen(d)
        /\ RtpPayloadGet(d).end = SpecPad(d)
    BY <2>1, PayloadGetMatches
  <2>3. /\ Len(d) \in Nat
        /\ SpecHeaderLen(d) \in Nat
        /\ SpecPad(d) \in Nat
    <3>1. Len(d) \in Nat /\ HdrLen(d) \in Nat
      BY <2>1, HeaderTypes, QuantitiesMatch
    <3>2. SpecPad(d) \in Nat
      BY <2>1, QuantitiesMatch
    <3>3. ExtensionBit(d[1]) = 1 => HdrLen(d) + 4 =< Len(d)
      BY <2>2 DEF SpecIsRtp, HdrLen
    <3>4. SpecHeaderLen(d) \in Nat
      BY <2>1, <3>3, QuantitiesMatch
    <3>5. QED
      BY <3>1, <3>2, <3>4
  <2>4. SpecStart(d) \in Nat
    BY <2>3 DEF SpecStart
  <2>5. ProcessRTPPacket(d) =
          IF /\ SpecStart(d) < Len(d) /\ SpecPad(d) < Len(d)
             /\ SpecStart(d) < Len(d) - SpecPad(d)
             /\ Len(d) - SpecStart(d) - SpecPad(d) >= TSPktMin
          THEN SubSeq(d, SpecStart(d) + 1, Len(d) - SpecPad(d))
          ELSE d
    BY <1>2, <2>2, Zenon DEF ProcessRTPPacket, SpecStart, MPGA, MPGV
  <2>6. (/\ SpecStart(d) < Len(d) /\ SpecPad(d) < Len(d)
         /\ SpecStart(d) < Len(d) - SpecPad(d)
         /\ Len(d) - SpecStart(d) - SpecPad(d) >= TSPktMin)
        <=> Len(d) - SpecStart(d) - SpecPad(d) >= TSPktMin
    BY <2>3, <2>4
  <2>7. SpecExtract(d) =
          IF Len(d) - SpecStart(d) - SpecPad(d) >= TSPktMin
          THEN [i \in 1 .. Len(d) - SpecStart(d) - SpecPad(d) |->
                  d[SpecStart(d) + i]]
          ELSE d
    BY <2>1, <2>2 DEF SpecExtract, SyncByte
  <2>8. SubSeq(d, SpecStart(d) + 1, Len(d) - SpecPad(d))
          = [i \in 1 .. Len(d) - SpecStart(d) - SpecPad(d) |->
               d[SpecStart(d) + i]]
    <3>1. SpecStart(d) + SpecPad(d) =< Len(d)
      BY <2>2, <2>3, <2>4 DEF SpecStart, SpecIsRtp
    <3>2. \A n, s, e \in Nat :
            s + e =< n =>
              SubSeq(d, s + 1, n - e) = [i \in 1 .. n - s - e |-> d[s + i]]
      BY WindowIsSpec
    <3>3. PICK n \in Nat, s \in Nat, e \in Nat :
            n = Len(d) /\ s = SpecStart(d) /\ e = SpecPad(d)
      BY <2>3, <2>4
    <3>4. s + e =< n
      BY <3>1, <3>3
    <3>5. SubSeq(d, s + 1, n - e) = [i \in 1 .. n - s - e |-> d[s + i]]
      BY <3>4, WindowIsSpec
    <3>6. QED
      BY <3>3, <3>5
  <2>9. QED
    BY <2>5, <2>6, <2>7, <2>8
<1>3. QED
  BY <1>1, <1>2

(* For any TS packet size and any datagrams the socket delivers,           *)
(* processRTPPacket turns every datagram readLoop reads into exactly what  *)
(* spec section 4.B prescribes (ExtractMatchesSpec, checked by the         *)
(* rtp_extract run on datagrams of at most 22 bytes).                      *)
THEOREM ExtractCorrect == Spec => []ExtractMatchesSpec
<1>1. Init => ExtractMatchesSpec
  BY DEF Init, ExtractMatchesSpec, SpecExtract, SpecIsRtp
<1>2. ExtractMatchesSpec /\ [Receive]_vars => ExtractMatchesSpec'
  <2> SUFFICES ASSUME ExtractMatchesSpec, [Receive]_vars
               PROVE  ExtractMatchesSpec'
    OBVIOUS
  <2>1. CASE Receive
    <3>1. PICK x \in Datagrams : datagram' = x /\ payload' = ProcessRTPPacket(x)
      BY <2>1 DEF Receive
    <3>2. x \in Seq(Bytes)
      BY RtpAssumption
    <3>3. QED
      BY <3>1, <3>2, ProcessMatchesSpec DEF ExtractMatchesSpec
  <2>2. CASE UNCHANGED vars
    BY <2>2 DEF ExtractMatchesSpec, vars
  <2>3. QED
    BY <2>1, <2>2
<1>3. QED
  BY <1>1, <1>2, PTL DEF Spec

=============================================================================
