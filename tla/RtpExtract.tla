----------------------------- MODULE RtpExtract -----------------------------
(***************************************************************************)
(* The RTP payload extractor of udp_rtp.go: rtpPayloadGet and              *)
(* processRTPPacket, as pure operators on byte sequences, driven by a      *)
(* receive step that hands each datagram of a small set to it.  A byte is  *)
(* a number in 0..255; Go's 0-based index i is TLA+'s i + 1.  The bit      *)
(* fields are read with \div and %, as the shifts and masks compute them.  *)
(***************************************************************************)
EXTENDS Naturals, Sequences

CONSTANTS
  TSPktMin,   \* MPEG2_TS_PKT_SIZE_MIN, the literal 188 of processRTPPacket
  Datagrams   \* the datagrams the receive loop may read

Bytes == 0 .. 255

\* A datagram is a []byte slice; the TS packet size is positive.
ASSUME RtpAssumption ==
  /\ TSPktMin \in Nat \ {0}
  /\ Datagrams \subseteq Seq(Bytes)

VARIABLES
  datagram,   \* the datagram just read
  payload     \* what processRTPPacket returned for it

vars == <<datagram, payload>>

RTPVersion == 2
MPGA == 14     \* P_MPGA = 0x0E
MPGV == 32     \* P_MPGV = 0x20
SyncByte == 71 \* 0x47

\* Bit fields of the first two bytes of an RTP header.
Version(b) == (b \div 64) % 4
PaddingBit(b) == (b \div 32) % 2
ExtensionBit(b) == (b \div 16) % 2
CSRCCount(b) == b % 16
PayloadType(b) == b % 128

\* binary.BigEndian.Uint16(buf[off : off+2])
BigEndian16(buf, off) == buf[off + 1] * 256 + buf[off + 2]

NoPayload == [ok |-> FALSE, start |-> 0, end |-> 0]

(***************************************************************************)
(* rtpPayloadGet: the offset of the payload and the padding length, or an  *)
(* error.  Its four early returns all yield the error, so they are one    *)
(* disjunction, tested in the code's order (the later tests read bytes    *)
(* the earlier ones showed to exist).                                      *)
(***************************************************************************)
RtpPayloadGet(buf) ==
  LET n     == Len(buf)
      b0    == buf[1]
      start == 12 + 4 * CSRCCount(b0)
      ext   == ExtensionBit(b0) = 1
      body  == IF ext THEN start + 4 + 4 * BigEndian16(buf, start + 2)
                      ELSE start
      end   == IF PaddingBit(b0) = 1 /\ n > 0 THEN buf[n] ELSE 0
  IN IF \/ n < 12
        \/ Version(b0) # RTPVersion
        \/ ext /\ start + 4 > n
        \/ body + end > n
     THEN NoPayload
     ELSE [ok |-> TRUE, start |-> body, end |-> end]

\* processRTPPacket's early returns of the datagram as it is: too short, a
\* raw TS packet, too short for RTP, not version 2, or rtpPayloadGet failed.
PassThrough(data) ==
  \/ Len(data) < TSPktMin
  \/ data[1] = SyncByte
  \/ Len(data) < 12
  \/ Version(data[1]) # RTPVersion
  \/ ~RtpPayloadGet(data).ok

\* Mutant: the processed-size check lets a window of exactly TSPktMin - 1
\* bytes through.
ProcessRTPPacketOffByOne(data) ==
  LET n == Len(data)
      r == RtpPayloadGet(data)
      s == IF PayloadType(data[2]) \in {MPGA, MPGV} /\ r.start + 4 < n - r.end
           THEN r.start + 4 ELSE r.start
  IN IF /\ ~PassThrough(data)
        /\ s < n /\ r.end < n /\ s < n - r.end /\ n - s - r.end >= TSPktMin - 1
     THEN SubSeq(data, s + 1, n - r.end)
     ELSE data

(***************************************************************************)
(* processRTPPacket: passthrough for short datagrams, raw TS packets and   *)
(* anything that is not a valid RTP v2 packet; otherwise the payload       *)
(* window, past the 4-byte MPEG-on-RTP header for MPGA/MPGV, copied out    *)
(* when it is still at least one TS packet long, and the datagram as it is *)
(* when it is not.                                                         *)
(***************************************************************************)
ProcessRTPPacket(data) ==
  LET n == Len(data)
      r == RtpPayloadGet(data)
      s == IF PayloadType(data[2]) \in {MPGA, MPGV} /\ r.start + 4 < n - r.end
           THEN r.start + 4 ELSE r.start
  IN IF /\ ~PassThrough(data)
        /\ s < n /\ r.end < n /\ s < n - r.end /\ n - s - r.end >= TSPktMin
     THEN SubSeq(data, s + 1, n - r.end)
     ELSE data

Init ==
  /\ datagram = << >>
  /\ payload = << >>

\* readLoop hands a datagram it read to processRTPPacket.
Receive ==
  \E d \in Datagrams :
    /\ datagram' = d
    /\ payload' = ProcessRTPPacket(d)

Spec == Init /\ [][Receive]_vars

-----------------------------------------------------------------------------
(* The extractor as spec section 4.B states it, written from the spec      *)
(* rather than from the code: the RTP header length, the padding length,  *)
(* when a packet is well formed, and the window it yields.                 *)
SpecHeaderLen(d) ==
  LET cc == CSRCCount(d[1]) IN
  IF ExtensionBit(d[1]) = 1
  THEN 12 + 4 * cc + 4 + 4 * (d[12 + 4 * cc + 3] * 256 + d[12 + 4 * cc + 4])
  ELSE 12 + 4 * cc

SpecPad(d) == IF PaddingBit(d[1]) = 1 THEN d[Len(d)] ELSE 0

SpecIsRtp(d) ==
  /\ Len(d) >= 12
  /\ Version(d[1]) = 2
  /\ ExtensionBit(d[1]) = 1 => 12 + 4 * CSRCCount(d[1]) + 4 <= Len(d)
  /\ SpecHeaderLen(d) + SpecPad(d) <= Len(d)

SpecStart(d) ==
  IF /\ PayloadType(d[2]) \in {14, 32}
     /\ SpecHeaderLen(d) + 4 < Len(d) - SpecPad(d)
  THEN SpecHeaderLen(d) + 4 ELSE SpecHeaderLen(d)

SpecExtract(d) ==
  IF /\ Len(d) >= TSPktMin
     /\ d[1] # 71
     /\ SpecIsRtp(d)
     /\ Len(d) - SpecStart(d) - SpecPad(d) >= TSPktMin
  THEN [i \in 1 .. Len(d) - SpecStart(d) - SpecPad(d) |-> d[SpecStart(d) + i]]
  ELSE d

(* Every datagram readLoop reads is turned into exactly what spec section  *)
(* 4.B's ten rules produce: the same passthrough cases, the same header,   *)
(* extension and padding arithmetic, the same MPEG skip, and the same      *)
(* minimum-size check on the window (laws 1-3 of spec section 8).          *)
ExtractMatchesSpec == payload = SpecExtract(datagram)

=============================================================================
