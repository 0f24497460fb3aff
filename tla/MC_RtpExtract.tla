---------------------------- MODULE MC_RtpExtract ----------------------------
(* The extractor on datagrams of up to MaxLen bytes.  Only the bytes the   *)
(* code reads vary: the first byte (version, padding, extension, CSRC      *)
(* count, or the TS sync byte), the second (payload type, with or without  *)
(* the marker bit), the 16-bit extension length after zero or one CSRC    *)
(* and the last byte (padding length); every other byte is 0.  TSPktMin    *)
(* stands for 188 so that the size checks are reached by short datagrams. *)
EXTENDS RtpExtract

MaxLen == 22
FirstBytes == {71, 64, 128, 129, 143, 144, 145, 160, 176, 192}
SecondBytes == {14, 32, 96, 142}
ExtLens == {0, 1, 256}
PadLens == {0, 1, 2, 9}

\* The offsets (1-based) of the extension length for CSRC count 0 and 1.
ExtAt == {15, 19}

MkDatagram(n, b0, b1, e, p) ==
  [i \in 1 .. n |->
     CASE i = n              -> p
       [] i = 1              -> b0
       [] i = 2              -> b1
       [] i \in ExtAt        -> e \div 256
       [] i - 1 \in ExtAt    -> e % 256
       [] OTHER              -> 0]

MCDatagrams ==
  {MkDatagram(n, b0, b1, e, p) :
     n \in 0 .. MaxLen, b0 \in FirstBytes, b1 \in SecondBytes, e \in ExtLens,
     p \in PadLens}

=============================================================================
