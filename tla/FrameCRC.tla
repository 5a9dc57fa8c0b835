------------------------------ MODULE FrameCRC ------------------------------
(* The checksum of a frame: the CRC-16 with polynomial 0x1021 from 0xA2. *)
EXTENDS Integers, Sequences, Bitwise

Poly == 4129   \* 0x1021

\* One bit of a table entry.
ShiftBit(c) == IF c < 32768 THEN 2 * c ELSE ((2 * c) % 65536) ^^ Poly

\* The source lists the 256 values.
CRCTable ==
  [i \in 0..255 |->
     LET shift[k \in 0..8] ==
           IF k = 0 THEN 256 * i ELSE ShiftBit(shift[k - 1])
     IN shift[8]]

CRCInit == 162  \* 0xA2

NextCrc(crc, byte) ==
  CRCTable[(crc \div 256) ^^ byte] ^^ ((256 * crc) % 65536)

\* makeCRC(buffer, useCount), for a buffer of useCount bytes.
CRC(buffer) ==
  LET crc[k \in 0..Len(buffer)] ==
        IF k = 0 THEN CRCInit ELSE NextCrc(crc[k - 1], buffer[k])
  IN crc[Len(buffer)]
=============================================================================
