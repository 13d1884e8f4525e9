------------------------------- MODULE Framing -------------------------------
(***************************************************************************)
(* The wire format of a batch (server/transport/framing.go): frameBatch    *)
(* and encodeBatch at one end, decodeBatch at the other, one loop          *)
(* iteration per step, and a channel that may cut a frame short in         *)
(* between.                                                                *)
(*                                                                         *)
(* The two header bytes of a frame are left out: a frame that lost one is  *)
(* rejected like any undecodable frame (see Carry).  zstd is external: it  *)
(* restores what it compressed and rejects compressed data that was cut.   *)
(*                                                                         *)
(* The length of a record is two bytes, and nobody above the codec bounds  *)
(* what it sends: with a key the records are sealed packets, 33 bytes      *)
(* longer than a raw packet of up to 65535 (main.go:332-336).  So a record *)
(* may be longer than its length field can say.                            *)
(***************************************************************************)
EXTENDS Integers, Sequences

CONSTANTS
  Base,       \* how many values a byte has: 256
  Packets,    \* packets the layer above may send, of any length
  MaxBatch    \* maxBatchCount

Byte == 0..(Base - 1)
LengthRange == Base * Base   \* how many values a uint16 has: 65536

ASSUME FramingAssumption ==
  /\ Base \in Nat /\ Base >= 2
  /\ Packets \subseteq Seq(Byte)
  /\ MaxBatch \in Nat

VARIABLES
  batch,       \* the packets to encode
  framed,      \* frameBatch's out
  start,       \* auxiliary: where each record of framed starts
  compressed,  \* batchFlagZstd
  arrived,     \* number of bytes of framed that reach decodeBatch
  intact,      \* nothing was cut off the frame
  pos,         \* bytes decodeBatch has consumed
  out,         \* its pkts
  pc           \* where the batch is on its way

vars == <<batch, framed, start, compressed, arrived, intact, pos, out, pc>>

TypeOK ==
  /\ batch \in Seq(Packets) /\ Len(batch) <= MaxBatch
  /\ framed \in Seq(Byte)
  /\ start \in Seq(Nat)
  /\ compressed \in BOOLEAN
  /\ arrived \in Nat
  /\ intact \in BOOLEAN
  /\ pos \in Nat
  /\ out \in Seq(Seq(Byte))
  /\ pc \in {"gather", "frame", "carry", "decode", "done", "error"}

Init ==
  /\ batch = <<>> /\ framed = <<>> /\ start = <<0>>
  /\ compressed = FALSE /\ arrived = 0 /\ intact = TRUE
  /\ pos = 0 /\ out = <<>> /\ pc = "gather"

-------------------------------------------------------------------------------
(* encodeBatch *)

Gather(p) ==
  /\ pc = "gather" /\ Len(batch) < MaxBatch
  /\ batch' = Append(batch, p)
  /\ UNCHANGED <<framed, start, compressed, arrived, intact, pos, out, pc>>

BeginFrame ==
  /\ pc = "gather"
  /\ pc' = "frame"
  /\ UNCHANGED <<batch, framed, start, compressed, arrived, intact, pos, out>>

\* (mutant) low byte first
PutUint16_LittleEndian(n) == <<n % Base, (n % LengthRange) \div Base>>

(* uint16(n), which drops what does not fit, high byte first *)
PutUint16(n) == <<(n % LengthRange) \div Base, (n % LengthRange) % Base>>

FrameRecord ==
  LET p == batch[Len(start)]
  IN  /\ pc = "frame" /\ Len(start) <= Len(batch)
      /\ framed' = framed \o PutUint16(Len(p)) \o p
      /\ start' = Append(start, Len(framed'))
      /\ UNCHANGED <<batch, compressed, arrived, intact, pos, out, pc>>

(* Compressed only when that makes the frame smaller; either may happen.   *)
Encode(zstd) ==
  /\ pc = "frame" /\ Len(start) > Len(batch)
  /\ zstd => Len(batch) > 0
  /\ compressed' = zstd
  /\ pc' = "carry"
  /\ UNCHANGED <<batch, framed, start, arrived, intact, pos, out>>

-------------------------------------------------------------------------------
(* The channel, and the checks of decodeBatch before its loop *)

(* Without a cut everything arrives.  A cut in the header or in compressed *)
(* data is an error; elsewhere the first n bytes go on to the loop.        *)
Carry(n) ==
  /\ pc = "carry"
  /\ \/ n = Len(framed) /\ UNCHANGED intact /\ pc' = "decode"
     \/ intact' = FALSE /\ pc' = "error"
     \/ n < Len(framed) /\ intact' = FALSE /\ pc' = IF compressed THEN "error" ELSE "decode"
  /\ arrived' = n
  /\ UNCHANGED <<batch, framed, start, compressed, pos, out>>

-------------------------------------------------------------------------------
(* The loop of decodeBatch *)

Uint16(i) == framed[i + 1] * Base + framed[i + 2]

HasPrefix == arrived - pos >= 2

HasPacket == arrived - (pos + 2) >= Uint16(pos)

DecodeRecord ==
  /\ pc = "decode" /\ pos < arrived /\ HasPrefix /\ HasPacket
  /\ out' = Append(out, SubSeq(framed, pos + 3, pos + 2 + Uint16(pos)))
  /\ pos' = pos + 2 + Uint16(pos)
  /\ UNCHANGED <<batch, framed, start, compressed, arrived, intact, pc>>

DecodeError_KeepsShort ==
  /\ pc = "decode" /\ pos < arrived
  /\ IF HasPrefix THEN ~HasPacket ELSE TRUE
  /\ out' = Append(out, SubSeq(framed, pos + 3, arrived))
  /\ pos' = arrived
  /\ pc' = "done"
  /\ UNCHANGED <<batch, framed, start, compressed, arrived, intact>>

(* A record cut short discards the whole batch. *)
DecodeError ==
  /\ pc = "decode" /\ pos < arrived
  /\ IF HasPrefix THEN ~HasPacket ELSE TRUE
  /\ out' = <<>>
  /\ pc' = "error"
  /\ UNCHANGED <<batch, framed, start, compressed, arrived, intact, pos>>

DecodeEnds_Early == pos + 2 >= arrived

DecodeEnds == pos >= arrived

DecodeDone ==
  /\ pc = "decode" /\ DecodeEnds
  /\ pc' = "done"
  /\ UNCHANGED <<batch, framed, start, compressed, arrived, intact, pos, out>>

Decoding == DecodeRecord \/ DecodeError \/ DecodeDone

Next ==
  \/ \E p \in Packets : Gather(p)
  \/ BeginFrame \/ FrameRecord
  \/ \E zstd \in BOOLEAN : Encode(zstd)
  \/ \E n \in 0..Len(framed) : Carry(n)
  \/ Decoding

Spec == Init /\ [][Next]_vars

-------------------------------------------------------------------------------
(* Properties *)

(* The first n packets of the batch are no longer than their length fields *)
(* can say.                                                                *)
Fit(n) == \A i \in DOMAIN batch : i <= n => Len(batch[i]) < LengthRange
AllFit == Fit(Len(batch))

(* What the length field of p says belongs to it.                          *)
Announced(p) == SubSeq(p, 1, Len(p) % LengthRange)

(* decodeBatch returns the packets encodeBatch was given, byte for byte,   *)
(* and never an error for a frame that was not cut (framing.go:84          *)
(* "decodeBatch reverses encodeBatch, returning the original packets"), if *)
(* all of them are shorter than 65536 bytes.  Otherwise it is an error, or *)
(* the packets before the first longer one come out unharmed and that one  *)
(* loses all but the first Len % 65536 bytes.                              *)
RoundTrip ==
  intact =>
    /\ AllFit => pc # "error" /\ (pc = "done" => out = batch)
    /\ pc = "done" =>
         \A i \in DOMAIN batch : Fit(i - 1) => i \in DOMAIN out /\ out[i] = Announced(batch[i])

(* A frame that was cut is rejected as a whole, or the cut fell between    *)
(* two records and the packets before it come out unharmed, up to the      *)
(* first packet of 65536 bytes or more: the layer above sees no packet     *)
(* that the cut has damaged (framing.go:105-118).                          *)
CutYieldsPrefix ==
  /\ pc = "error" => out = <<>>
  /\ ~intact /\ pc = "done" =>
       /\ AllFit => Len(out) <= Len(batch)
       /\ \A i \in DOMAIN out : i <= Len(batch) /\ Fit(i) => out[i] = batch[i]

(* Decoding never reads past what arrived (framing.go:106-117).            *)
WithinArrived == pos <= arrived

-------------------------------------------------------------------------------
(* The inductive invariant: framed holds one record per packet, and the    *)
(* decoder stands at the start of the record after those it has returned,  *)
(* as long as each of them was as long as its length field said.           *)

Record(i) ==
  LET p == batch[i]
  IN  /\ start[i + 1] = start[i] + 2 + Len(p)
      /\ Uint16(start[i]) = Len(p) % LengthRange
      /\ \A j \in 1..Len(p) : framed[start[i] + 2 + j] = p[j]

Framed ==
  /\ Len(start) >= 1 /\ Len(start) <= Len(batch) + 1
  /\ start[1] = 0 /\ start[Len(start)] = Len(framed)
  /\ \A i \in DOMAIN start : start[i] <= Len(framed)
  /\ \A i \in 1..(Len(start) - 1) : Record(i)
  /\ pc = "gather" => Len(start) = 1
  /\ pc \in {"carry", "decode", "done", "error"} => Len(start) = Len(batch) + 1

Decoded ==
  /\ pc \in {"gather", "frame", "carry"} => pos = 0 /\ out = <<>> /\ intact /\ arrived = 0
  /\ arrived <= Len(framed) /\ pos <= arrived
  /\ intact /\ pc \in {"decode", "done"} => arrived = Len(framed)
  /\ pc = "error" => out = <<>> /\ (intact => ~AllFit)
  /\ pc \in {"decode", "done"} =>
       /\ AllFit => Len(out) <= Len(batch)
       /\ Len(out) <= Len(batch) /\ Fit(Len(out)) => pos = start[Len(out) + 1]
       /\ \A i \in DOMAIN out :
            i <= Len(batch) /\ Fit(i - 1) => out[i] = Announced(batch[i])
  /\ pc = "done" => pos = arrived

IInv == TypeOK /\ Framed /\ Decoded
=============================================================================
