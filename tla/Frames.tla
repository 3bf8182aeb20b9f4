------------------------------- MODULE Frames -------------------------------
(***************************************************************************)
(* The length of a WebSocket frame on the wire: buildServerFrame           *)
(* (internal/protocol/ws/frame.go) writes it, decodeOneFrame               *)
(* (internal/server/websocket.go) reads it, as every client does by the    *)
(* same rules.  A length field is the bytes from the second of the frame   *)
(* up to the mask or the payload, without the mask bit.                    *)
(***************************************************************************)
EXTENDS Naturals, Sequences

Byte == 0..255

\* The largest length decodeOneFrame takes out of eight bytes.
MaxInt32 == 2147483647

\* The conversions to uint16 and uint64, most significant byte first; the
\* payload of a frame is shorter than 2^31 bytes.
Uint16Field(n) == <<126, (n \div 256) % 256, n % 256>>
Uint64Field(n) ==
  <<127, 0, 0, 0, 0,
    n \div 16777216, (n \div 65536) % 256, (n \div 256) % 256, n % 256>>

\* Variant: the two bytes are used for one length too many.
LengthFieldWide(len) ==
  IF len < 126 THEN <<len>>
  ELSE IF len <= 65536 THEN Uint16Field(len) ELSE Uint64Field(len)

LengthField(len) ==
  IF len < 126 THEN <<len>>
  ELSE IF len <= 65535 THEN Uint16Field(len) ELSE Uint64Field(len)

\* Eight bytes that say more than MaxInt32.
TooLong(field) ==
  field[1] = 127 /\ (field[6] > 127 \/ \E i \in 2..5 : field[i] # 0)

AnnouncedLength(field) ==
  IF field[1] < 126 THEN field[1]
  ELSE IF field[1] = 126 THEN 256 * field[2] + field[3]
  ELSE 16777216 * field[6] + 65536 * field[7] + 256 * field[8] + field[9]

\* A field as long as its first byte says.
IsLengthField(field) ==
  /\ field \in Seq(Byte) /\ field # <<>> /\ field[1] < 128
  /\ Len(field) = IF field[1] < 126 THEN 1 ELSE IF field[1] = 126 THEN 3 ELSE 9
=============================================================================
