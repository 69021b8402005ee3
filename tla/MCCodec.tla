------------------------------- MODULE MCCodec -------------------------------
(* The codec over the messages and services of demo.ts.                    *)
EXTENDS Codec
LOCAL Demo == INSTANCE Messages

MCSchemas  == Demo!FieldTables
MCOutgoing == Demo!Sent
MCIncoming == Demo!Received

(* Scaled to a two-bit int32: numbers that are ordinary, beyond int32,     *)
(* beyond a double's integers (odd, so that rounding shows), beyond int64. *)
MCNumbers == {0, 1, -2, 2, 5, 8}
=============================================================================
