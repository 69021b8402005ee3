-------------------------------- MODULE Codec --------------------------------
(***************************************************************************)
(* How a message crosses between the frontend and a backend: the functions *)
(* that src/frontend/protos/demo.ts generates for every message, over any  *)
(* table of messages (module Messages holds the real one).                 *)
(*                                                                         *)
(* One message is sent, by the frontend or by a backend ("peer"), either   *)
(* in the binary form of gRPC or as JSON.  Each step writes the next       *)
(* element and reads it: encode and decode are loops over one buffer that  *)
(* share nothing else, so nothing is lost by running them in step.  A      *)
(* message within a message is one element; it crosses by the same         *)
(* functions, as a message of its own type.                                *)
(*                                                                         *)
(* A field holds the sequence of its elements: a field that is not         *)
(* repeated has one, or none when it is the default of its kind.           *)
(***************************************************************************)
EXTENDS Integers, Sequences, FiniteSets

CONSTANTS
  Schemas,     \* for each type, its fields with number, kind and repeated
  Outgoing,    \* the types the frontend sends
  Incoming,    \* the types it receives
  Contents,    \* texts, true, and messages within a message, but for:
  Blank,       \* the empty text, false, and the message that has no field
  Missing,     \* undefined: a field the sender's object does not have
  Numbers,     \* numbers that senders use
  IntLimit, SafeLimit, LongLimit,   \* int32, a double's integers, int64
  MaxList,     \* bound on the elements of a repeated field
  MaxGiven,    \* bound on the fields of a message that are not default
  MaxUnknown   \* bound on the fields of a message that the reader lacks

(* The numbers of a message's fields are distinct, as the cases of decode  *)
(* are, and the kinds are those demo.ts uses.                              *)
ASSUME CodecAssumption ==
  /\ Outgoing \cup Incoming \subseteq DOMAIN Schemas
  /\ \A t \in DOMAIN Schemas :
       /\ Schemas[t] \in [DOMAIN Schemas[t] ->
            [number : Nat \ {0}, repeated : BOOLEAN,
             kind : {"string", "bool", "int32", "int64"} \cup DOMAIN Schemas]]
       /\ \A f, g \in DOMAIN Schemas[t] :
            Schemas[t][f].number = Schemas[t][g].number => f = g
  /\ {"string", "bool", "int32", "int64"} \cap DOMAIN Schemas = {}
  /\ IntLimit \in Nat /\ SafeLimit \in Nat /\ LongLimit \in Nat
  /\ IntLimit <= SafeLimit /\ SafeLimit < LongLimit
  /\ Numbers \subseteq Int
  /\ Blank \notin Contents
  /\ Missing \notin Contents \cup {Blank} \cup Int
  /\ MaxList \in Nat /\ MaxGiven \in Nat /\ MaxUnknown \in Nat

VARIABLES
  type, sender, format,   \* what is sent, by whom, and in which form
  message,                \* the sender's object
  phase,                  \* "ready", "moving", "delivered" or "refused"
  rest,                   \* the elements of each field still to be written
  received,               \* the reader's object
  unknown                 \* how many fields the reader lacked
vars == <<type, sender, format, message, phase, rest, received, unknown>>

-----------------------------------------------------------------------------
Fields    == DOMAIN Schemas[type]
Number(f) == Schemas[type][f].number
Kind(f)   == Schemas[type][f].kind
Many(f)   == Schemas[type][f].repeated

IsNumber(kind)  == kind \in {"int32", "int64"}
IsMessage(kind) == kind \in DOMAIN Schemas
Default(kind)   == IF IsNumber(kind) THEN 0 ELSE Blank
(* Of fields that are not repeated the default is not told from none; a    *)
(* message without fields is told from no message.                         *)
Put(f, v, old) == IF Many(f) THEN Append(old, v)
                  ELSE IF ~IsMessage(Kind(f)) /\ v = Default(Kind(f)) THEN <<>>
                  ELSE <<v>>

Encodable(kind, v) ==
  /\ v # Missing
  /\ kind = "int32" => v \in -IntLimit..(IntLimit - 1)
  /\ kind = "int64" => v \in -LongLimit..(LongLimit - 1)

(* What a sender's object may hold in a field.  A peer's objects are       *)
(* complete and fit their fields; the frontend's come from a browser.       *)
Values(kind) == IF IsNumber(kind)
                THEN {n \in Numbers : sender = "peer" => Encodable(kind, n)}
                ELSE Contents \cup {Blank}
Lists(f) == UNION {[1..n -> Values(Kind(f))] : n \in 0..MaxList}
Given(f) == (IF Many(f) THEN Lists(f)
             ELSE {Put(f, v, <<>>) : v \in Values(Kind(f))} \cup {<<>>})
            \cup (IF sender = "frontend" THEN {Missing} ELSE {})

(* fromPartial: what is missing gets its default.                          *)
Completed == [f \in Fields |->
                IF message[f] = Missing THEN <<>> ELSE message[f]]

-----------------------------------------------------------------------------
(* A mutant: encode throws for any undefined field.                        *)
ToWrite_Strict(f) == IF message[f] # Missing THEN message[f]
                     ELSE IF format = "json" THEN <<>> ELSE <<Missing>>

(* toJSON omits what is missing.  encode omits missing messages, writes    *)
(* the default for texts and booleans (undefined differs from it, and the  *)
(* writer takes undefined for it), and stops at numbers and lists.         *)
ToWrite(f) == IF message[f] # Missing THEN message[f]
              ELSE IF format = "json" THEN <<>>
              ELSE IF Many(f) THEN <<Missing>>
              ELSE IF IsMessage(Kind(f)) THEN <<>>
              ELSE IF IsNumber(Kind(f)) THEN <<Missing>>
              ELSE <<Blank>>

(* longToNumber; a backend reads every int64.                              *)
Decodable(kind, v) ==
  sender = "peer" /\ kind = "int64" => v \in -SafeLimit..SafeLimit

WireType(kind) == IF kind \in {"bool", "int32", "int64"} THEN 0 ELSE 2

(* A mutant: the case of a number is taken whatever the wire type.         *)
Decoded_AnyWireType(number, wireType, v) ==
  [g \in Fields |->
     IF Number(g) = number THEN Put(g, v, received[g]) ELSE received[g]]

(* decode's switch: the case of the number, if its tag has this wire type. *)
Decoded(number, wireType, v) ==
  [g \in Fields |->
     IF Number(g) = number /\ WireType(Kind(g)) = wireType
     THEN Put(g, v, received[g]) ELSE received[g]]

(* JSON spells an int64 as a text, which Number() rounds to a double.      *)
Rounded(kind, v) ==
  IF sender = "peer" /\ kind = "int64" /\ v \notin -SafeLimit..SafeLimit
  THEN 2 * (v \div 2) ELSE v

(* A mutant: fromJSON knows one spelling.                                  *)
Spellings_One == {"camelCase"}

(* fromJSON looks for the name in either spelling.                         *)
Spellings == {"camelCase", "snake_case"}
FromJSON(f, spelling, v) ==
  IF spelling \in Spellings
  THEN [received EXCEPT ![f] = Put(f, v, received[f])] ELSE received

-----------------------------------------------------------------------------
Init ==
  /\ sender \in {"frontend", "peer"}
  /\ type \in IF sender = "frontend" THEN Outgoing ELSE Incoming
  /\ format \in {"binary", "json"}
  /\ \E some \in {F \in SUBSET Fields : Cardinality(F) <= MaxGiven} :
       \E value \in [some -> UNION {Given(f) : f \in some}] :
         /\ \A f \in some : value[f] \in Given(f)
         /\ message = [f \in Fields |-> IF f \in some THEN value[f] ELSE <<>>]
  /\ phase = "ready"
  /\ rest = [f \in Fields |-> <<>>]
  /\ received = [f \in Fields |-> <<>>]
  /\ unknown = 0

(* The frontend may pass the object through create first.                  *)
Create ==
  /\ phase = "ready" /\ sender = "frontend" /\ message # Completed
  /\ message' = Completed
  /\ UNCHANGED <<type, sender, format, phase, rest, received, unknown>>

Start ==
  /\ phase = "ready"
  /\ phase' = "moving"
  /\ rest' = [f \in Fields |-> ToWrite(f)]
  /\ UNCHANGED <<type, sender, format, message, received, unknown>>

(* The frontend writes fields in the order of their numbers, other         *)
(* implementations in any; the elements of a field stay in order.          *)
IsNext(f) ==
  /\ phase = "moving"
  /\ rest[f] # <<>>
  /\ sender = "frontend" =>
       \A g \in Fields : rest[g] # <<>> => Number(f) <= Number(g)

Advance(f) == rest' = [rest EXCEPT ![f] = Tail(rest[f])]

MoveBinary(f) ==
  /\ format = "binary" /\ IsNext(f)
  /\ Encodable(Kind(f), Head(rest[f]))
  /\ Decodable(Kind(f), Head(rest[f]))
  /\ received' = Decoded(Number(f), WireType(Kind(f)), Head(rest[f]))
  /\ Advance(f)
  /\ UNCHANGED <<type, sender, format, message, phase, unknown>>

(* encode or decode throws, and the call fails.                            *)
Refuse(f) ==
  /\ format = "binary" /\ IsNext(f)
  /\ \/ ~Encodable(Kind(f), Head(rest[f]))
     \/ ~Decodable(Kind(f), Head(rest[f]))
  /\ phase' = "refused"
  /\ UNCHANGED <<type, sender, format, message, rest, received, unknown>>

MoveJSON(f, spelling) ==
  /\ format = "json" /\ IsNext(f)
  /\ sender = "frontend" => spelling = "camelCase"
  /\ received' = FromJSON(f, spelling, Rounded(Kind(f), Head(rest[f])))
  /\ Advance(f)
  /\ UNCHANGED <<type, sender, format, message, phase, unknown>>

(* A peer of another version sends a field whose number, or whose wire     *)
(* type under that number, the frontend does not know: decode skips it.    *)
Unknown(number, wireType) ==
  /\ format = "binary" /\ sender = "peer" /\ phase = "moving"
  /\ unknown < MaxUnknown
  /\ ~\E g \in Fields : Number(g) = number /\ WireType(Kind(g)) = wireType
  /\ received' = Decoded(number, wireType, 0)
  /\ unknown' = unknown + 1
  /\ UNCHANGED <<type, sender, format, message, phase, rest>>

Finish ==
  /\ phase = "moving" /\ \A f \in Fields : rest[f] = <<>>
  /\ phase' = "delivered"
  /\ UNCHANGED <<type, sender, format, message, rest, received, unknown>>

Move(f) == \/ MoveBinary(f)
           \/ Refuse(f)
           \/ \E spelling \in {"camelCase", "snake_case"} : MoveJSON(f, spelling)

Next == \/ Create
        \/ Start
        \/ \E f \in Fields : Move(f)
        \/ \E number \in {Number(f) : f \in Fields} \cup {4}, w \in {0, 2} :
             Unknown(number, w)
        \/ Finish

Spec == Init /\ [][Next]_vars

-----------------------------------------------------------------------------
(* Types: a field that is not repeated never gets two elements, and what   *)
(* decode puts in a field is of the field's kind and, in the frontend, a   *)
(* number that a double holds exactly.                                     *)
Fits(kind, v) ==
  IF IsNumber(kind)
  THEN v \in Int /\ (format = "binary" => Decodable(kind, v))
  ELSE v \in Contents \cup {Blank}

TypeOK ==
  /\ sender \in {"frontend", "peer"}
  /\ type \in Outgoing \cup Incoming
  /\ format \in {"binary", "json"}
  /\ phase \in {"ready", "moving", "delivered", "refused"}
  /\ unknown \in 0..MaxUnknown
  /\ received \in [Fields -> Seq(Contents \cup {Blank} \cup Int)]
  /\ \A f \in Fields :
       /\ Len(received[f]) > 1 => Many(f)
       /\ \A i \in DOMAIN received[f] : Fits(Kind(f), received[f][i])

IsSafe == \A f \in Fields :
            Kind(f) = "int64" /\ message[f] # Missing =>
              \A i \in DOMAIN message[f] : message[f][i] \in -SafeLimit..SafeLimit

(* What decode (or fromJSON) returns is what was encoded, element for      *)
(* element, in whatever order another implementation writes and whatever   *)
(* fields of another version it adds; no number is changed on the way.     *)
(* JSON alone may change one, and only beyond the integers of a double.    *)
DeliveredIsSent ==
  phase = "delivered" /\ (format = "binary" \/ IsSafe) => received = Completed

IsOrdinary ==
  \A f \in Fields :
    IF message[f] = Missing THEN ~Many(f) /\ ~IsNumber(Kind(f))
    ELSE \A i \in DOMAIN message[f] :
           Kind(f) \in {"int32", "int64"} =>
             message[f][i] \in -IntLimit..(IntLimit - 1)

(* A message is refused only for a number that its field cannot hold, or a *)
(* number or list that is missing altogether: fields left out of an order  *)
(* form arrive as empty texts and never stop the order.                    *)
OnlyBadNumbersAreRefused == phase = "refused" => ~IsOrdinary
=============================================================================
