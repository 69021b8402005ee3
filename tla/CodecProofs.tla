------------------------------ MODULE CodecProofs ------------------------------
(***************************************************************************)
(* What the generated codec promises, for every table of messages and any  *)
(* bounds on what is sent.  The invariant follows each field on its own:   *)
(* what the reader has of it and what is still to be written make up the   *)
(* field that was sent.                                                    *)
(***************************************************************************)
EXTENDS Codec, SequenceTheorems, TLAPS

(* What a field of the kind may hold, and what a sender's object may hold  *)
(* in a field.                                                             *)
Elements(kind) == IF IsNumber(kind) THEN Int ELSE Contents \cup {Blank}

Carries(f, s) ==
  /\ s \in Seq(Elements(Kind(f)))
  /\ ~Many(f) => \/ s = <<>>
                 \/ \E v \in Elements(Kind(f)) : s = <<v>> /\ Put(f, v, <<>>) = s

MessageOK == \A f \in Fields : message[f] = Missing \/ Carries(f, message[f])

(* The elements that are still to be written are among those to write.     *)
RestOK ==
  /\ DOMAIN rest = Fields
  /\ \A f \in Fields :
       /\ rest[f] \in Seq(Elements(Kind(f)) \cup {Missing})
       /\ \A i \in 1..Len(rest[f]) :
            \E j \in 1..Len(ToWrite(f)) : rest[f][i] = ToWrite(f)[j]

(* Nothing is rounded on the way.                                          *)
Exact == format = "binary" \/ IsSafe

Progress(f) ==
  IF phase = "ready" THEN received[f] = <<>> /\ rest[f] = <<>>
  ELSE IF ~Many(f)
  THEN \/ rest[f] = ToWrite(f) /\ received[f] = <<>>
       \/ rest[f] = <<>> /\ (Exact => received[f] = Completed[f])
  ELSE IF message[f] = Missing
  THEN received[f] = <<>> /\ rest[f] = ToWrite(f)
  ELSE Exact => received[f] \o rest[f] = message[f]

IInv ==
  /\ TypeOK
  /\ DOMAIN message = Fields
  /\ MessageOK
  /\ RestOK
  /\ \A f \in Fields : Progress(f)
  /\ phase = "delivered" => \A f \in Fields : rest[f] = <<>>
  /\ OnlyBadNumbersAreRefused

-----------------------------------------------------------------------------
(* An element that passes from one sequence to another leaves their        *)
(* concatenation as it was.                                                *)
LEMMA MoveOne ==
  ASSUME NEW S, NEW a \in Seq(S), NEW b \in Seq(S), b # <<>>
  PROVE  Append(a, Head(b)) \o Tail(b) = a \o b
<1>1. Head(b) \in S /\ Tail(b) \in Seq(S) /\ b = <<Head(b)>> \o Tail(b)
  OBVIOUS
<1>2. Append(a, Head(b)) = a \o <<Head(b)>>
  BY <1>1, AppendIsConcat
<1>3. <<Head(b)>> \in Seq(S)
  BY <1>1
<1>4. (a \o <<Head(b)>>) \o Tail(b) = a \o (<<Head(b)>> \o Tail(b))
  BY <1>1, <1>3, ConcatAssociative
<1> QED BY <1>1, <1>2, <1>4

(* The fields of the type that is sent.                                    *)
LEMMA FieldFacts ==
  ASSUME CodecAssumption, type \in Outgoing \cup Incoming, NEW f \in Fields
  PROVE  /\ Kind(f) \in {"string", "bool", "int32", "int64"} \cup DOMAIN Schemas
         /\ Many(f) \in BOOLEAN
         /\ IsNumber(Kind(f)) => ~IsMessage(Kind(f))
         /\ \A g \in Fields : Number(f) = Number(g) => f = g
<1>1. type \in DOMAIN Schemas
  BY DEF CodecAssumption
<1> QED BY <1>1 DEF CodecAssumption, Fields, Kind, Many, Number, IsNumber, IsMessage

(* What encode and toJSON write.                                           *)
LEMMA ToWriteIs ==
  ASSUME CodecAssumption, type \in Outgoing \cup Incoming, NEW f \in Fields,
         message[f] = Missing \/ Carries(f, message[f])
  PROVE  /\ ToWrite(f) \in Seq(Elements(Kind(f)) \cup {Missing})
         /\ format = "json" => ToWrite(f) \in Seq(Elements(Kind(f)))
<1>1. CASE message[f] # Missing
  <2>1. ToWrite(f) = message[f] /\ message[f] \in Seq(Elements(Kind(f)))
    BY <1>1 DEF ToWrite, Carries
  <2> QED BY <2>1, SeqMonotonic
<1>2. CASE message[f] = Missing
  <2>1. Blank \in Elements(Kind(f)) \/ IsNumber(Kind(f))
    BY DEF Elements
  <2>2. \/ ToWrite(f) = <<>>
        \/ ToWrite(f) = <<Missing>> /\ format # "json"
        \/ ToWrite(f) = <<Blank>> /\ ~IsNumber(Kind(f))
    BY <1>2, Zenon DEF ToWrite
  <2>3. CASE ToWrite(f) = <<>>
    BY <2>3
  <2>4. CASE ToWrite(f) = <<Missing>> /\ format # "json"
    <3>1. Missing \in Elements(Kind(f)) \cup {Missing}
      OBVIOUS
    <3>2. <<Missing>> \in Seq(Elements(Kind(f)) \cup {Missing})
      BY <3>1
    <3> QED BY <2>4, <3>2
  <2>5. CASE ToWrite(f) = <<Blank>> /\ ~IsNumber(Kind(f))
    <3>1. <<Blank>> \in Seq(Elements(Kind(f)))
      BY <2>1, <2>5
    <3> QED BY <2>5, <3>1, SeqMonotonic
  <2> QED BY <2>2, <2>3, <2>4, <2>5
<1> QED BY <1>1, <1>2

(* The element that is next: it is missing only in the binary form, and in *)
(* an ordinary message its field can hold it.                              *)
LEMMA NextElement ==
  ASSUME CodecAssumption, IInv, NEW f \in Fields, rest[f] # <<>>
  PROVE  LET h == Head(rest[f]) IN
         /\ h \in Elements(Kind(f)) \cup {Missing}
         /\ format = "json" => h \in Elements(Kind(f))
         /\ message[f] # Missing => \E j \in 1..Len(message[f]) : h = message[f][j]
         /\ message[f] = Missing =>
              /\ format = "binary"
              /\ h = Missing => Many(f) \/ IsNumber(Kind(f))
              /\ h # Missing => h = Blank /\ ~IsNumber(Kind(f))
<1> DEFINE h == Head(rest[f])
<1>1. PICK j \in 1..Len(ToWrite(f)) : h = ToWrite(f)[j]
  <2>1. rest[f] \in Seq(Elements(Kind(f)) \cup {Missing})
    BY DEF IInv, RestOK
  <2>2. 1 \in 1..Len(rest[f]) /\ h = rest[f][1]
    BY <2>1, LenProperties, EmptySeq
  <2>3. \A i \in 1..Len(rest[f]) :
          \E j \in 1..Len(ToWrite(f)) : rest[f][i] = ToWrite(f)[j]
    BY DEF IInv, RestOK
  <2> HIDE DEF h
  <2> QED BY <2>2, <2>3
<1>2. h \in Elements(Kind(f)) \cup {Missing}
  BY HeadTailProperties DEF IInv, RestOK
<1>3. format = "json" => h \in Elements(Kind(f))
  <2>1. format = "json" => ToWrite(f) \in Seq(Elements(Kind(f)))
    BY ToWriteIs DEF IInv, TypeOK, MessageOK
  <2> HIDE DEF h
  <2> QED BY <1>1, <2>1, ElementOfSeq
<1>4. message[f] # Missing => \E k \in 1..Len(message[f]) : h = message[f][k]
  BY <1>1 DEF ToWrite
<1>5. ASSUME message[f] = Missing
      PROVE  /\ format = "binary"
             /\ h = Missing => Many(f) \/ IsNumber(Kind(f))
             /\ h # Missing => h = Blank /\ ~IsNumber(Kind(f))
  <2>1. ToWrite(f) # <<>> /\ Len(ToWrite(f)) # 0
    BY <1>1, <1>5 DEF ToWrite
  <2>2. format = "binary"
    BY <1>5, <2>1 DEF ToWrite, IInv, TypeOK
  <2>3. Missing # Blank
    BY DEF CodecAssumption
  <2> HIDE DEF h
  <2> QED BY <1>1, <1>5, <2>1, <2>2, <2>3 DEF ToWrite
<1> QED BY <1>2, <1>3, <1>4, <1>5

(* In an ordinary message every field can hold every element.              *)
LEMMA OrdinaryElement ==
  ASSUME CodecAssumption, IInv, NEW f \in Fields, rest[f] # <<>>, IsOrdinary
  PROVE  Encodable(Kind(f), Head(rest[f])) /\ Decodable(Kind(f), Head(rest[f]))
<1> DEFINE h == Head(rest[f])
<1>1. h # Missing
  <2>1. CASE message[f] = Missing
    BY <2>1, NextElement DEF IsOrdinary
  <2>2. CASE message[f] # Missing
    <3>1. PICK j \in 1..Len(message[f]) : h = message[f][j]
      BY <2>2, NextElement
    <3>2. message[f] \in Seq(Elements(Kind(f)))
      BY <2>2 DEF IInv, MessageOK, Carries
    <3>3. h \in Elements(Kind(f))
      BY <3>1, <3>2, ElementOfSeq
    <3> QED BY <3>3 DEF Elements, CodecAssumption
  <2> QED BY <2>1, <2>2
<1>2. Kind(f) \in {"int32", "int64"} => h \in -IntLimit..(IntLimit - 1)
  <2>1. CASE message[f] = Missing
    BY <1>1, <2>1, NextElement DEF IsNumber
  <2>2. CASE message[f] # Missing
    <3>1. PICK j \in 1..Len(message[f]) : h = message[f][j]
      BY <2>2, NextElement
    <3>2. j \in DOMAIN message[f]
      BY <2>2, <3>1 DEF IInv, MessageOK, Carries
    <3> HIDE DEF h
    <3> QED BY <2>2, <3>1, <3>2 DEF IsOrdinary
  <2> QED BY <2>1, <2>2
<1> HIDE DEF h
<1>3. Encodable(Kind(f), h)
  BY <1>1, <1>2 DEF Encodable, CodecAssumption
<1>4. Decodable(Kind(f), h)
  BY <1>2 DEF Decodable, CodecAssumption
<1> QED BY <1>3, <1>4 DEF h

(* At first nothing has been written and nothing read.                     *)
LEMMA InitIsFine == ASSUME CodecAssumption PROVE Init => IInv
<1> SUFFICES ASSUME Init PROVE IInv
  OBVIOUS
<1>1. type \in Outgoing \cup Incoming
  BY DEF Init
<1>2. MessageOK /\ DOMAIN message = Fields
  <2>1. PICK some \in SUBSET Fields :
          \E value \in [some -> UNION {Given(f) : f \in some}] :
             /\ \A f \in some : value[f] \in Given(f)
             /\ message = [f \in Fields |-> IF f \in some THEN value[f] ELSE <<>>]
    BY DEF Init
  <2>2. ASSUME NEW f \in Fields, message[f] # Missing
        PROVE  Carries(f, message[f])
    <3>1. CASE message[f] = <<>>
      BY <3>1 DEF Carries
    <3>2. CASE message[f] \in Given(f)
      <4>1. Values(Kind(f)) \subseteq Elements(Kind(f))
        BY DEF Values, Elements, CodecAssumption
      <4>2. CASE Many(f)
        <5>1. PICK n \in 0..MaxList : message[f] \in [1..n -> Values(Kind(f))]
          BY <2>2, <3>2, <4>2 DEF Given, Lists
        <5>2. message[f] \in Seq(Values(Kind(f)))
          BY <5>1 DEF CodecAssumption
        <5> QED BY <4>1, <4>2, <5>2, SeqMonotonic DEF Carries
      <4>3. CASE ~Many(f)
        <5>1. \/ message[f] = <<>>
              \/ \E v \in Values(Kind(f)) : message[f] = Put(f, v, <<>>)
          BY <2>2, <3>2, <4>3 DEF Given
        <5>2. ASSUME NEW v \in Values(Kind(f)), message[f] = Put(f, v, <<>>)
              PROVE  Carries(f, message[f])
          <6>1. message[f] = <<>> \/ message[f] = <<v>>
            BY <4>3, <5>2, Zenon DEF Put
          <6>2. <<v>> \in Seq(Elements(Kind(f)))
            BY <4>1
          <6> QED BY <3>1, <4>1, <5>2, <6>1, <6>2 DEF Carries
        <5> QED BY <3>1, <5>1, <5>2
      <4> QED BY <4>2, <4>3
    <3> QED BY <2>1, <3>1, <3>2
  <2> QED BY <2>1, <2>2 DEF MessageOK
<1>3. RestOK /\ \A f \in Fields : Progress(f)
  BY DEF Init, RestOK, Progress
<1>4. TypeOK
  BY <1>1, EmptySeq DEF Init, TypeOK, CodecAssumption
<1> QED BY <1>2, <1>3, <1>4 DEF Init, IInv, OnlyBadNumbersAreRefused

(* Put keeps a field's form.                                               *)
LEMMA PutKeeps ==
  ASSUME CodecAssumption, TypeOK, NEW f \in Fields, NEW w \in Elements(Kind(f)),
         Fits(Kind(f), w)
  PROVE  LET s == Put(f, w, received[f]) IN
         /\ s \in Seq(Contents \cup {Blank} \cup Int)
         /\ Len(s) > 1 => Many(f)
         /\ \A i \in DOMAIN s : Fits(Kind(f), s[i])
<1> DEFINE S == Contents \cup {Blank} \cup Int
           s == Put(f, w, received[f])
<1>1. received[f] \in Seq(S) /\ w \in S
  BY DEF TypeOK, Elements
<1>2. CASE Many(f)
  <2>1. s = Append(received[f], w)
    BY <1>2, Zenon DEF Put
  <2>2. /\ s \in Seq(S)
        /\ Len(s) = Len(received[f]) + 1
        /\ \A i \in 1..Len(received[f]) : s[i] = received[f][i]
        /\ s[Len(received[f]) + 1] = w
    BY <1>1, <2>1, AppendProperties
  <2> HIDE DEF s
  <2>3. \A i \in DOMAIN s : Fits(Kind(f), s[i])
    <3>1. \A i \in DOMAIN received[f] : Fits(Kind(f), received[f][i])
      BY DEF TypeOK
    <3>2. DOMAIN s = 1..(Len(received[f]) + 1)
          /\ DOMAIN received[f] = 1..Len(received[f]) /\ Len(received[f]) \in Nat
      BY <1>1, <2>2, LenProperties
    <3>3. TAKE i \in DOMAIN s
    <3>4. CASE i \in DOMAIN received[f]
      <4>1. s[i] = received[f][i]
        BY <2>2, <3>2, <3>4
      <4> QED BY <3>1, <3>4, <4>1
    <3>5. CASE i = Len(received[f]) + 1
      BY <2>2, <3>5
    <3> QED BY <3>2, <3>3, <3>4, <3>5
  <2> QED BY <1>2, <2>2, <2>3 DEF s
<1>3. CASE ~Many(f)
  <2>1. s = <<>> \/ s = <<w>>
    BY <1>3, Zenon DEF Put
  <2>2. CASE s = <<>>
    BY <2>2
  <2>3. CASE s = <<w>>
    <3>1. <<w>> \in Seq(S) /\ Len(<<w>>) = 1 /\ DOMAIN <<w>> = {1} /\ <<w>>[1] = w
      BY <1>1
    <3> QED BY <2>3, <3>1
  <2> QED BY <2>1, <2>2, <2>3
<1> QED BY <1>2, <1>3

(* What does not change as long as the same message is on its way.         *)
LEMMA Framed ==
  ASSUME UNCHANGED <<type, sender, format, message>>
  PROVE  /\ Fields' = Fields
         /\ Completed' = Completed
         /\ Exact' = Exact
         /\ IsOrdinary' = IsOrdinary
         /\ MessageOK' = MessageOK
         /\ \A g : /\ Kind(g)' = Kind(g)
                  /\ Many(g)' = Many(g)
                  /\ Number(g)' = Number(g)
                  /\ ToWrite(g)' = ToWrite(g)
         /\ \A kind, v : Fits(kind, v)' = Fits(kind, v)
<1>1. /\ Fields' = Fields
      /\ \A g : Kind(g)' = Kind(g) /\ Many(g)' = Many(g) /\ Number(g)' = Number(g)
  BY DEF Fields, Kind, Many, Number
<1>2. Completed' = Completed
  BY <1>1 DEF Completed
<1>3. Exact' = Exact /\ IsOrdinary' = IsOrdinary
  BY <1>1, Zenon DEF Exact, IsSafe, IsOrdinary, IsNumber
<1>4. MessageOK' = MessageOK
  BY <1>1 DEF MessageOK, Carries, Put, IsMessage, Default, Elements, IsNumber
<1>5. \A g : ToWrite(g)' = ToWrite(g)
  BY <1>1 DEF ToWrite, IsMessage, IsNumber
<1>6. \A kind, v : Fits(kind, v)' = Fits(kind, v)
  BY DEF Fits, Decodable, IsNumber
<1> QED BY <1>1, <1>2, <1>3, <1>4, <1>5, <1>6

(* One element is written and read.                                        *)
LEMMA ElementMoved ==
  ASSUME CodecAssumption, IInv, NEW f \in Fields, phase = "moving",
         rest[f] # <<>>, Head(rest[f]) # Missing,
         NEW w \in Elements(Kind(f)), Fits(Kind(f), w),
         Exact => w = Head(rest[f]),
         received' = [received EXCEPT ![f] = Put(f, w, received[f])],
         Advance(f),
         UNCHANGED <<type, sender, format, message, phase, unknown>>
  PROVE  IInv'
<1> DEFINE h == Head(rest[f])
<1>1. TypeOK'
  <2>1. /\ received \in [Fields -> Seq(Contents \cup {Blank} \cup Int)]
        /\ received' \in [Fields -> Seq(Contents \cup {Blank} \cup Int)]
    BY PutKeeps DEF IInv, TypeOK
  <2>2. ASSUME NEW g \in Fields
        PROVE  /\ Len(received'[g]) > 1 => Many(g)
               /\ \A i \in DOMAIN received'[g] : Fits(Kind(g), received'[g][i])
    <3>1. CASE g = f
      <4>1. received'[g] = Put(f, w, received[f])
        BY <2>1, <3>1
      <4> QED BY <3>1, <4>1, PutKeeps DEF IInv
    <3>2. CASE g # f
      BY <2>1, <3>2 DEF IInv, TypeOK
    <3> QED BY <3>1, <3>2
  <2> QED BY <2>1, <2>2, Framed DEF IInv, TypeOK
<1>2. MessageOK' /\ DOMAIN message' = Fields'
  BY Framed DEF IInv
<1>3. RestOK'
  <2>1. /\ Tail(rest[f]) \in Seq(Elements(Kind(f)) \cup {Missing})
        /\ \A i \in 1..Len(Tail(rest[f])) :
             \E j \in 1..Len(ToWrite(f)) : Tail(rest[f])[i] = ToWrite(f)[j]
    <3>1. /\ rest[f] \in Seq(Elements(Kind(f)) \cup {Missing})
          /\ \A i \in 1..Len(rest[f]) :
               \E j \in 1..Len(ToWrite(f)) : rest[f][i] = ToWrite(f)[j]
      BY DEF IInv, RestOK
    <3>2. /\ Tail(rest[f]) \in Seq(Elements(Kind(f)) \cup {Missing})
          /\ Len(Tail(rest[f])) = Len(rest[f]) - 1
          /\ \A i \in 1..Len(Tail(rest[f])) : Tail(rest[f])[i] = rest[f][i + 1]
          /\ Len(rest[f]) \in Nat
      BY <3>1, HeadTailProperties, LenProperties
    <3>3. ASSUME NEW i \in 1..Len(Tail(rest[f]))
          PROVE  \E j \in 1..Len(ToWrite(f)) : Tail(rest[f])[i] = ToWrite(f)[j]
      <4>1. i + 1 \in 1..Len(rest[f]) /\ Tail(rest[f])[i] = rest[f][i + 1]
        BY <3>2
      <4> QED BY <3>1, <4>1
    <3> QED BY <3>2, <3>3
  <2>2. RestOK
    BY DEF IInv
  <2>3. DOMAIN rest' = Fields
        /\ \A g \in Fields : rest'[g] = IF g = f THEN Tail(rest[f]) ELSE rest[g]
    BY <2>2 DEF Advance, RestOK
  <2>4. ASSUME NEW g \in Fields
        PROVE  /\ (rest[g] \in Seq(Elements(Kind(g)) \cup {Missing}))'
               /\ (\A i \in 1..Len(rest[g]) :
                     \E j \in 1..Len(ToWrite(g)) : rest[g][i] = ToWrite(g)[j])'
    <3>1. Elements(Kind(g))' = Elements(Kind(g)) /\ ToWrite(g)' = ToWrite(g)
      <4>1. Kind(g)' = Kind(g) /\ ToWrite(g)' = ToWrite(g)
        BY Framed
      <4> QED BY <4>1 DEF Elements, IsNumber
    <3>2. CASE g = f
      <4>1. rest'[g] = Tail(rest[f])
        BY <2>3, <3>2
      <4> QED BY <2>1, <3>1, <3>2, <4>1
    <3>3. CASE g # f
      <4>1. rest'[g] = rest[g]
        BY <2>3, <3>3
      <4>2. /\ rest[g] \in Seq(Elements(Kind(g)) \cup {Missing})
            /\ \A i \in 1..Len(rest[g]) :
                 \E j \in 1..Len(ToWrite(g)) : rest[g][i] = ToWrite(g)[j]
        BY <2>2 DEF RestOK
      <4> QED BY <3>1, <4>1, <4>2
    <3> QED BY <3>2, <3>3
  <2>5. Fields' = Fields
    BY Framed
  <2> QED BY <2>3, <2>4, <2>5 DEF RestOK
<1>4. ASSUME NEW g \in Fields PROVE Progress(g)'
  <2>1. CASE g # f
    <3>1. received'[g] = received[g] /\ rest'[g] = rest[g] /\ Progress(g)
      BY <2>1 DEF IInv, TypeOK, RestOK, Advance
    <3>2. Many(g)' = Many(g) /\ ToWrite(g)' = ToWrite(g)
      BY Framed
    <3>3. Completed' = Completed /\ Exact' = Exact
      BY Framed
    <3> QED BY <3>1, <3>2, <3>3 DEF Progress
  <2>2. CASE g = f
    <3>1. /\ Many(f)' = Many(f) /\ ToWrite(f)' = ToWrite(f)
          /\ Completed' = Completed /\ Exact' = Exact
      BY Framed
    <3>2. /\ received'[f] = Put(f, w, received[f])
          /\ rest'[f] = Tail(rest[f])
          /\ Progress(f)
      BY DEF IInv, TypeOK, RestOK, Advance
    <3>3. CASE ~Many(f)
      <4>1. rest[f] = ToWrite(f) /\ received[f] = <<>>
        BY <3>2, <3>3 DEF Progress
      <4>2. Tail(rest[f]) = <<>> /\ (Exact => Put(f, w, <<>>) = Completed[f])
        <5>1. CASE message[f] = Missing
          <6>1. h = Blank /\ ~IsNumber(Kind(f)) /\ format = "binary"
            BY <5>1, NextElement
          <6>2. ToWrite(f) = <<Blank>> /\ ~IsMessage(Kind(f))
            BY <3>3, <4>1, <5>1, <6>1, Zenon DEF ToWrite
          <6>3. Put(f, Blank, <<>>) = <<>>
            BY <3>3, <6>1, <6>2 DEF Put, Default
          <6>4. Completed[f] = <<>>
            BY <5>1 DEF Completed
          <6> QED BY <4>1, <6>1, <6>2, <6>3, <6>4
        <5>2. CASE message[f] # Missing
          <6>1. ToWrite(f) = message[f] /\ Completed[f] = message[f]
            BY <5>2 DEF ToWrite, Completed
          <6>2. PICK v \in Elements(Kind(f)) :
                  message[f] = <<v>> /\ Put(f, v, <<>>) = message[f]
            BY <3>3, <4>1, <5>2, <6>1 DEF IInv, MessageOK, Carries
          <6>3. h = v /\ Tail(rest[f]) = <<>>
            BY <4>1, <6>1, <6>2
          <6> HIDE DEF h
          <6> QED BY <6>1, <6>2, <6>3 DEF h
        <5> QED BY <5>1, <5>2
      <4> QED BY <2>2, <3>1, <3>2, <3>3, <4>1, <4>2 DEF Progress
    <3>4. CASE Many(f)
      <4>1. message[f] # Missing
        <5>1. CASE message[f] = Missing
          BY <3>2, <3>4, <5>1, NextElement DEF Progress, ToWrite
        <5> QED BY <5>1
      <4>2. Put(f, w, received[f]) = Append(received[f], w)
        BY <3>4, Zenon DEF Put
      <4>3. ASSUME Exact
            PROVE  Append(received[f], h) \o Tail(rest[f]) = message[f]
        <5>1. received[f] \o rest[f] = message[f]
          BY <3>2, <3>4, <4>1, <4>3 DEF Progress
        <5> DEFINE S == (Contents \cup {Blank} \cup Int) \cup {Missing}
        <5>2. received[f] \in Seq(S)
          <6>1. received[f] \in Seq(Contents \cup {Blank} \cup Int)
            BY DEF IInv, TypeOK
          <6> QED BY <6>1, SeqMonotonic
        <5>3. rest[f] \in Seq(S)
          <6>1. rest[f] \in Seq(Elements(Kind(f)) \cup {Missing})
            BY DEF IInv, RestOK
          <6>2. Elements(Kind(f)) \cup {Missing} \subseteq S
            BY DEF Elements
          <6> QED BY <6>1, <6>2, SeqMonotonic
        <5> HIDE DEF S
        <5> QED BY <5>1, <5>2, <5>3, MoveOne
      <4> HIDE DEF h
      <4>4. Exact => w = h
        BY DEF h
      <4>5. phase' # "ready" /\ message'[f] = message[f]
        OBVIOUS
      <4>6. Exact => received'[f] \o rest'[f] = message[f]
        BY <3>2, <4>2, <4>3, <4>4
      <4> QED BY <2>2, <3>1, <3>4, <4>1, <4>5, <4>6 DEF Progress
    <3> QED BY <3>3, <3>4
  <2> QED BY <2>1, <2>2
<1> QED BY <1>1, <1>2, <1>3, <1>4, Framed DEF IInv, OnlyBadNumbersAreRefused

(* What MoveBinary reads is what was written.                              *)
LEMMA MoveBinaryKeeps ==
  ASSUME CodecAssumption, IInv, NEW f \in Fields, MoveBinary(f)
  PROVE  IInv'
<1> DEFINE w == Head(rest[f])
<1>1. w # Missing /\ w \in Elements(Kind(f)) /\ Fits(Kind(f), w)
  BY NextElement DEF MoveBinary, IsNext, Encodable, Fits, Elements, CodecAssumption
<1>2. received' = [received EXCEPT ![f] = Put(f, w, received[f])]
  <2>1. received \in [Fields -> Seq(Contents \cup {Blank} \cup Int)]
    BY DEF IInv, TypeOK
  <2>2. \A g \in Fields : Number(g) = Number(f) => g = f
    BY FieldFacts DEF IInv, TypeOK
  <2> HIDE DEF w
  <2>3. received' = Decoded(Number(f), WireType(Kind(f)), w)
    BY DEF MoveBinary, w
  <2> QED BY <2>1, <2>2, <2>3 DEF Decoded
<1> QED BY <1>1, <1>2, ElementMoved DEF MoveBinary, IsNext

(* What MoveJSON reads is what was written, unless Number() rounded it.    *)
LEMMA MoveJSONKeeps ==
  ASSUME CodecAssumption, IInv, NEW f \in Fields,
         NEW spelling \in {"camelCase", "snake_case"}, MoveJSON(f, spelling)
  PROVE  IInv'
<1> DEFINE h == Head(rest[f])
           w == Rounded(Kind(f), h)
<1>1. h \in Elements(Kind(f)) /\ h # Missing
  BY NextElement DEF MoveJSON, IsNext, Elements, CodecAssumption
<1>2. w \in Elements(Kind(f)) /\ Fits(Kind(f), w)
  <2> HIDE DEF h
  <2> QED BY <1>1 DEF Elements, Rounded, Fits, IsNumber, MoveJSON
<1>3. Exact => w = h
  <2> SUFFICES ASSUME Exact PROVE w = h
    OBVIOUS
  <2>1. PICK j \in 1..Len(message[f]) : h = message[f][j]
    BY NextElement DEF MoveJSON, IsNext
  <2>2. message[f] # Missing /\ j \in DOMAIN message[f]
    BY NextElement DEF MoveJSON, IsNext, IInv, MessageOK, Carries
  <2> HIDE DEF h
  <2> QED BY <2>1, <2>2 DEF Exact, IsSafe, Rounded, MoveJSON
<1>4. received' = [received EXCEPT ![f] = Put(f, w, received[f])]
  BY DEF MoveJSON, FromJSON, Spellings
<1> HIDE DEF w
<1> QED BY <1>1, <1>2, <1>3, <1>4, ElementMoved DEF MoveJSON, IsNext

(* create only completes the object.                                       *)
LEMMA CreateKeeps == ASSUME CodecAssumption, IInv, Create PROVE IInv'
<1>1. Fields' = Fields /\ \A g : Kind(g)' = Kind(g) /\ Many(g)' = Many(g)
  BY DEF Create, Fields, Kind, Many
<1>2. \A kind, v : Fits(kind, v)' = Fits(kind, v)
  BY DEF Create, Fits, Decodable, IsNumber
<1>3. TypeOK'
  BY <1>1, <1>2 DEF Create, IInv, TypeOK
<1>4. MessageOK' /\ DOMAIN message' = Fields'
  <2>1. DOMAIN message' = Fields
    BY DEF Create, Completed
  <2>2. ASSUME NEW f \in Fields PROVE Carries(f, message'[f])
    <3>1. Carries(f, <<>>)
      BY DEF Carries
    <3> QED BY <3>1 DEF Create, Completed, IInv, MessageOK
  <2>3. \A f, s : Carries(f, s)' = Carries(f, s)
    BY <1>1 DEF Carries, Elements, IsNumber, Put, IsMessage, Default
  <2> QED BY <1>1, <2>1, <2>2, <2>3 DEF MessageOK
<1>5. \A f \in Fields : received[f] = <<>> /\ rest[f] = <<>>
  BY DEF Create, IInv, Progress
<1>6. RestOK' /\ \A f \in Fields' : Progress(f)'
  BY <1>1, <1>5 DEF Create, IInv, RestOK, Progress
<1> QED BY <1>3, <1>4, <1>6 DEF Create, IInv, OnlyBadNumbersAreRefused

(* The writer starts with all there is to write.                           *)
LEMMA StartKeeps == ASSUME CodecAssumption, IInv, Start PROVE IInv'
<1>1. /\ Fields' = Fields /\ Completed' = Completed /\ Exact' = Exact
      /\ MessageOK' = MessageOK
      /\ \A g : Kind(g)' = Kind(g) /\ Many(g)' = Many(g) /\ ToWrite(g)' = ToWrite(g)
      /\ \A kind, v : Fits(kind, v)' = Fits(kind, v)
  BY Framed DEF Start
<1>2. TypeOK'
  BY <1>1 DEF Start, IInv, TypeOK
<1>3. \A f \in Fields : rest'[f] = ToWrite(f) /\ received'[f] = <<>>
  BY DEF Start, IInv, Progress
<1>4. RestOK'
  <2>1. ASSUME NEW f \in Fields
        PROVE  /\ (rest[f] \in Seq(Elements(Kind(f)) \cup {Missing}))'
               /\ (\A i \in 1..Len(rest[f]) :
                     \E j \in 1..Len(ToWrite(f)) : rest[f][i] = ToWrite(f)[j])'
    <3>1. ToWrite(f)' = ToWrite(f) /\ Kind(f)' = Kind(f)
      BY <1>1
    <3>2. Elements(Kind(f))' = Elements(Kind(f))
      BY <3>1 DEF Elements, IsNumber
    <3>3. ToWrite(f) \in Seq(Elements(Kind(f)) \cup {Missing})
      BY ToWriteIs DEF IInv, TypeOK, MessageOK
    <3> QED BY <1>3, <3>1, <3>2, <3>3
  <2>2. DOMAIN rest' = Fields'
    BY <1>1 DEF Start
  <2> QED BY <1>1, <2>1, <2>2 DEF RestOK
<1>5. ASSUME NEW f \in Fields PROVE Progress(f)'
  <2>1. /\ Many(f)' = Many(f) /\ ToWrite(f)' = ToWrite(f)
        /\ Completed' = Completed /\ Exact' = Exact
    BY <1>1
  <2>2. rest'[f] = ToWrite(f) /\ received'[f] = <<>> /\ message' = message
        /\ phase' = "moving"
    BY <1>3 DEF Start
  <2>3. CASE Many(f) /\ message[f] # Missing
    <3>1. ToWrite(f) = message[f] /\ message[f] \in Seq(Elements(Kind(f)))
      BY <2>3 DEF ToWrite, IInv, MessageOK, Carries
    <3>2. <<>> \o message[f] = message[f]
      BY <3>1, ConcatEmptySeq
    <3> QED BY <2>1, <2>2, <2>3, <3>1, <3>2 DEF Progress
  <2> QED BY <2>1, <2>2, <2>3 DEF Progress
<1>6. DOMAIN message' = Fields'
  BY <1>1 DEF Start, IInv
<1> QED BY <1>1, <1>2, <1>4, <1>5, <1>6 DEF Start, IInv, OnlyBadNumbersAreRefused

(* A step that leaves what is written and read as it is.                   *)
LEMMA StillKeeps ==
  ASSUME CodecAssumption, IInv,
         \/ phase' = phase
         \/ phase = "moving" /\ phase' \in {"delivered", "refused"},
         unknown' \in 0..MaxUnknown,
         UNCHANGED <<type, sender, format, message, rest, received>>,
         phase' = "delivered" => \A f \in Fields : rest[f] = <<>>,
         phase' = "refused" => ~IsOrdinary
  PROVE  IInv'
<1>1. /\ Fields' = Fields /\ Completed' = Completed /\ Exact' = Exact
      /\ MessageOK' = MessageOK /\ IsOrdinary' = IsOrdinary
      /\ \A g : Kind(g)' = Kind(g) /\ Many(g)' = Many(g) /\ ToWrite(g)' = ToWrite(g)
      /\ \A kind, v : Fits(kind, v)' = Fits(kind, v)
  BY Framed
<1>2. TypeOK'
  BY <1>1 DEF IInv, TypeOK
<1>3. RestOK'
  <2>1. ASSUME NEW f \in Fields
        PROVE  /\ (rest[f] \in Seq(Elements(Kind(f)) \cup {Missing}))'
               /\ (\A i \in 1..Len(rest[f]) :
                     \E j \in 1..Len(ToWrite(f)) : rest[f][i] = ToWrite(f)[j])'
    <3>1. ToWrite(f)' = ToWrite(f) /\ Kind(f)' = Kind(f)
      BY <1>1
    <3>2. Elements(Kind(f))' = Elements(Kind(f))
      BY <3>1 DEF Elements, IsNumber
    <3>3. /\ rest[f] \in Seq(Elements(Kind(f)) \cup {Missing})
          /\ \A i \in 1..Len(rest[f]) :
               \E j \in 1..Len(ToWrite(f)) : rest[f][i] = ToWrite(f)[j]
      BY DEF IInv, RestOK
    <3> QED BY <3>1, <3>2, <3>3
  <2>2. DOMAIN rest' = Fields'
    BY <1>1 DEF IInv, RestOK
  <2> QED BY <1>1, <2>1, <2>2 DEF RestOK
<1>4. ASSUME NEW f \in Fields PROVE Progress(f)'
  <2>1. /\ Many(f)' = Many(f) /\ ToWrite(f)' = ToWrite(f)
        /\ Completed' = Completed /\ Exact' = Exact /\ Progress(f)
    BY <1>1 DEF IInv
  <2> QED BY <2>1 DEF Progress
<1> QED BY <1>1, <1>2, <1>3, <1>4 DEF IInv, OnlyBadNumbersAreRefused

-----------------------------------------------------------------------------
(* demo.ts, encode, decode, fromJSON and toJSON: every step keeps what has *)
(* been read and what is still to be written in agreement.                 *)
THEOREM CodecInvariant == Spec => []IInv
<1>1. IInv /\ [Next]_vars => IInv'
  <2> SUFFICES ASSUME IInv, [Next]_vars PROVE IInv'
    OBVIOUS
  <2> USE CodecAssumption
  <2>1. ASSUME NEW f \in Fields, Refuse(f) PROVE IInv'
    <3>1. ~IsOrdinary /\ phase = "moving" /\ unknown \in 0..MaxUnknown
      BY <2>1, OrdinaryElement DEF Refuse, IsNext, IInv, TypeOK
    <3> QED BY <2>1, <3>1, StillKeeps DEF Refuse
  <2>2. ASSUME NEW f \in Fields, Move(f) PROVE IInv'
    BY <2>1, <2>2, MoveBinaryKeeps, MoveJSONKeeps DEF Move
  <2>3. ASSUME NEW number, NEW w, Unknown(number, w) PROVE IInv'
    <3>1. received' = received
      BY <2>3 DEF Unknown, Decoded, IInv, TypeOK
    <3>2. unknown' \in 0..MaxUnknown
      BY <2>3 DEF Unknown, IInv, TypeOK, CodecAssumption
    <3> QED BY <2>3, <3>1, <3>2, StillKeeps DEF Unknown
  <2>4. CASE Finish
    <3>1. unknown' \in 0..MaxUnknown
      BY <2>4 DEF Finish, IInv, TypeOK
    <3> QED BY <2>4, <3>1, StillKeeps DEF Finish
  <2>5. CASE UNCHANGED vars
    <3>1. /\ unknown \in 0..MaxUnknown
          /\ phase = "delivered" => \A f \in Fields : rest[f] = <<>>
          /\ phase = "refused" => ~IsOrdinary
      BY DEF IInv, TypeOK, OnlyBadNumbersAreRefused
    <3> QED BY <2>5, <3>1, StillKeeps DEF vars
  <2> QED BY <2>2, <2>3, <2>4, <2>5, CreateKeeps, StartKeeps DEF Next
<1> QED BY CodecAssumption, InitIsFine, <1>1, PTL DEF Spec

(* demo.ts, encode, decode, fromJSON and toJSON: what the reader holds is  *)
(* of the types of its fields, for every table of messages.                *)
THEOREM CodecTypes == Spec => []TypeOK
<1>1. IInv => TypeOK
  BY DEF IInv
<1> QED BY <1>1, CodecInvariant, PTL

(* demo.ts: for every table of messages whose numbers are distinct, what   *)
(* is delivered is what was sent.                                          *)
THEOREM DeliveredIsSentForAll == Spec => []DeliveredIsSent
<1>1. IInv => DeliveredIsSent
  <2> SUFFICES ASSUME IInv, phase = "delivered", Exact PROVE received = Completed
    BY DEF DeliveredIsSent, Exact
  <2>1. ASSUME NEW f \in Fields PROVE received[f] = Completed[f]
    <3>1. rest[f] = <<>> /\ Progress(f)
      BY DEF IInv
    <3>2. CASE message[f] = Missing
      <4>1. Completed[f] = <<>>
        BY <3>2 DEF Completed
      <4> QED BY <3>1, <3>2, <4>1 DEF Progress
    <3>3. CASE message[f] # Missing
      <4>1. Completed[f] = message[f] /\ ToWrite(f) = message[f]
        BY <3>3 DEF Completed, ToWrite
      <4>2. CASE Many(f)
        <5>1. received[f] \o <<>> = received[f]
          BY ConcatEmptySeq DEF IInv, TypeOK
        <5> QED BY <3>1, <3>3, <4>1, <4>2, <5>1 DEF Progress
      <4>3. CASE ~Many(f)
        BY <3>1, <3>3, <4>1, <4>3 DEF Progress
      <4> QED BY <4>2, <4>3
    <3> QED BY <3>2, <3>3
  <2>2. DOMAIN received = Fields /\ received = [f \in Fields |-> received[f]]
    BY DEF IInv, TypeOK
  <2>3. Completed = [f \in Fields |-> Completed[f]]
    BY DEF Completed
  <2> QED BY <2>1, <2>2, <2>3
<1> QED BY <1>1, CodecInvariant, PTL

(* demo.ts, encode and longToNumber: only numbers that are out of range or *)
(* numbers and lists that are missing are refused, whatever the table.     *)
THEOREM OnlyBadNumbersAreRefusedForAll == Spec => []OnlyBadNumbersAreRefused
<1>1. IInv => OnlyBadNumbersAreRefused
  BY DEF IInv
<1> QED BY <1>1, CodecInvariant, PTL
=============================================================================
