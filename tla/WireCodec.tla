----------------------------- MODULE WireCodec ------------------------------
(***************************************************************************)
(* A value of each message type of x/wasm on its way from Marshal to        *)
(* Unmarshal: a message in a transaction, a record in the store, a genesis  *)
(* document, a query answer.  Between the two the bytes may be written by   *)
(* another encoder that makes the choices protobuf leaves free.             *)
(***************************************************************************)
EXTENDS Wire

CONSTANTS
  Messages,    \* sequence of message types
  MaxVariants  \* how many of its free choices an encoder makes differently

ASSUME WireAssumption ==
  /\ MaxVariants \in Nat
  /\ \A i \in DOMAIN Messages :
       DOMAIN Messages[i]
         = {"fields", "marshal", "size", "comparable", "equal", "reader"}

VARIABLES
  type,    \* the message type, an index of Messages
  value,   \* the Go value
  bytes,   \* the encoded chunks
  stage,   \* "value", "sent" or "read"
  altered, \* how often the encoder chose differently
  retyped, \* a field came with a wire type that is not the field's
  decoded  \* what Unmarshal returned

codecVars == <<type, value, bytes, stage, altered, retyped, decoded>>

Type == Messages[type]

----------------------------------------------------------------------------
(* Values: each field zero, small or large; at most two fields differ from  *)
(* the rest of the message, which is all zero or all large.                 *)

RECURSIVE Sample(_, _)
Uniform(table, k) == [n \in Numbers(table) |-> Sample(FieldOf(table, n), k)]
Sample(f, k) ==
  CASE f.kind = "str"  -> <<0, 3, 130>>[k + 1]
    [] f.kind = "num"  -> <<0, 1, 300>>[k + 1]
    [] f.kind = "flag" -> <<0, 1, 1>>[k + 1]
    [] f.kind = "strs" -> << <<>>, <<0>>, <<3, 130>> >>[k + 1]
    [] f.kind = "nums" -> << <<>>, <<1>>, <<300, 1>> >>[k + 1]
    [] f.kind = "list" -> << <<>>, <<Uniform(f.sub, 0)>>,
                             <<Uniform(f.sub, 2), Uniform(f.sub, 1)>> >>[k + 1]
    [] f.kind = "ptr"  -> << <<>>, <<Uniform(f.sub, 0)>>,
                             <<Uniform(f.sub, 2)>> >>[k + 1]
    [] f.kind = "emb"  -> Uniform(f.sub, k)

With(v, table, n, k) == [v EXCEPT ![n] = Sample(FieldOf(table, n), k)]

Values(table) ==
  LET Ns == Numbers(table)
  IN  {Uniform(table, k) : k \in 0..2}
        \cup {With(Uniform(table, b), table, n, k) :
                b \in {0, 2}, n \in Ns, k \in 0..2}
        \cup {With(With(Uniform(table, 0), table, n, k), table, o, l) :
                n \in Ns, o \in Ns, k \in 1..2, l \in 1..2}

CodecInit ==
  /\ type \in DOMAIN Messages
  /\ value \in Values(Type.fields)
  /\ bytes = <<>>
  /\ stage = "value"
  /\ altered = 0
  /\ retyped = FALSE
  /\ decoded = Refused

----------------------------------------------------------------------------

Marshal ==
  /\ stage = "value"
  /\ bytes' = MarshalMsg(Type.marshal, value)
  /\ stage' = "sent"
  /\ UNCHANGED <<type, value, altered, retyped, decoded>>

Unmarshal ==
  /\ stage = "sent"
  /\ LET reader == Type.reader
     IN  decoded' = UnmarshalMsg(reader.unmarshal, Zero(reader.fields), bytes)
  /\ stage' = "read"
  /\ UNCHANGED <<type, value, bytes, altered, retyped>>

----------------------------------------------------------------------------
(* Other encoders.  Each step keeps the meaning of the bytes.               *)

Alter(bz) ==
  /\ stage = "sent"
  /\ altered < MaxVariants
  /\ bytes' = bz
  /\ altered' = altered + 1
  /\ UNCHANGED <<type, value, stage, retyped, decoded>>

Replacing(bz, i, cs) == SubSeq(bz, 1, i - 1) \o cs \o SubSeq(bz, i + 1, Len(bz))

Kind(c) == FieldOf(Type.marshal, c.num).kind

(* A later version's field, which no type of this version has. *)
Unknown == \E wt \in {0, 2} :
  Alter(<<Chunk(99, wt, IF wt = 0 THEN "num" ELSE "str", 1)>> \o bytes)

(* Fields in another order; the elements of one list keep theirs. *)
Reorder == \E i \in 1..(Len(bytes) - 1) :
  /\ bytes[i].num # bytes[i + 1].num
  /\ Alter([bytes EXCEPT ![i] = bytes[i + 1], ![i + 1] = bytes[i]])

(* A scalar that is sent twice: the last one counts. *)
Resend == \E i \in DOMAIN bytes :
  /\ bytes[i].num \in Numbers(Type.marshal)
  /\ Kind(bytes[i]) \in {"str", "num"}
  /\ Alter(Replacing(bytes, i, <<[bytes[i] EXCEPT !.val = 7], bytes[i]>>))

(* A packed list sent number by number. *)
Unpack == \E i \in DOMAIN bytes :
  /\ bytes[i].as = "nums"
  /\ LET c == bytes[i]
     IN  Alter(Replacing(bytes, i,
           [j \in DOMAIN c.val |-> Chunk(c.num, 0, "num", c.val[j])]))

(* A message sent in two parts, to be merged. *)
Split == \E i \in DOMAIN bytes :
  /\ bytes[i].as = "msg"
  /\ Kind(bytes[i]) \in {"ptr", "emb"}
  /\ \E j \in 1..(Len(bytes[i].val) - 1) :
       LET c == bytes[i]
       IN  Alter(Replacing(bytes, i,
             <<[c EXCEPT !.val = SubSeq(c.val, 1, j)],
               [c EXCEPT !.val = SubSeq(c.val, j + 1, Len(c.val))]>>))

(* Bytes of another type: a field with the other wire type. *)
Retype ==
  /\ stage = "sent"
  /\ ~retyped
  /\ \E i \in DOMAIN bytes :
       /\ bytes[i].num \in Numbers(Type.reader.fields)
       /\ FieldOf(Type.reader.fields, bytes[i].num).kind # "nums"
       /\ bytes' = [bytes EXCEPT ![i] =
            IF bytes[i].wt = 0 THEN Chunk(bytes[i].num, 2, "str", 1)
            ELSE Chunk(bytes[i].num, 0, "num", 1)]
  /\ retyped' = TRUE
  /\ UNCHANGED <<type, value, stage, altered, decoded>>

CodecNext ==
  \/ Marshal
  \/ Unmarshal
  \/ Unknown
  \/ Reorder
  \/ Resend
  \/ Unpack
  \/ Split
  \/ Retype

CodecSpec == CodecInit /\ [][CodecNext]_codecVars

----------------------------------------------------------------------------
(* What a reader with another table sees of a value: the fields it does not *)
(* have are gone, the ones the writer did not have are zero.                *)

RECURSIVE SeenField(_, _)
Seen(table, v) ==
  [n \in Numbers(table) |->
     IF n \in DOMAIN v THEN SeenField(FieldOf(table, n), v[n])
     ELSE ZeroField(FieldOf(table, n))]
SeenField(f, x) ==
  CASE f.kind \in {"list", "ptr"} -> [i \in DOMAIN x |-> Seen(f.sub, x[i])]
    [] f.kind = "emb" -> Seen(f.sub, x)
    [] OTHER -> x

(* Unmarshal of what Marshal wrote gives the value back, for every message  *)
(* type, also after another encoder's choices, and for the stored types     *)
(* also when the bytes of an older version are read as the newer type (the  *)
(* params of version 2 by Migrate3to4, a code info of version 3 by          *)
(* InitializePinnedCodes before the upgrade ran).  Bytes with a field of    *)
(* another wire type are refused and never read as something else.          *)
DecodedValue ==
  stage = "read" =>
    IF retyped THEN ~decoded.ok
    ELSE decoded.ok /\ decoded.val = Seen(Type.reader.fields, value)

(* The functions of a type agree.  Size is the number of bytes that Marshal *)
(* then writes: MarshalToSizedBuffer writes from the end of a buffer of     *)
(* that size, a smaller one makes it panic, a larger one leaves garbage     *)
(* bytes in front.  Equal tells two messages apart exactly if a field       *)
(* differs: no field is left out, and lists are compared to the end.        *)
SizeEqualExact ==
  /\ stage = "sent" /\ altered = 0 /\ ~retyped =>
       SizeMsg(Type.size, value) = Length(bytes)
  /\ stage = "value" /\ Type.comparable =>
       /\ EqualMsg(Type.equal, value, value)
       /\ \A n \in DOMAIN value, k \in 0..2 :
            LET other == With(value, Type.fields, n, k)
            IN  EqualMsg(Type.equal, value, other) <=> value = other

=============================================================================
