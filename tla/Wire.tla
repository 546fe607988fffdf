-------------------------------- MODULE Wire --------------------------------
(***************************************************************************)
(* The protobuf encoding of x/wasm: the shapes of code that the generated   *)
(* files types/*.pb.go and the hand-kept migrations/v2 and v3               *)
(* legacy_types.go are made of.                                             *)
(*                                                                         *)
(* Each message type is a struct with its own Marshal, Size, Unmarshal and  *)
(* (some) Equal function.  The struct and each function have a table: one   *)
(* entry per field, in the order of the code, with the shape of code that   *)
(* the function has for the field.  Each table is read off its own code,    *)
(* never off another table or the .proto file: that they agree is what      *)
(* WireCodec checks.                                                        *)
(*                                                                         *)
(* A value is a function from field numbers.  Bytes are given by their      *)
(* length, which is also what tells two of them apart.  Encoded bytes are a *)
(* sequence of fields [num, wt, as, val]; as says how val is laid out, for  *)
(* lengths only.                                                            *)
(***************************************************************************)
EXTENDS Integers, Sequences, SequencesExt

----------------------------------------------------------------------------
(* The shapes of a field.  sub is the table of the same function for the    *)
(* message type of the field.                                               *)

Field(num, kind, sub) == [num |-> num, kind |-> kind, sub |-> sub]

Str(n)       == Field(n, "str", <<>>)    \* string or []byte
Num(n)       == Field(n, "num", <<>>)    \* uint64 or enum
Flag(n)      == Field(n, "flag", <<>>)   \* bool
Strs(n)      == Field(n, "strs", <<>>)   \* []string or [][]byte
Nums(n)      == Field(n, "nums", <<>>)   \* []uint64, packed
Ptr(n, sub)  == Field(n, "ptr", sub)     \* *T: nil or a message
Emb(n, sub)  == Field(n, "emb", sub)     \* T: a message that is never nil
List(n, sub) == Field(n, "list", sub)    \* []T or []*T

(* A message of another module (Coin, Any, PageRequest, ...), whose own     *)
(* encoding is not modelled: one field stands for its content.              *)
Opaque == <<Str(1)>>

Numbers(table) == {table[i].num : i \in DOMAIN table}

FieldOf(table, n) == table[CHOOSE i \in DOMAIN table : table[i].num = n]

(* The Go zero value of a field and of a message.  A pointer is a sequence  *)
(* of at most one message.                                                  *)
RECURSIVE ZeroField(_)
ZeroField(f) ==
  CASE f.kind \in {"str", "num", "flag"} -> 0
    [] f.kind \in {"strs", "nums", "list", "ptr"} -> <<>>
    [] f.kind = "emb" -> [n \in Numbers(f.sub) |-> ZeroField(FieldOf(f.sub, n))]

Zero(table) == [n \in Numbers(table) |-> ZeroField(FieldOf(table, n))]

(* How many bytes a varint takes; the model's numbers stay below 2^14.      *)
Sov(x) == IF x < 128 THEN 1 ELSE 2

RECURSIVE SumSov(_)
SumSov(xs) == IF xs = <<>> THEN 0 ELSE Sov(Head(xs)) + SumSov(Tail(xs))

----------------------------------------------------------------------------
(* Marshal.                                                                 *)

Chunk(num, wt, as, val) == [num |-> num, wt |-> wt, as |-> as, val |-> val]

(* Zero scalars, nil pointers and empty lists are not written; an embedded  *)
(* message always is.                                                       *)
Omitted(f, x) == f.kind # "emb" /\ x = ZeroField(f)

RECURSIVE MarshalMsg(_, _)
(* The chunks one field is written as. *)
MarshalField(f, x) ==
  CASE f.kind = "str"  -> <<Chunk(f.num, 2, "str", x)>>
    [] f.kind \in {"num", "flag"} -> <<Chunk(f.num, 0, "num", x)>>
    [] f.kind = "strs" -> [i \in DOMAIN x |-> Chunk(f.num, 2, "str", x[i])]
    [] f.kind = "nums" -> <<Chunk(f.num, 2, "nums", x)>>
    [] f.kind \in {"list", "ptr"} ->
         [i \in DOMAIN x |-> Chunk(f.num, 2, "msg", MarshalMsg(f.sub, x[i]))]
    [] f.kind = "emb"  -> <<Chunk(f.num, 2, "msg", MarshalMsg(f.sub, x))>>

(* MarshalToSizedBuffer fills the buffer from the end, the last field of    *)
(* the table first; what it leaves is the table's order.                    *)
MarshalMsg(table, v) ==
  FoldLeft(LAMBDA bz, f :
             IF Omitted(f, v[f.num]) THEN bz ELSE bz \o MarshalField(f, v[f.num]),
           <<>>, table)

(* The length of encoded bytes.  A key is one byte: no field number of the  *)
(* module reaches 16.                                                       *)
RECURSIVE Length(_)
ChunkLength(c) ==
  LET Delimited(l) == Sov(l) + l
  IN  1 + CASE c.as = "num"  -> Sov(c.val)
            [] c.as = "str"  -> Delimited(c.val)
            [] c.as = "nums" -> Delimited(SumSov(c.val))
            [] c.as = "msg"  -> Delimited(Length(c.val))

Length(bz) == FoldLeft(LAMBDA l, c : l + ChunkLength(c), 0, bz)

----------------------------------------------------------------------------
(* Size, which Marshal uses to allocate the buffer that it then fills.      *)

RECURSIVE SizeMsg(_, _)

SizeField(f, x) ==
  LET Delimited(l) == 1 + l + Sov(l)
  IN  CASE f.kind = "str"  -> IF x > 0 THEN Delimited(x) ELSE 0
        [] f.kind = "num"  -> IF x # 0 THEN 1 + Sov(x) ELSE 0
        [] f.kind = "flag" -> IF x # 0 THEN 2 ELSE 0
        [] f.kind = "strs" -> FoldLeft(LAMBDA n, s : n + Delimited(s), 0, x)
        [] f.kind = "nums" -> IF x # <<>> THEN Delimited(SumSov(x)) ELSE 0
        [] f.kind \in {"list", "ptr"} ->
             FoldLeft(LAMBDA n, e : n + Delimited(SizeMsg(f.sub, e)), 0, x)
        [] f.kind = "emb"  -> Delimited(SizeMsg(f.sub, x))

SizeMsg(table, v) == FoldLeft(LAMBDA n, f : n + SizeField(f, v[f.num]), 0, table)

----------------------------------------------------------------------------
(* Unmarshal, into a message that may already hold values.                  *)

Decoded(v) == [ok |-> TRUE, val |-> v]
Refused    == [ok |-> FALSE, val |-> <<>>]

RECURSIVE UnmarshalMsg(_, _, _)

WireType(f) == IF f.kind \in {"num", "flag"} THEN 0 ELSE 2

Inner(r, wrap(_)) == IF r.ok THEN Decoded(wrap(r.val)) ELSE Refused

(* One case of the field switch.  A scalar is overwritten, a list appended  *)
(* to, a message merged into; a packed list may also come number by number. *)
UnmarshalField(f, x, c) ==
  CASE f.kind = "nums" ->
         Decoded(IF c.wt = 0 THEN Append(x, c.val) ELSE x \o c.val)
    [] f.kind # "nums" /\ c.wt # WireType(f) -> Refused
    [] OTHER ->
       CASE f.kind \in {"str", "num", "flag"} -> Decoded(c.val)
         [] f.kind = "strs" -> Decoded(Append(x, c.val))
         [] f.kind = "list" ->
              Inner(UnmarshalMsg(f.sub, Zero(f.sub), c.val),
                    LAMBDA m : Append(x, m))
         [] f.kind = "ptr" ->
              LET old == IF x = <<>> THEN Zero(f.sub) ELSE x[1]
              IN  Inner(UnmarshalMsg(f.sub, old, c.val), LAMBDA m : <<m>>)
         [] f.kind = "emb" -> UnmarshalMsg(f.sub, x, c.val)

(* The loop over the bytes: a field the switch does not know is skipped,    *)
(* the first error ends it.                                                 *)
UnmarshalMsg(table, v, bz) ==
  FoldLeft(LAMBDA r, c :
             IF ~r.ok \/ c.num \notin Numbers(table) THEN r
             ELSE Inner(UnmarshalField(FieldOf(table, c.num), r.val[c.num], c),
                        LAMBDA x : [r.val EXCEPT ![c.num] = x]),
           Decoded(v), bz)

----------------------------------------------------------------------------
(* Equal.                                                                   *)

RECURSIVE EqualMsg(_, _, _)

EqualField(f, x, y) ==
  CASE f.kind \in {"str", "num", "flag"} -> x = y
    [] f.kind \in {"strs", "nums"} ->
         /\ Len(x) = Len(y)
         /\ \A i \in DOMAIN x : x[i] = y[i]
    [] f.kind \in {"list", "ptr"} ->
         /\ Len(x) = Len(y)
         /\ \A i \in DOMAIN x : EqualMsg(f.sub, x[i], y[i])
    [] f.kind = "emb" -> EqualMsg(f.sub, x, y)

EqualMsg(table, v, w) ==
  \A i \in DOMAIN table : EqualField(table[i], v[table[i].num], w[table[i].num])

----------------------------------------------------------------------------
(* A message type: the fields of its struct, its functions, and the type as *)
(* which its bytes are read back.                                           *)

Message(fields, unmarshal, marshal, size) ==
  [fields |-> fields, marshal |-> marshal, size |-> size,
   comparable |-> FALSE, equal |-> <<>>,
   reader |-> [fields |-> fields, unmarshal |-> unmarshal]]

Comparable(fields, unmarshal, marshal, size, equal) ==
  [Message(fields, unmarshal, marshal, size) EXCEPT
     !.comparable = TRUE, !.equal = equal]

(* Bytes that stay in the store and are read as another version's type. *)
ReadAs(message, fields, unmarshal) ==
  [message EXCEPT !.reader = [fields |-> fields, unmarshal |-> unmarshal]]
=============================================================================
