------------------------------ MODULE Message ------------------------------
(***************************************************************************)
(* The messages of libmaid's wire format as protoc's classes implement     *)
(* them (src/controller.pb.cc and its like).  The classes differ only in   *)
(* their fields, so that a class is here the sequence of its fields in the *)
(* order in which they are serialized, and its methods are operators.      *)
(*                                                                         *)
(* A message is the function from the fields that are present (the has     *)
(* bits) to their values.  Serialized it is a sequence of pairs of a field *)
(* and a value; how a value is encoded is left out, except that a pair may *)
(* be unreadable.                                                          *)
(***************************************************************************)
EXTENDS Integers, Sequences, SequencesExt

ControllerProto ==
  <<"method_name", "transmit_id", "stub", "is_canceled", "failed",
    "error_text", "notify", "message", "full_service_name",
    "connection", "session">>
ConnectionProto == <<"id", "host", "port">>
SessionProto == <<"id", "expired_time">>
MaidServiceOptions == <<"notify">>
MaidMethodOptions == <<"notify", "time_out">>

(* A pair that does not parse.                                             *)
Cut == <<"cut", "cut">>

(* The constructor: no field is present.                                   *)
New == [f \in {} |-> 0]

Has(m, f) == f \in DOMAIN m

Default(f) ==
  CASE f \in {"stub", "is_canceled", "failed", "notify"} -> FALSE
    [] f \in {"transmit_id", "port", "expired_time"} -> 0
    [] f = "time_out" -> -1
    [] f \in {"connection", "session"} -> New
    [] f = "message" -> <<>>
    [] OTHER -> ""

Get(m, f) == IF Has(m, f) THEN m[f] ELSE Default(f)

Set(m, f, v) == [g \in DOMAIN m \cup {f} |-> IF g = f THEN v ELSE m[g]]

ClearField(m, f) == Restrict(m, DOMAIN m \ {f})

(* Clear gives back what the constructor makes.                            *)
Clear(m) == Restrict(m, {})

-----------------------------------------------------------------------------
(* The fields of m in this order, those that are present.                  *)
Write(order, m) ==
  LET present == {i \in DOMAIN order : Has(m, order[i])}
      at(k) == CHOOSE i \in present : Cardinality({j \in present : j <= i}) = k
  IN [k \in 1..Cardinality(present) |-> <<order[at(k)], m[order[at(k)]]>>]

(* Variant: the service is written before the other fields.                *)
SerializeServiceFirst(type, m) ==
  Write(<<"full_service_name">> \o Remove(type, "full_service_name"), m)

(* The fields that are present in the order of their numbers; extensions   *)
(* follow, and then what the class does not know.                          *)
Serialize(type, m) == Write(type \o SetToSeq(DOMAIN m \ ToSet(type)), m)

(* Variant: a field that is set to its default takes no room.              *)
ByteSizeOfValues(type, m) == Cardinality({f \in DOMAIN m : m[f] # Default(f)})

(* Computed without serializing, one unit for each field.                  *)
ByteSize(type, m) ==
  Cardinality({f \in ToSet(type) : Has(m, f)}) + Cardinality(DOMAIN m \ ToSet(type))

(* Reading goes on past what the class does not know, and ends where a     *)
(* pair does not parse.                                                    *)
Readable(bytes) == {i \in DOMAIN bytes : \A j \in 1..i : bytes[j] # Cut}

(* MergePartialFromCodedStream: the fields are read one after the other, a *)
(* repeated one is overwritten, and the message is filled so far when      *)
(* reading ends early.                                                     *)
Merge(m, bytes) ==
  LET read == Readable(bytes)
      fields == {bytes[i][1] : i \in read}
      last(f) == CHOOSE i \in read :
                   /\ bytes[i][1] = f
                   /\ \A j \in read : j > i => bytes[j][1] # f
  IN [ok |-> read = DOMAIN bytes,
      message |-> [f \in DOMAIN m \cup fields |->
                     IF f \in fields THEN bytes[last(f)][2] ELSE m[f]]]

(* ParseFromArray into the message m.                                      *)
Parse(m, bytes) == Merge(Clear(m), bytes)

-----------------------------------------------------------------------------
(* ProtobufHelper::notify: the option of the method, else the option of    *)
(* the service, else what the caller of notify gives.  A method that is    *)
(* not found has no options.                                               *)
Notify(found, service, method, value) ==
  IF ~found THEN value
  ELSE IF Has(method, "notify") THEN method["notify"]
  ELSE IF Has(service, "notify") THEN service["notify"]
  ELSE value
=============================================================================
