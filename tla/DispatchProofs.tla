--------------------------- MODULE DispatchProofs ---------------------------
(***************************************************************************)
(* Proofs about Dispatch: that reading a message gives back what was       *)
(* written, and, with it, what becomes of a request and of its answer.     *)
(***************************************************************************)
EXTENDS Dispatch, SequenceTheorems, FiniteSetTheorems, TLAPS

-----------------------------------------------------------------------------
(* Reading and writing                                                     *)

(* How many elements of P come before i or are i.                          *)
RankOf(P, i) == Cardinality({j \in P : j <= i})

LEMMA Ranks ==
  ASSUME NEW n \in Nat, NEW P \in SUBSET (1..n)
  PROVE  /\ Cardinality(P) \in Nat
         /\ \A i \in P : RankOf(P, i) \in 1..Cardinality(P)
         /\ \A i, j \in P : i < j => RankOf(P, i) < RankOf(P, j)
         /\ \A k \in 1..Cardinality(P) : \E i \in P : RankOf(P, i) = k
<1> DEFINE upto(i) == {j \in P : j <= i}
           card == Cardinality(P)
<1>0. \A i \in P : i \in Int
  OBVIOUS
<1>1. IsFiniteSet(P) /\ card \in Nat
  <2>1. IsFiniteSet(1..n)
    BY FS_Interval
  <2> QED
    BY <2>1, FS_Subset, FS_CardinalityType
<1>2. ASSUME NEW i \in P
      PROVE  IsFiniteSet(upto(i)) /\ RankOf(P, i) \in 1..card
  <2>1. upto(i) \in SUBSET P /\ i \in upto(i)
    OBVIOUS
  <2>2. IsFiniteSet(upto(i)) /\ Cardinality(upto(i)) <= card
    BY <1>1, <2>1, FS_Subset
  <2>3. Cardinality(upto(i)) \in Nat /\ Cardinality(upto(i)) # 0
    BY <2>1, <2>2, FS_CardinalityType, FS_EmptySet
  <2> QED
    BY <1>1, <2>2, <2>3 DEF RankOf
<1>r. ASSUME NEW i \in P PROVE RankOf(P, i) \in 1..card /\ RankOf(P, i) \in Int
  <2>1. RankOf(P, i) \in 1..card
    BY <1>2
  <2> QED
    BY <2>1, <1>1
<1>3. ASSUME NEW i \in P, NEW j \in P, i < j
      PROVE  RankOf(P, i) < RankOf(P, j)
  <2>1. upto(i) \in SUBSET upto(j) /\ j \in upto(j) /\ j \notin upto(i)
    <3>1. i \in Int /\ j \in Int /\ ~(j <= i) /\ j <= j
      BY <1>0, <1>3
    <3>2. \A k \in P : k <= i => k <= j
      BY <1>0, <1>3, <3>1
    <3> QED
      BY <3>1, <3>2
  <2>2. /\ Cardinality(upto(i)) <= Cardinality(upto(j))
        /\ Cardinality(upto(j)) = Cardinality(upto(i)) => upto(j) = upto(i)
    BY <1>2, <2>1, FS_Subset
  <2>3. Cardinality(upto(i)) # Cardinality(upto(j))
    BY <2>1, <2>2
  <2>4. RankOf(P, i) = Cardinality(upto(i)) /\ RankOf(P, j) = Cardinality(upto(j))
    BY DEF RankOf
  <2>5. RankOf(P, i) \in Int /\ RankOf(P, j) \in Int
    BY <1>r
  <2> QED
    BY <2>2, <2>3, <2>4, <2>5
<1>4. \A k \in 1..card : \E i \in P : RankOf(P, i) = k
  <2> DEFINE rank == [i \in P |-> RankOf(P, i)]
  <2>1. rank \in [P -> 1..card]
    BY <1>2
  <2>2. \A i, j \in P : rank[i] = rank[j] => i = j
    <3> SUFFICES ASSUME NEW i \in P, NEW j \in P, i # j PROVE rank[i] # rank[j]
      OBVIOUS
    <3>1. i < j \/ j < i
      OBVIOUS
    <3>2. RankOf(P, i) \in Int /\ RankOf(P, j) \in Int
      BY <1>r
    <3> QED
      BY <1>3, <3>1, <3>2
  <2>3. rank \in Injection(P, 1..card)
    BY <2>1, <2>2 DEF Injection, IsInjective
  <2>4. IsFiniteSet(1..card) /\ Cardinality(1..card) = card
    BY <1>1, FS_Interval
  <2>5. rank \in Surjection(P, 1..card)
    BY <2>3, <2>4, FS_Injection
  <2> QED
    BY <2>5 DEF Surjection
<1> QED
  BY <1>1, <1>2, <1>3, <1>4

(* The places in order of the fields that m has, and a sequence that says  *)
(* where its elements stand there.                                         *)
Present(order, m) == {i \in DOMAIN order : Has(m, order[i])}

Places(at, P) ==
  /\ at \in [1..Cardinality(P) -> P]
  /\ \A k \in 1..Cardinality(P) : RankOf(P, at[k]) = k
  /\ \A i \in P : RankOf(P, i) \in 1..Cardinality(P) /\ at[RankOf(P, i)] = i

LEMMA Written ==
  ASSUME NEW n \in Nat, NEW order, DOMAIN order = 1..n, NEW m
  PROVE  LET P == Present(order, m)
         IN /\ Cardinality(P) \in Nat
            /\ DOMAIN Write(order, m) = 1..Cardinality(P)
            /\ \E at : /\ Places(at, P)
                       /\ \A k \in 1..Cardinality(P) :
                            Write(order, m)[k] = <<order[at[k]], m[order[at[k]]]>>
<1> DEFINE P == Present(order, m)
           card == Cardinality(P)
           place(k) == CHOOSE i \in P : RankOf(P, i) = k
           at == [k \in 1..card |-> place(k)]
<1>1. P \in SUBSET (1..n)
  BY DEF Present
<1> HIDE DEF P
<1>2. /\ card \in Nat
      /\ \A i \in P : RankOf(P, i) \in 1..card
      /\ \A i, j \in P : i < j => RankOf(P, i) < RankOf(P, j)
      /\ \A k \in 1..card : \E i \in P : RankOf(P, i) = k
  BY <1>1, Ranks
<1>3. \A k \in 1..card : place(k) \in P /\ RankOf(P, place(k)) = k
  BY <1>2
<1>4. Write(order, m) = [k \in 1..card |-> <<order[place(k)], m[order[place(k)]]>>]
  BY DEF Write, P, Present, RankOf
<1>5. ASSUME NEW i \in P
      PROVE  place(RankOf(P, i)) = i
  <2> DEFINE j == place(RankOf(P, i))
  <2>1. j \in P /\ RankOf(P, j) = RankOf(P, i)
    BY <1>2, <1>3
  <2> HIDE DEF j
  <2>2. i \in Int /\ j \in Int /\ RankOf(P, i) \in Int
    BY <1>1, <1>2, <2>1
  <2>3. ~(i < j) /\ ~(j < i)
    BY <1>2, <2>1, <2>2
  <2>4. j = i
    BY <2>2, <2>3
  <2> QED
    BY <2>4 DEF j
<1> HIDE DEF place
<1>6. Places(at, P)
  BY <1>2, <1>3, <1>5 DEF Places
<1>7. \A k \in 1..card : Write(order, m)[k] = <<order[at[k]], m[order[at[k]]]>>
  BY <1>4
<1>8. DOMAIN Write(order, m) = 1..card
  BY <1>4
<1> QED
  BY <1>2, <1>6, <1>7, <1>8 DEF P

IsMessage(m) == m = [f \in DOMAIN m |-> m[f]]

LEMMA NewFacts == IsMessage(New) /\ DOMAIN New = {} /\ (\A f : ~Has(New, f)) /\ Clear(New) = New
BY DEF IsMessage, New, Has, Clear, Restrict

(* q is p with the field f set to v.                                       *)
IsSet(q, p, f, v) ==
  /\ IsMessage(q) /\ DOMAIN q = DOMAIN p \cup {f}
  /\ Has(q, f) /\ q[f] = v /\ Get(q, f) = v
  /\ \A g : g # f =>
       /\ Has(q, g) <=> Has(p, g)
       /\ Get(q, g) = Get(p, g)
       /\ Has(p, g) => q[g] = p[g]

LEMMA SetFacts ==
  ASSUME NEW p, NEW f, NEW v
  PROVE  IsSet(Set(p, f, v), p, f, v)
BY DEF IsSet, IsMessage, Set, Get, Has

LEMMA SetNewFacts ==
  ASSUME NEW f, NEW v
  PROVE  IsMessage(Set(New, f, v)) /\ DOMAIN Set(New, f, v) = {f} /\ Set(New, f, v)[f] = v
<1>1. DOMAIN New = {}
  BY NewFacts
<1>2. IsSet(Set(New, f, v), New, f, v)
  BY SetFacts
<1> DEFINE q == Set(New, f, v)
<1> HIDE DEF q
<1>3. IsSet(q, New, f, v)
  BY <1>2 DEF q
<1>4. IsMessage(q) /\ DOMAIN q = {f} /\ q[f] = v
  BY <1>1, <1>3 DEF IsSet
<1> QED
  BY <1>4 DEF q

LEMMA ClearFieldFacts ==
  ASSUME NEW m, NEW f
  PROVE  /\ IsMessage(ClearField(m, f))
         /\ DOMAIN ClearField(m, f) = DOMAIN m \ {f}
         /\ \A g : g # f => Get(ClearField(m, f), g) = Get(m, g)
BY DEF IsMessage, ClearField, Restrict, Get, Has

LEMMA SameMessage ==
  ASSUME NEW m, NEW l, IsMessage(m), IsMessage(l), DOMAIN m = DOMAIN l,
         \A f \in DOMAIN m : m[f] = l[f]
  PROVE  m = l
BY DEF IsMessage

(* What is read when no field comes twice.                                 *)
LEMMA ParsedOnce ==
  ASSUME NEW bytes, NEW n \in Nat, DOMAIN bytes = 1..n,
         \A i, j \in Readable(bytes) : bytes[i][1] = bytes[j][1] => i = j
  PROVE  LET read == Readable(bytes)
             parsed == Parse(New, bytes)
         IN /\ parsed.ok <=> read = DOMAIN bytes
            /\ IsMessage(parsed.message)
            /\ DOMAIN parsed.message = {bytes[i][1] : i \in read}
            /\ \A i \in read : parsed.message[bytes[i][1]] = bytes[i][2]
<1> DEFINE read == Readable(bytes)
           fields == {bytes[i][1] : i \in read}
           last(f) == CHOOSE i \in read :
                        /\ bytes[i][1] = f
                        /\ \A j \in read : j > i => bytes[j][1] # f
           message == [f \in fields |-> bytes[last(f)][2]]
<1> HIDE DEF read
<1>0. /\ \A i, j \in read : bytes[i][1] = bytes[j][1] => i = j
      /\ \A i \in read : i \in Int
  BY DEF read, Readable
<1>1. ASSUME NEW i \in read
      PROVE  last(bytes[i][1]) = i
  <2>0. i \in DOMAIN bytes
    BY DEF read, Readable
  <2>1. \A j \in read : j > i => bytes[j][1] # bytes[i][1]
    <3> SUFFICES ASSUME NEW j \in read, j > i, bytes[j][1] = bytes[i][1] PROVE FALSE
      OBVIOUS
    <3>1. j = i
      BY <1>0
    <3> QED
      BY <1>0, <3>1
  <2>2. \E k \in read : /\ bytes[k][1] = bytes[i][1]
                        /\ \A j \in read : j > k => bytes[j][1] # bytes[i][1]
    BY <2>1
  <2>3. last(bytes[i][1]) \in read /\ bytes[last(bytes[i][1])][1] = bytes[i][1]
    BY <2>2
  <2> QED
    BY <1>0, <2>3
<1>2. Parse(New, bytes) = [ok |-> read = DOMAIN bytes,
                           message |-> [f \in DOMAIN Clear(New) \cup fields |->
                                          IF f \in fields THEN bytes[last(f)][2] ELSE Clear(New)[f]]]
  BY DEF Parse, Merge, read
<1> HIDE DEF last
<1>3. [f \in DOMAIN Clear(New) \cup fields |-> IF f \in fields THEN bytes[last(f)][2] ELSE Clear(New)[f]]
      = message
  BY NewFacts
<1>4. Parse(New, bytes).ok = (read = DOMAIN bytes) /\ Parse(New, bytes).message = message
  BY <1>2, <1>3
<1>5. IsMessage(message) /\ DOMAIN message = fields
  BY DEF IsMessage
<1>6. \A i \in read : message[bytes[i][1]] = bytes[i][2]
  BY <1>1
<1> QED
  BY <1>4, <1>5, <1>6 DEF read

(* A class: its fields, each once, none of them what does not parse.       *)
IsClass(type) ==
  \E n \in Nat :
    /\ DOMAIN type = 1..n
    /\ \A i, j \in 1..n : type[i] = type[j] => i = j
    /\ \A i \in 1..n : type[i] # "cut"
    /\ type \in Seq(ToSet(type))

LEMMA OfItsClass ==
  ASSUME NEW type, NEW m, IsClass(type), DOMAIN m \subseteq ToSet(type)
  PROVE  Serialize(type, m) = Write(type, m)
<1>1. DOMAIN m \ ToSet(type) = {}
  OBVIOUS
<1>2. SetToSeq({}) = <<>>
  <2>1. Cardinality({}) = 0
    BY FS_EmptySet
  <2>2. 1..0 = {}
    OBVIOUS
  <2>3. SetToSeq({}) = CHOOSE f \in [{} -> {}] : IsInjective(f)
    BY <2>1, <2>2 DEF SetToSeq
  <2>4. \A f \in [{} -> {}] : f = <<>>
    OBVIOUS
  <2>5. <<>> \in [{} -> {}] /\ IsInjective(<<>>)
    BY DEF IsInjective
  <2> QED
    BY <2>3, <2>4, <2>5
<1>3. type \o <<>> = type
  BY ConcatEmptySeq DEF IsClass
<1> QED
  BY <1>1, <1>2, <1>3 DEF Serialize

(* A message that is written and read is the same.                         *)
LEMMA ReadBack ==
  ASSUME NEW type, NEW m, IsClass(type), IsMessage(m), DOMAIN m \subseteq ToSet(type)
  PROVE  Parse(New, Serialize(type, m)).ok /\ Parse(New, Serialize(type, m)).message = m
<1> DEFINE bytes == Serialize(type, m)
           P == Present(type, m)
           card == Cardinality(P)
<1>1. PICK n \in Nat : /\ DOMAIN type = 1..n
                       /\ \A i, j \in 1..n : type[i] = type[j] => i = j
                       /\ \A i \in 1..n : type[i] # "cut"
  BY DEF IsClass
<1>2. PICK at : /\ Places(at, P)
                /\ \A k \in 1..card : bytes[k] = <<type[at[k]], m[type[at[k]]]>>
  BY <1>1, OfItsClass, Written
<1>3. card \in Nat /\ DOMAIN bytes = 1..card
  BY <1>1, OfItsClass, Written
<1>4. \A i \in P : i \in 1..n /\ type[i] \in DOMAIN m
  BY <1>1 DEF Present, Has
<1> HIDE DEF bytes, P, card
<1>5. /\ \A k \in 1..card : at[k] \in P /\ RankOf(P, at[k]) = k
      /\ \A i \in P : RankOf(P, i) \in 1..card /\ at[RankOf(P, i)] = i
  BY <1>2 DEF Places, card
<1>6. Readable(bytes) = 1..card
  <2>1. \A k \in 1..card : bytes[k][1] # "cut"
    BY <1>1, <1>2, <1>4, <1>5
  <2>2. \A k \in 1..card : bytes[k] # Cut
    BY <2>1 DEF Cut
  <2>3. \A i \in 1..card : \A j \in 1..i : j \in 1..card
    BY <1>3
  <2> QED
    BY <1>3, <2>2, <2>3 DEF Readable
<1>7. \A k \in 1..card : bytes[k][1] = type[at[k]] /\ bytes[k][2] = m[type[at[k]]]
  BY <1>2
<1>8. \A k, l \in 1..card : bytes[k][1] = bytes[l][1] => k = l
  <2> SUFFICES ASSUME NEW k \in 1..card, NEW l \in 1..card, bytes[k][1] = bytes[l][1] PROVE k = l
    OBVIOUS
  <2>1. type[at[k]] = type[at[l]]
    BY <1>7
  <2>2. at[k] \in 1..n /\ at[l] \in 1..n
    BY <1>4, <1>5
  <2>3. at[k] = at[l]
    BY <1>1, <2>1, <2>2
  <2> QED
    BY <1>5, <2>3
<1> DEFINE parsed == Parse(New, bytes)
<1>9. /\ parsed.ok /\ IsMessage(parsed.message)
      /\ DOMAIN parsed.message = {bytes[k][1] : k \in 1..card}
      /\ \A k \in 1..card : parsed.message[bytes[k][1]] = bytes[k][2]
  BY <1>3, <1>6, <1>8, ParsedOnce
<1> HIDE DEF parsed
<1>10. \A f \in DOMAIN m : \E k \in 1..card : type[at[k]] = f
  <2> SUFFICES ASSUME NEW f \in DOMAIN m PROVE \E k \in 1..card : type[at[k]] = f
    OBVIOUS
  <2>1. PICK i \in 1..n : type[i] = f
    BY <1>1 DEF ToSet
  <2>2. i \in P
    BY <1>1, <2>1 DEF P, Present, Has
  <2> QED
    BY <1>5, <2>1, <2>2
<1>11. DOMAIN parsed.message = DOMAIN m
  <2>1. \A k \in 1..card : bytes[k][1] \in DOMAIN m
    BY <1>4, <1>5, <1>7
  <2>2. \A f \in DOMAIN m : \E k \in 1..card : bytes[k][1] = f
    BY <1>7, <1>10
  <2> QED
    BY <1>9, <2>1, <2>2
<1>12. \A f \in DOMAIN m : parsed.message[f] = m[f]
  BY <1>7, <1>9, <1>10
<1>13. parsed.message = m
  BY <1>9, <1>11, <1>12, SameMessage
<1> QED
  BY <1>9, <1>13 DEF parsed, bytes

(* ByteSize is the length of what Serialize gives.                         *)
LEMMA SizeOf ==
  ASSUME NEW type, NEW m, IsClass(type), DOMAIN m \subseteq ToSet(type)
  PROVE  ByteSize(type, m) = Len(Serialize(type, m))
<1> DEFINE P == Present(type, m)
           fields == {f \in ToSet(type) : Has(m, f)}
<1>1. PICK n \in Nat : /\ DOMAIN type = 1..n
                       /\ \A i, j \in 1..n : type[i] = type[j] => i = j
  BY DEF IsClass
<1>2. DOMAIN Serialize(type, m) = 1..Cardinality(P) /\ Cardinality(P) \in Nat
  BY <1>1, OfItsClass, Written
<1>3. Len(Serialize(type, m)) = Cardinality(P)
  BY <1>2
<1>4. Cardinality(fields) = Cardinality(P)
  <2> DEFINE name == [i \in P |-> type[i]]
  <2>1. P \in SUBSET (1..n)
    BY <1>1 DEF Present
  <2>2. IsFiniteSet(P)
    <3>1. IsFiniteSet(1..n)
      BY FS_Interval
    <3> QED
      BY <2>1, <3>1, FS_Subset
  <2>3. name \in [P -> fields]
    BY <1>1 DEF Present, ToSet
  <2>r. ASSUME NEW f \in fields PROVE \E i \in P : name[i] = f
    <3>1. PICK i \in 1..n : type[i] = f
      BY <1>1 DEF ToSet
    <3>2. i \in P
      BY <1>1, <3>1 DEF Present
    <3> QED
      BY <3>1, <3>2
  <2>4. \A i, j \in P : name[i] = name[j] => i = j
    BY <1>1, <2>1
  <2>5. name \in Bijection(P, fields)
    BY <2>3, <2>4, <2>r DEF Bijection, Injection, Surjection, IsInjective
  <2>6. ExistsBijection(P, fields)
    BY <2>5 DEF ExistsBijection
  <2> QED
    BY <2>2, <2>6, FS_Bijection
<1>5. DOMAIN m \ ToSet(type) = {}
  OBVIOUS
<1>6. Cardinality({}) = 0
  BY FS_EmptySet
<1>7. ByteSize(type, m) = Cardinality(fields) + 0
  <2>1. ByteSize(type, m) = Cardinality(fields) + Cardinality(DOMAIN m \ ToSet(type))
    BY DEF ByteSize
  <2>2. Cardinality(DOMAIN m \ ToSet(type)) = 0
    BY <1>5, <1>6
  <2> QED
    BY <2>1, <2>2
<1> HIDE DEF P, fields
<1> QED
  BY <1>2, <1>3, <1>4, <1>7

(* The classes of the program.                                             *)
ControllerFields ==
  {"method_name", "transmit_id", "stub", "is_canceled", "failed", "error_text", "notify",
   "message", "full_service_name", "connection", "session"}

LEMMA ControllerClass == IsClass(ControllerProto) /\ ToSet(ControllerProto) = ControllerFields
<1> DEFINE place(f) ==
CASE f = "method_name" -> 1
             [] f = "transmit_id" -> 2
             [] f = "stub" -> 3
             [] f = "is_canceled" -> 4
             [] f = "failed" -> 5
             [] f = "error_text" -> 6
             [] f = "notify" -> 7
             [] f = "message" -> 8
             [] f = "full_service_name" -> 9
             [] f = "connection" -> 10
             [] f = "session" -> 11
<1>1. DOMAIN ControllerProto = 1..11 /\ ControllerProto \in Seq(ControllerFields)
  BY DEF ControllerProto, ControllerFields
<1>2. ASSUME NEW i \in 1..11
      PROVE  /\ place(ControllerProto[i]) = i
             /\ ControllerProto[i] \in ControllerFields /\ ControllerProto[i] # "cut"
  <2>1. \/ i = 1 \/ i = 2 \/ i = 3 \/ i = 4 \/ i = 5 \/ i = 6 \/ i = 7 \/ i = 8 \/ i = 9
        \/ i = 10 \/ i = 11
    OBVIOUS
  <2> QED
    BY <2>1 DEF ControllerProto, ControllerFields
<1>3. \A f \in ControllerFields : \E i \in 1..11 : ControllerProto[i] = f
  <2> SUFFICES ASSUME NEW f \in ControllerFields PROVE \E i \in 1..11 : ControllerProto[i] = f
    OBVIOUS
  <2>1. \/ f = "method_name" \/ f = "transmit_id" \/ f = "stub" \/ f = "is_canceled"
        \/ f = "failed" \/ f = "error_text" \/ f = "notify" \/ f = "message"
        \/ f = "full_service_name" \/ f = "connection" \/ f = "session"
    BY DEF ControllerFields
  <2>2. /\ ControllerProto[1] = "method_name" /\ ControllerProto[2] = "transmit_id"
        /\ ControllerProto[3] = "stub" /\ ControllerProto[4] = "is_canceled"
        /\ ControllerProto[5] = "failed" /\ ControllerProto[6] = "error_text"
        /\ ControllerProto[7] = "notify" /\ ControllerProto[8] = "message"
        /\ ControllerProto[9] = "full_service_name" /\ ControllerProto[10] = "connection"
        /\ ControllerProto[11] = "session"
    BY DEF ControllerProto
  <2> QED
    BY <2>1, <2>2
<1> HIDE DEF place
<1>4. \A i, j \in 1..11 : ControllerProto[i] = ControllerProto[j] => i = j
  BY <1>2
<1>5. ToSet(ControllerProto) = ControllerFields
  BY <1>1, <1>2, <1>3 DEF ToSet
<1> QED
  BY <1>1, <1>2, <1>4, <1>5 DEF IsClass

LEMMA OneFieldClass == IsClass(<<"message">>) /\ ToSet(<<"message">>) = {"message"}
<1>1. ToSet(<<"message">>) = {"message"}
  BY DEF ToSet
<1> QED
  BY <1>1 DEF IsClass

LEMMA PrototypeClasses ==
  ASSUME NEW method
  PROVE  /\ IsClass(RequestPrototype(method)) /\ ToSet(RequestPrototype(method)) = {"message"}
         /\ IsClass(ResponsePrototype(method)) /\ ToSet(ResponsePrototype(method)) = {"message"}
BY OneFieldClass
   DEF RequestPrototype, ResponsePrototype, EchoRequest, EchoResponse, HelloRequest, HelloResponse

-----------------------------------------------------------------------------
(* Frames                                                                  *)

IsSeq(s) == s \in Seq(ToSet(s))

LEMMA SeqFacts ==
  ASSUME NEW s, IsSeq(s)
  PROVE  /\ Len(s) \in Nat /\ DOMAIN s = 1..Len(s)
         /\ \A i \in 1..Len(s) : s[i] \in ToSet(s)
BY DEF IsSeq, ToSet

LEMMA MakeSeq ==
  ASSUME NEW n \in Nat, NEW s, DOMAIN s = 1..n, s = [i \in 1..n |-> s[i]]
  PROVE  IsSeq(s) /\ Len(s) = n
<1>1. \A i \in 1..n : s[i] \in ToSet(s)
  BY DEF ToSet
<1>2. s \in [1..n -> ToSet(s)]
  BY <1>1
<1>3. s \in Seq(ToSet(s))
  BY <1>2, SeqDef
<1> QED
  BY <1>2, <1>3 DEF IsSeq

LEMMA EmptyIsSeq == IsSeq(<<>>) /\ Len(<<>>) = 0
BY DEF IsSeq

LEMMA AppendFacts ==
  ASSUME NEW s, IsSeq(s), NEW e
  PROVE  /\ IsSeq(Append(s, e)) /\ Len(Append(s, e)) = Len(s) + 1
         /\ Append(s, e)[Len(s) + 1] = e
         /\ \A i \in 1..Len(s) : Append(s, e)[i] = s[i]
<1> DEFINE S == ToSet(s) \cup {e}
           t == Append(s, e)
<1>1. s \in Seq(S) /\ e \in S
  BY SeqMonotonic DEF IsSeq
<1>2. /\ t \in Seq(S) /\ Len(t) = Len(s) + 1 /\ t[Len(s) + 1] = e
      /\ \A i \in 1..Len(s) : t[i] = s[i]
  BY <1>1
<1> HIDE DEF t
<1>3. DOMAIN t = 1..Len(t) /\ t = [i \in 1..Len(t) |-> t[i]] /\ Len(t) \in Nat
  BY <1>2, LenProperties
<1>4. IsSeq(t)
  BY <1>3, MakeSeq
<1> QED
  BY <1>2, <1>4 DEF t

LEMMA TailFacts ==
  ASSUME NEW s, IsSeq(s), s # <<>>
  PROVE  /\ IsSeq(Tail(s)) /\ Len(s) \in Nat \ {0} /\ Len(Tail(s)) = Len(s) - 1 /\ Head(s) = s[1]
         /\ \A i \in 1..Len(Tail(s)) : Tail(s)[i] = s[i + 1]
<1> DEFINE t == Tail(s)
<1>1. s \in Seq(ToSet(s))
  BY DEF IsSeq
<1>2. /\ t \in Seq(ToSet(s)) /\ Len(t) = Len(s) - 1 /\ Len(s) \in Nat \ {0} /\ Head(s) = s[1]
      /\ \A i \in 1..Len(t) : t[i] = s[i + 1]
  BY <1>1, HeadTailProperties, EmptySeq
<1> HIDE DEF t
<1>3. DOMAIN t = 1..Len(t) /\ t = [i \in 1..Len(t) |-> t[i]] /\ Len(t) \in Nat
  BY <1>2, LenProperties
<1>4. IsSeq(t)
  BY <1>3, MakeSeq
<1> QED
  BY <1>2, <1>4 DEF t

(* What is on the wire: a message without the fields that only the         *)
(* receiving end sets.                                                     *)
WireFields == ControllerFields \ {"connection", "session"}

OnWire(m) == IsMessage(m) /\ DOMAIN m \subseteq WireFields

LEMMA FrameFacts ==
  ASSUME NEW m, OnWire(m)
  PROVE  /\ Frame(m) = [size |-> Frame(m).size, fields |-> Frame(m).fields]
         /\ Frame(m).fields = Serialize(ControllerProto, m)
         /\ IsSeq(Frame(m).fields) /\ Frame(m).size = Len(Frame(m).fields)
         /\ Parse(New, Frame(m).fields).ok /\ Parse(New, Frame(m).fields).message = m
<1> DEFINE bytes == Serialize(ControllerProto, m)
<1>1. IsMessage(m) /\ DOMAIN m \subseteq ToSet(ControllerProto) /\ IsClass(ControllerProto)
  BY ControllerClass DEF OnWire, WireFields
<1>2. Parse(New, bytes).ok /\ Parse(New, bytes).message = m /\ ByteSize(ControllerProto, m) = Len(bytes)
  BY <1>1, ReadBack, SizeOf
<1>3. IsSeq(bytes)
  <2>1. PICK n \in Nat : DOMAIN ControllerProto = 1..n
    BY <1>1 DEF IsClass
  <2>2. bytes = Write(ControllerProto, m)
    BY <1>1, OfItsClass
  <2>3. PICK k \in Nat : DOMAIN bytes = 1..k
    BY <2>1, <2>2, Written
  <2>4. bytes = [i \in DOMAIN bytes |-> bytes[i]]
    BY <2>2 DEF Write
  <2> QED
    BY <2>3, <2>4, MakeSeq
<1>4. Frame(m) = [size |-> ByteSize(ControllerProto, m), fields |-> bytes]
  BY DEF Frame
<1> HIDE DEF bytes
<1> QED
  BY <1>2, <1>3, <1>4 DEF bytes

(* What is left of a request after it was cut: it does not have its last   *)
(* field.                                                                  *)
IsCut(bytes) ==
  \E n \in Nat \ {0} :
    /\ DOMAIN bytes = 1..n /\ bytes = [i \in 1..n |-> bytes[i]]
    /\ bytes[n] = Cut
    /\ \A j \in 1..n - 1 : bytes[j][1] # "full_service_name"

LEMMA CutFacts ==
  ASSUME NEW bytes, IsCut(bytes), NEW ch
  PROVE  /\ IsSeq(bytes) /\ Last(bytes) = Cut
         /\ Get(Received(ch, bytes), "full_service_name") = ""
<1>1. PICK n \in Nat \ {0} :
        /\ DOMAIN bytes = 1..n /\ bytes = [i \in 1..n |-> bytes[i]]
        /\ bytes[n] = Cut
        /\ \A j \in 1..n - 1 : bytes[j][1] # "full_service_name"
  BY DEF IsCut
<1>2. IsSeq(bytes) /\ Len(bytes) = n
  BY <1>1, MakeSeq
<1>3. \A i \in Readable(bytes) : i \in 1..n - 1
  BY <1>1 DEF Readable
<1> DEFINE m == Parse(New, bytes).message
<1>4. DOMAIN m = DOMAIN Clear(New) \cup {bytes[i][1] : i \in Readable(bytes)}
  BY DEF Parse, Merge
<1>5. "full_service_name" \notin DOMAIN m
  BY <1>1, <1>3, <1>4, NewFacts
<1> HIDE DEF m
<1>6. Get(m, "full_service_name") = ""
  BY <1>5 DEF Get, Has, Default
<1>7. "full_service_name" # "connection"
  OBVIOUS
<1> DEFINE v == Set(Get(m, "connection"), "id", ch)
<1> HIDE DEF v
<1>8. Get(Set(m, "connection", v), "full_service_name") = ""
  <2>0. IsSet(Set(m, "connection", v), m, "connection", v)
    BY SetFacts
  <2>1. \A g : g # "connection" => Get(Set(m, "connection", v), g) = Get(m, g)
    BY <2>0 DEF IsSet
  <2>2. Get(Set(m, "connection", v), "full_service_name") = Get(m, "full_service_name")
    BY <1>7, <2>1
  <2> QED
    BY <1>6, <2>2
<1>9. Received(ch, bytes) = Set(m, "connection", Set(Get(m, "connection"), "id", ch))
  BY DEF Received, m
<1> QED
  BY <1>1, <1>2, <1>8, <1>9 DEF Last, v

(* A request for c under the id.                                           *)
RequestFields == {"full_service_name", "method_name", "stub", "message", "transmit_id"}

LEMMA RequestFacts ==
  ASSUME NEW c, NEW id
  PROVE  /\ OnWire(Request(c, id)) /\ DOMAIN Request(c, id) = RequestFields
         /\ Request(c, id)["full_service_name"] = c /\ Request(c, id)["method_name"] = Method[c]
         /\ Request(c, id)["stub"] = TRUE /\ Request(c, id)["transmit_id"] = id
         /\ Request(c, id)["message"] = Serialize(RequestPrototype(Method[c]), RequestOf(c))
         /\ \A f : f \notin RequestFields => Get(Request(c, id), f) = Default(f)
<1> DEFINE r == Request(c, id)
<1>1. /\ DOMAIN r = RequestFields /\ IsMessage(r)
      /\ r["full_service_name"] = c /\ r["method_name"] = Method[c]
      /\ r["stub"] = TRUE /\ r["transmit_id"] = id
      /\ r["message"] = Serialize(RequestPrototype(Method[c]), RequestOf(c))
  BY DEF Request, RequestFields, IsMessage
<1>2. RequestFields \subseteq WireFields
  BY DEF RequestFields, WireFields, ControllerFields
<1> HIDE DEF r
<1>3. \A f : f \notin RequestFields => Get(r, f) = Default(f)
  BY <1>1 DEF Get, Has
<1> QED
  BY <1>1, <1>2, <1>3 DEF r, OnWire

LEMMA RequestOfFacts ==
  ASSUME NEW c
  PROVE  /\ IsMessage(RequestOf(c)) /\ DOMAIN RequestOf(c) = {"message"}
         /\ Parse(New, Serialize(RequestPrototype(Method[c]), RequestOf(c))).ok
         /\ Parse(New, Serialize(RequestPrototype(Method[c]), RequestOf(c))).message = RequestOf(c)
<1>1. IsMessage(RequestOf(c)) /\ DOMAIN RequestOf(c) = {"message"}
  BY SetNewFacts DEF RequestOf
<1>2. /\ IsClass(RequestPrototype(Method[c]))
      /\ DOMAIN RequestOf(c) \subseteq ToSet(RequestPrototype(Method[c]))
  BY <1>1, PrototypeClasses
<1> QED
  BY <1>1, <1>2, ReadBack

Asks(frame, c) == \E id \in Nat : frame = Frame(Request(c, id))

LEMMA CutSeq ==
  ASSUME NEW bytes, IsSeq(bytes), NEW n \in Nat, n <= Len(bytes),
         \A k \in 1..n : bytes[k][1] # "full_service_name"
  PROVE  IsCut(Append(SubSeq(bytes, 1, n), Cut))
<1> DEFINE first == SubSeq(bytes, 1, n)
           cut == Append(first, Cut)
<1>1. /\ first \in Seq(ToSet(bytes)) /\ Len(first) = n
      /\ \A i \in 1..n : first[i] = bytes[i]
  <2>1. \A i \in 1..n : bytes[i] \in ToSet(bytes)
    BY SeqFacts
  <2>2. 1 \in Int /\ n \in Int
    OBVIOUS
  <2>3. /\ first \in Seq(ToSet(bytes)) /\ Len(first) = IF 1 <= n THEN n - 1 + 1 ELSE 0
        /\ \A i \in 1..n - 1 + 1 : first[i] = bytes[1 + i - 1]
    BY <2>1, <2>2, SubSeqProperties
  <2> HIDE DEF first
  <2> QED
    BY <2>3
<1> HIDE DEF first
<1>2. DOMAIN first = 1..n /\ first = [i \in 1..n |-> first[i]]
  BY <1>1, LenProperties
<1>3. IsSeq(first)
  BY <1>2, MakeSeq
<1>4. IsSeq(cut) /\ Len(cut) = n + 1 /\ cut[n + 1] = Cut /\ \A i \in 1..n : cut[i] = first[i]
  BY <1>1, <1>3, AppendFacts
<1> HIDE DEF cut
<1>5. DOMAIN cut = 1..n + 1 /\ cut = [i \in 1..n + 1 |-> cut[i]]
  BY <1>4, LenProperties DEF IsSeq
<1>6. \A j \in 1..(n + 1) - 1 : cut[j][1] # "full_service_name"
  BY <1>1, <1>4
<1>7. n + 1 \in Nat \ {0}
  OBVIOUS
<1>8. IsCut(cut)
  BY <1>4, <1>5, <1>6, <1>7 DEF IsCut
<1> QED
  BY <1>8 DEF cut, first

LEMMA CutAgain ==
  ASSUME NEW bytes, IsCut(bytes), NEW n \in 0..Len(bytes) - 1
  PROVE  IsCut(Append(SubSeq(bytes, 1, n), Cut))
<1>1. PICK q \in Nat \ {0} :
        /\ DOMAIN bytes = 1..q /\ bytes = [i \in 1..q |-> bytes[i]]
        /\ \A j \in 1..q - 1 : bytes[j][1] # "full_service_name"
  BY DEF IsCut
<1>2. IsSeq(bytes) /\ Len(bytes) = q
  BY <1>1, MakeSeq
<1>3. n \in Nat /\ n <= Len(bytes) /\ \A k \in 1..n : bytes[k][1] # "full_service_name"
  BY <1>1, <1>2
<1> QED
  BY <1>2, <1>3, CutSeq

(* The request that is cut anywhere lacks the name of its service.         *)
LEMMA CutWhole ==
  ASSUME NEW c, NEW id,
         NEW n \in 0..Len(Frame(Request(c, id)).fields) - 1
  PROVE  IsCut(Append(SubSeq(Frame(Request(c, id)).fields, 1, n), Cut))
<1> DEFINE r == Request(c, id)
           bytes == Frame(r).fields
           P == Present(ControllerProto, r)
           card == Cardinality(P)
           cut == Append(SubSeq(bytes, 1, n), Cut)
<1>1. /\ OnWire(r) /\ DOMAIN r \subseteq ToSet(ControllerProto)
      /\ bytes = Serialize(ControllerProto, r) /\ IsSeq(bytes)
  <2>1. OnWire(r)
    BY RequestFacts
  <2> QED
    BY <2>1, FrameFacts, ControllerClass DEF OnWire, WireFields
<1>2. DOMAIN ControllerProto = 1..11 /\ ControllerProto[9] = "full_service_name"
      /\ ControllerProto[10] = "connection" /\ ControllerProto[11] = "session"
  BY DEF ControllerProto
<1>3. bytes = Write(ControllerProto, r)
  BY <1>1, ControllerClass, OfItsClass
<1> HIDE DEF bytes, r, cut
<1>4. PICK at : /\ Places(at, P)
                /\ \A k \in 1..card : bytes[k] = <<ControllerProto[at[k]], r[ControllerProto[at[k]]]>>
  <2>1. PICK q \in Nat : DOMAIN ControllerProto = 1..q
    BY ControllerClass DEF IsClass
  <2>2. \E at : /\ Places(at, P)
                /\ \A k \in 1..card : Write(ControllerProto, r)[k]
                                       = <<ControllerProto[at[k]], r[ControllerProto[at[k]]]>>
    BY <2>1, Written
  <2> QED
    BY <1>3, <2>2
<1>5. card \in Nat /\ DOMAIN bytes = 1..card /\ Len(bytes) = card
  BY <1>1, <1>2, <1>3, Written, SeqFacts
<1>6. P \in SUBSET (1..9)
  <2>1. \A i \in P : i \in 1..11 /\ ControllerProto[i] \in DOMAIN r
    BY <1>2 DEF Present, Has
  <2>2. "connection" \notin DOMAIN r /\ "session" \notin DOMAIN r
    BY <1>1 DEF OnWire, WireFields
  <2>3. \A i \in P : i # 10 /\ i # 11
    BY <1>2, <2>1, <2>2
  <2> HIDE DEF P
  <2> QED
    BY <2>1, <2>3
<1> HIDE DEF P, card
<1>7. \A k \in 1..card : at[k] \in P /\ RankOf(P, at[k]) = k
  BY <1>4 DEF Places, card
<1>8. ASSUME NEW k \in 1..card - 1 PROVE bytes[k][1] # "full_service_name"
  <2>1. k \in 1..card /\ k # card
    BY <1>5
  <2>2. at[k] \in P /\ RankOf(P, at[k]) = k
    BY <1>7, <2>1
  <2>3. at[k] # 9
    <3> SUFFICES ASSUME at[k] = 9 PROVE FALSE
      OBVIOUS
    <3>0. \A j \in P : j <= 9
      BY <1>6
    <3>1. {j \in P : j <= 9} = P
      BY <3>0
    <3>2. RankOf(P, 9) = card
      BY <3>1 DEF RankOf, card
    <3> QED
      BY <2>1, <2>2, <3>2
  <2>4. bytes[k][1] = ControllerProto[at[k]]
    BY <1>4, <2>1
  <2>5. ControllerProto[at[k]] # ControllerProto[9]
    <3>0. at[k] \in 1..9
      BY <1>6, <2>2
    <3>1. at[k] \in 1..11 /\ 9 \in 1..11
      BY <3>0
    <3>2. PICK q \in Nat : /\ DOMAIN ControllerProto = 1..q
                           /\ \A i, j \in 1..q : ControllerProto[i] = ControllerProto[j] => i = j
      BY ControllerClass DEF IsClass
    <3> QED
      BY <1>2, <2>3, <3>1, <3>2
  <2> QED
    BY <1>2, <2>4, <2>5
<1>9. n \in Int /\ 0 <= n /\ n <= card - 1
  BY <1>5 DEF bytes, r
<1>10. \A k \in 1..n : bytes[k][1] # "full_service_name"
  BY <1>5, <1>8, <1>9
<1>11. IsCut(cut)
  <2>1. n \in Nat /\ n <= Len(bytes)
    BY <1>5, <1>9
  <2> QED
    BY <1>1, <1>10, <2>1, CutSeq DEF cut
<1> QED
  BY <1>11 DEF cut, bytes, r

(* What Handle has read of a whole frame.                                  *)
LEMMA ReceivedFacts ==
  ASSUME NEW m, OnWire(m), NEW ch
  PROVE  LET r == Received(ch, Frame(m).fields)
         IN /\ IsMessage(r) /\ DOMAIN r = DOMAIN m \cup {"connection"}
            /\ r["connection"] = Set(New, "id", ch)
            /\ \A f : f # "connection" =>
                 /\ Has(r, f) <=> Has(m, f)
                 /\ Get(r, f) = Get(m, f)
                 /\ Has(m, f) => r[f] = m[f]
<1> DEFINE v == Set(New, "id", ch)
<1>1. Parse(New, Frame(m).fields).message = m
  BY FrameFacts
<1>2. Get(m, "connection") = New
  BY DEF OnWire, WireFields, Get, Has, Default
<1>3. Received(ch, Frame(m).fields) = Set(m, "connection", v)
  BY <1>1, <1>2 DEF Received
<1> HIDE DEF v
<1>4. IsSet(Set(m, "connection", v), m, "connection", v)
  BY SetFacts
<1> QED
  BY <1>3, <1>4 DEF v, IsSet

LEMMA AsksOne ==
  ASSUME NEW frame, NEW c, NEW d, Asks(frame, c), Asks(frame, d)
  PROVE  c = d
<1>1. PICK i \in Nat : frame = Frame(Request(c, i))
  BY DEF Asks
<1>2. PICK j \in Nat : frame = Frame(Request(d, j))
  BY DEF Asks
<1>3. Parse(New, frame.fields).message = Request(c, i)
  BY <1>1, RequestFacts, FrameFacts
<1>4. Parse(New, frame.fields).message = Request(d, j)
  BY <1>2, RequestFacts, FrameFacts
<1>5. Request(c, i)["full_service_name"] = c /\ Request(d, j)["full_service_name"] = d
  BY RequestFacts
<1> QED
  BY <1>3, <1>4, <1>5

(* What a Controller may have.                                             *)
ConnectionFields == {"id", "host", "port"}

InController(p) ==
  /\ IsMessage(p) /\ DOMAIN p \subseteq ControllerFields \ {"session"}
  /\ DOMAIN Get(p, "connection") \subseteq ConnectionFields

LEMMA InControllerNew == InController(New)
BY NewFacts DEF InController, Get, Default

LEMMA InControllerWire ==
  ASSUME NEW m, OnWire(m)
  PROVE  InController(m)
<1>1. "connection" \notin DOMAIN m /\ "session" \notin DOMAIN m /\ DOMAIN m \subseteq ControllerFields
  BY DEF OnWire, WireFields
<1>2. DOMAIN Get(m, "connection") = {}
  BY <1>1, NewFacts DEF Get, Has, Default
<1> QED
  BY <1>1, <1>2 DEF InController, OnWire

LEMMA InControllerReceived ==
  ASSUME NEW m, OnWire(m), NEW ch
  PROVE  InController(Received(ch, Frame(m).fields))
<1> DEFINE r == Received(ch, Frame(m).fields)
<1>1. /\ IsMessage(r) /\ DOMAIN r = DOMAIN m \cup {"connection"}
      /\ r["connection"] = Set(New, "id", ch)
  BY ReceivedFacts
<1> HIDE DEF r
<1>2. DOMAIN r \subseteq ControllerFields \ {"session"}
  BY <1>1 DEF OnWire, WireFields, ControllerFields
<1>3. DOMAIN Set(New, "id", ch) = {"id"}
  BY SetNewFacts
<1>4. DOMAIN Get(r, "connection") \subseteq ConnectionFields
  BY <1>1, <1>3 DEF Get, Has, ConnectionFields
<1>5. InController(r)
  BY <1>1, <1>2, <1>4 DEF InController
<1> QED
  BY <1>5 DEF r

LEMMA InControllerSet ==
  ASSUME NEW p, InController(p), NEW f \in WireFields, NEW v
  PROVE  InController(Set(p, f, v))
<1>1. f # "connection" /\ f \in ControllerFields \ {"session"}
  BY DEF WireFields
<1> DEFINE q == Set(p, f, v)
<1>2. IsSet(q, p, f, v)
  BY SetFacts
<1> HIDE DEF q
<1>3. IsMessage(q) /\ DOMAIN q = DOMAIN p \cup {f} /\ Get(q, "connection") = Get(p, "connection")
  BY <1>1, <1>2 DEF IsSet
<1>4. InController(q)
  BY <1>1, <1>3 DEF InController
<1> QED
  BY <1>4 DEF q

(* q is p but for some fields.                                             *)
SameBut(q, p, fields) ==
  \A f : f \notin fields => /\ Has(q, f) <=> Has(p, f)
                            /\ Get(q, f) = Get(p, f)
                            /\ Has(p, f) => q[f] = p[f]

LEMMA InControllerFailed ==
  ASSUME NEW p, InController(p), NEW reason
  PROVE  /\ InController(SetFailed(p, reason)) /\ Get(SetFailed(p, reason), "failed") = TRUE
         /\ SameBut(SetFailed(p, reason), p, {"failed", "error_text"})
<1> DEFINE q == Set(p, "failed", TRUE)
           r == Set(q, "error_text", reason)
<1>1. "failed" \in WireFields /\ "error_text" \in WireFields
  BY DEF WireFields, ControllerFields
<1>2. InController(q)
  BY <1>1, InControllerSet
<1>3. InController(r)
  BY <1>1, <1>2, InControllerSet
<1>4. IsSet(q, p, "failed", TRUE) /\ IsSet(r, q, "error_text", reason)
  BY SetFacts
<1>5. SetFailed(p, reason) = r
  BY DEF SetFailed
<1> HIDE DEF q, r
<1>6. Get(r, "failed") = TRUE
  BY <1>4 DEF IsSet
<1>7. SameBut(r, p, {"failed", "error_text"})
  BY <1>4 DEF IsSet, SameBut
<1> QED
  BY <1>3, <1>5, <1>6, <1>7

LEMMA InControllerCanceled ==
  ASSUME NEW p, InController(p)
  PROVE  /\ InController(StartCancel(p)) /\ Get(StartCancel(p), "is_canceled") = TRUE
         /\ SameBut(StartCancel(p), p, {"is_canceled"})
<1> DEFINE q == StartCancel(p)
<1>1. "is_canceled" \in WireFields
  BY DEF WireFields, ControllerFields
<1>2. IsSet(q, p, "is_canceled", TRUE)
  BY SetFacts DEF StartCancel
<1>3. InController(q)
  BY <1>1, InControllerSet DEF StartCancel
<1> HIDE DEF q
<1>4. Get(q, "is_canceled") = TRUE /\ SameBut(q, p, {"is_canceled"})
  BY <1>2 DEF IsSet, SameBut
<1> QED
  BY <1>3, <1>4 DEF q

(* The answer that is made of what a Controller has.                       *)
LEMMA AnswerFacts ==
  ASSUME NEW p, InController(p), NEW response
  PROVE  /\ OnWire(Answer(p, response)) /\ InController(Answer(p, response))
         /\ Get(Answer(p, response), "stub") = FALSE
         /\ \A f : f \notin {"stub", "connection", "message"} =>
              Get(Answer(p, response), f) = Get(p, f)
         /\ ~Get(p, "failed") =>
              /\ Has(Answer(p, response), "message")
              /\ Get(Answer(p, response), "message")
                   = Serialize(ResponsePrototype(Get(p, "method_name")), response)
<1> DEFINE q == ClearField(p, "connection")
           cleared == Set(q, "stub", FALSE)
           body == Serialize(ResponsePrototype(Get(p, "method_name")), response)
           full == Set(cleared, "message", body)
<1>1. /\ IsMessage(q) /\ DOMAIN q = DOMAIN p \ {"connection"}
      /\ \A f : f # "connection" => Get(q, f) = Get(p, f)
  BY ClearFieldFacts
<1> HIDE DEF q, body
<1>s. IsSet(cleared, q, "stub", FALSE) /\ IsSet(full, cleared, "message", body)
  BY SetFacts
<1> HIDE DEF cleared, full
<1>2. /\ IsMessage(cleared) /\ DOMAIN cleared = DOMAIN q \cup {"stub"}
      /\ Get(cleared, "stub") = FALSE
      /\ \A f : f # "stub" => Get(cleared, f) = Get(q, f)
  BY <1>s DEF IsSet
<1>3. /\ IsMessage(full) /\ DOMAIN full = DOMAIN cleared \cup {"message"}
      /\ Has(full, "message") /\ Get(full, "message") = body
      /\ \A f : f # "message" => Get(full, f) = Get(cleared, f)
  BY <1>s DEF IsSet
<1>4. Answer(p, response) = IF Get(p, "failed") THEN cleared ELSE full
  BY DEF Answer, cleared, full, q, body
<1>5. OnWire(cleared) /\ OnWire(full)
  BY <1>1, <1>2, <1>3 DEF OnWire, WireFields, ControllerFields, InController
<1>6. InController(cleared) /\ InController(full)
  BY <1>5, InControllerWire
<1>7. Get(full, "stub") = FALSE
  BY <1>2, <1>3
<1>8. \A f : f \notin {"stub", "connection", "message"} =>
        Get(cleared, f) = Get(p, f) /\ Get(full, f) = Get(p, f)
  BY <1>1, <1>2, <1>3
<1> QED
  BY <1>2, <1>3, <1>4, <1>5, <1>6, <1>7, <1>8 DEF body

-----------------------------------------------------------------------------
(* The types                                                               *)

RequestFrame(frame) ==
  /\ frame = [size |-> frame.size, fields |-> frame.fields]
  /\ (\E c \in Calls : Asks(frame, c)) \/ IsCut(frame.fields)

AnswerFrame(frame) == \E m : OnWire(m) /\ frame = Frame(m)

Requests(q) == IsSeq(q) /\ \A i \in 1..Len(q) : RequestFrame(q[i])

Answers(q) == IsSeq(q) /\ \A i \in 1..Len(q) : AnswerFrame(q[i])

ServerOK(s) == s = [ch \in Channels |-> s[ch]] /\ \A ch \in Channels : Requests(s[ch])

ClientOK(s) == s = [ch \in Channels |-> s[ch]] /\ \A ch \in Channels : Answers(s[ch])

(* The ids of a that is waited for, of the first n.                        *)
Ids(a, n) == IsMessage(a) /\ DOMAIN a \subseteq 0..n - 1 /\ \A id \in DOMAIN a : a[id] \in Calls

IdsOK(a, t) ==
  /\ t \in [Channels -> Nat]
  /\ a = [ch \in Channels |-> a[ch]] /\ \A ch \in Channels : Ids(a[ch], t[ch])

AllObjects == Objects \cup {"buffer", "callback", "dangling callback"}

Holders == {"none", "service", "back", "write"}

ProtoOK(p) ==
  /\ p = [ch \in Channels |-> [c \in Calls |-> p[ch][c]]]
  /\ \A ch \in Channels, c \in Calls : InController(p[ch][c])

ObjectsOK(h, p, o) ==
  /\ h \in [Channels -> [Calls -> SUBSET AllObjects]]
  /\ ProtoOK(p)
  /\ o \in [Channels -> [Calls -> Holders]]

States == {"unsent", "waiting", "replied", "canceled"}

ResultOK(r) == r = [c \in Calls |-> r[c]] /\ \A c \in Calls : r[c].state \in States

SetTypes ==
  /\ open \subseteq Channels
  /\ redirect \in BOOLEAN
  /\ router \in {"local", "back", "default"}
  /\ outcome \in [Calls -> {"none", "ok", "failed"}]

TypeInv ==
  /\ SetTypes
  /\ ServerOK(toServer)
  /\ ClientOK(toClient)
  /\ IdsOK(asyncResult, transmitId)
  /\ ObjectsOK(heap, proto, holder)
  /\ ResultOK(result)

LEMMA TypesImply == TypeInv => TypeOK
<1> SUFFICES ASSUME TypeInv PROVE TypeOK
  OBVIOUS
<1>1. ASSUME NEW ch \in Channels, NEW i \in DOMAIN toServer[ch]
      PROVE  LET frame == toServer[ch][i]
             IN frame.size = Len(frame.fields) \/ Last(frame.fields) = Cut
  <2>1. RequestFrame(toServer[ch][i])
    BY SeqFacts DEF TypeInv, ServerOK, Requests
  <2>2. CASE IsCut(toServer[ch][i].fields)
    BY <2>2, CutFacts
  <2>3. CASE \E c \in Calls : Asks(toServer[ch][i], c)
    <3>1. PICK c \in Calls, id \in Nat : toServer[ch][i] = Frame(Request(c, id))
      BY <2>3 DEF Asks
    <3>2. OnWire(Request(c, id))
      BY RequestFacts
    <3> QED
      BY <3>1, <3>2, FrameFacts
  <2> QED
    BY <2>1, <2>2, <2>3 DEF RequestFrame
<1>2. ASSUME NEW ch \in Channels, NEW i \in DOMAIN toClient[ch]
      PROVE  toClient[ch][i].size = Len(toClient[ch][i].fields)
  <2>1. AnswerFrame(toClient[ch][i])
    BY SeqFacts DEF TypeInv, ClientOK, Answers
  <2> QED
    BY <2>1, FrameFacts DEF AnswerFrame
<1>3. ASSUME NEW ch \in Channels, NEW c \in Calls
      PROVE  /\ heap[ch][c] \subseteq Objects \cup {"buffer", "callback", "dangling callback"}
             /\ holder[ch][c] \in {"none", "service", "back", "write"}
             /\ DOMAIN proto[ch][c] \subseteq ToSet(ControllerProto)
             /\ DOMAIN Get(proto[ch][c], "connection") \subseteq ToSet(ConnectionProto)
             /\ DOMAIN Get(proto[ch][c], "session") \subseteq ToSet(SessionProto)
  <2>1. InController(proto[ch][c])
    BY DEF TypeInv, ObjectsOK, ProtoOK
  <2>2. DOMAIN proto[ch][c] \subseteq ToSet(ControllerProto)
    BY <2>1, ControllerClass DEF InController
  <2>3. ConnectionFields = ToSet(ConnectionProto)
    <3>1. ConnectionProto[1] = "id" /\ ConnectionProto[2] = "host" /\ ConnectionProto[3] = "port"
      BY DEF ConnectionProto
    <3>2. DOMAIN ConnectionProto = 1..3
      BY DEF ConnectionProto
    <3>3. 1..3 = {1, 2, 3}
      OBVIOUS
    <3> QED
      BY <3>1, <3>2, <3>3 DEF ToSet, ConnectionFields
  <2>4. Get(proto[ch][c], "session") = New
    BY <2>1 DEF InController, Get, Has, Default
  <2>5. heap[ch][c] \subseteq AllObjects /\ holder[ch][c] \in Holders
    BY DEF TypeInv, ObjectsOK
  <2> QED
    BY <2>1, <2>2, <2>3, <2>4, <2>5, NewFacts DEF InController, AllObjects, Holders
<1>4. ASSUME NEW ch \in Channels
      PROVE  /\ transmitId[ch] \in Nat
             /\ DOMAIN asyncResult[ch] \subseteq 0..transmitId[ch] - 1
             /\ Waiting(ch) \subseteq Calls
  BY DEF TypeInv, IdsOK, Ids, Waiting
<1>5. /\ SetTypes
      /\ \A c \in Calls : result[c].state \in {"unsent", "waiting", "replied", "canceled"}
  BY DEF TypeInv, ResultOK, States
<1> QED
  BY <1>1, <1>2, <1>3, <1>4, <1>5 DEF TypeOK, SetTypes

LEMMA InitTypes == Init => TypeInv
<1> SUFFICES ASSUME Init PROVE TypeInv
  OBVIOUS
<1>1. ServerOK(toServer) /\ ClientOK(toClient)
  BY EmptyIsSeq DEF Init, ServerOK, ClientOK, Requests, Answers
<1>2. IdsOK(asyncResult, transmitId)
  BY NewFacts DEF Init, IdsOK, Ids
<1>3. ObjectsOK(heap, proto, holder)
  BY InControllerNew DEF Init, ObjectsOK, ProtoOK, Holders
<1>4. ResultOK(result)
  BY DEF Init, ResultOK, States, Result
<1>5. SetTypes
  BY DEF Init, SetTypes
<1> QED
  BY <1>1, <1>2, <1>3, <1>4, <1>5 DEF TypeInv

LEMMA QueueFacts ==
  ASSUME NEW q, NEW e
  PROVE  /\ Requests(q) /\ RequestFrame(e) => Requests(Append(q, e))
         /\ Answers(q) /\ AnswerFrame(e) => Answers(Append(q, e))
         /\ Requests(q) /\ q # <<>> => Requests(Tail(q)) /\ RequestFrame(Head(q))
         /\ Answers(q) /\ q # <<>> => Answers(Tail(q)) /\ AnswerFrame(Head(q))
         /\ Requests(<<>>) /\ Answers(<<>>)
<1>1. ASSUME IsSeq(q)
      PROVE  /\ IsSeq(Append(q, e)) /\ Len(Append(q, e)) = Len(q) + 1 /\ Len(q) \in Nat
             /\ \A i \in 1..Len(q) + 1 : Append(q, e)[i] = e \/ (i \in 1..Len(q) /\ Append(q, e)[i] = q[i])
  <2>1. /\ IsSeq(Append(q, e)) /\ Len(Append(q, e)) = Len(q) + 1 /\ Append(q, e)[Len(q) + 1] = e
        /\ \A i \in 1..Len(q) : Append(q, e)[i] = q[i]
    BY <1>1, AppendFacts
  <2>2. Len(q) \in Nat
    BY <1>1, SeqFacts
  <2>3. \A i \in 1..Len(q) + 1 : i = Len(q) + 1 \/ i \in 1..Len(q)
    BY <2>2
  <2> QED
    BY <2>1, <2>2, <2>3
<1>2. ASSUME IsSeq(q), q # <<>>
      PROVE  /\ IsSeq(Tail(q)) /\ Head(q) = q[1] /\ 1 \in 1..Len(q)
             /\ \A i \in 1..Len(Tail(q)) : i + 1 \in 1..Len(q) /\ Tail(q)[i] = q[i + 1]
  <2>1. /\ IsSeq(Tail(q)) /\ Len(q) \in Nat \ {0} /\ Len(Tail(q)) = Len(q) - 1 /\ Head(q) = q[1]
        /\ \A i \in 1..Len(Tail(q)) : Tail(q)[i] = q[i + 1]
    BY <1>2, TailFacts
  <2>2. \A i \in 1..Len(q) - 1 : i + 1 \in 1..Len(q)
    BY <2>1
  <2> QED
    BY <2>1, <2>2
<1>3. Requests(q) /\ RequestFrame(e) => Requests(Append(q, e))
  BY <1>1 DEF Requests
<1>4. Answers(q) /\ AnswerFrame(e) => Answers(Append(q, e))
  BY <1>1 DEF Answers
<1>5. Requests(q) /\ q # <<>> => Requests(Tail(q)) /\ RequestFrame(Head(q))
  BY <1>2 DEF Requests
<1>6. Answers(q) /\ q # <<>> => Answers(Tail(q)) /\ AnswerFrame(Head(q))
  BY <1>2 DEF Answers
<1>7. Requests(<<>>) /\ Answers(<<>>)
  BY EmptyIsSeq DEF Requests, Answers
<1> QED
  BY <1>3, <1>4, <1>5, <1>6, <1>7

LEMMA RequestFrames ==
  ASSUME NEW c \in Calls, NEW id \in Nat
  PROVE  RequestFrame(Frame(Request(c, id))) /\ Asks(Frame(Request(c, id)), c)
<1>1. OnWire(Request(c, id))
  BY RequestFacts
<1>2. Asks(Frame(Request(c, id)), c)
  BY DEF Asks
<1> QED
  BY <1>1, <1>2, FrameFacts DEF RequestFrame

LEMMA LineUpdates ==
  ASSUME NEW s, NEW ch \in Channels, NEW q
  PROVE  /\ ServerOK(s) /\ Requests(q) => ServerOK([s EXCEPT ![ch] = q])
         /\ ClientOK(s) /\ Answers(q) => ClientOK([s EXCEPT ![ch] = q])
<1>1. ASSUME s = [d \in Channels |-> s[d]]
      PROVE  /\ [s EXCEPT ![ch] = q] = [d \in Channels |-> [s EXCEPT ![ch] = q][d]]
             /\ \A d \in Channels : [s EXCEPT ![ch] = q][d] = IF d = ch THEN q ELSE s[d]
  BY <1>1
<1>2. ServerOK(s) /\ Requests(q) => ServerOK([s EXCEPT ![ch] = q])
  BY <1>1 DEF ServerOK
<1>3. ClientOK(s) /\ Answers(q) => ClientOK([s EXCEPT ![ch] = q])
  BY <1>1 DEF ClientOK
<1> QED
  BY <1>2, <1>3

LEMMA CallMethodTypes ==
  ASSUME IdsOK(asyncResult, transmitId), NEW ch \in Channels, NEW c \in Calls, NEW sent,
         ServerOK(sent), CallMethod(ch, c, sent)
  PROVE  /\ ServerOK(toServer') /\ IdsOK(asyncResult', transmitId')
         /\ toServer' = [sent EXCEPT ![ch] = Append(@, Frame(Request(c, transmitId[ch])))]
         /\ transmitId' = [transmitId EXCEPT ![ch] = @ + 1]
         /\ transmitId[ch] \in Nat /\ transmitId[ch] \notin DOMAIN asyncResult[ch]
         /\ IsSet(asyncResult'[ch], asyncResult[ch], transmitId[ch], c)
         /\ \A d \in Channels : d # ch => asyncResult'[d] = asyncResult[d]
<1> DEFINE n == transmitId[ch]
           a == Set(asyncResult[ch], n, c)
<1>1. /\ asyncResult' = [asyncResult EXCEPT ![ch] = a]
      /\ transmitId' = [transmitId EXCEPT ![ch] = @ + 1]
      /\ toServer' = [sent EXCEPT ![ch] = Append(@, Frame(Request(c, n)))]
  BY DEF CallMethod
<1>2. n \in Nat /\ Ids(asyncResult[ch], n)
  BY DEF IdsOK
<1>3. IsSet(a, asyncResult[ch], n, c)
  BY SetFacts
<1> HIDE DEF a
<1>4. /\ asyncResult'[ch] = a /\ \A d \in Channels : d # ch => asyncResult'[d] = asyncResult[d]
      /\ asyncResult' = [d \in Channels |-> asyncResult'[d]]
  BY <1>1 DEF IdsOK
<1>5. Ids(a, n + 1)
  <2>1. IsMessage(a) /\ DOMAIN a = DOMAIN asyncResult[ch] \cup {n} /\ a[n] = c
        /\ \A id \in DOMAIN asyncResult[ch] : id # n => a[id] = asyncResult[ch][id]
    BY <1>3 DEF IsSet, Has
  <2>2. DOMAIN a \subseteq 0..(n + 1) - 1
    BY <1>2, <2>1 DEF Ids
  <2>3. \A id \in DOMAIN a : a[id] \in Calls
    BY <1>2, <2>1 DEF Ids
  <2> QED
    BY <2>1, <2>2, <2>3 DEF Ids
<1>6. transmitId' \in [Channels -> Nat] /\ transmitId'[ch] = n + 1
      /\ \A d \in Channels : d # ch => transmitId'[d] = transmitId[d]
  BY <1>1, <1>2 DEF IdsOK
<1>7. IdsOK(asyncResult', transmitId')
  BY <1>4, <1>5, <1>6 DEF IdsOK
<1>8. ServerOK(toServer')
  <2>1. Requests(sent[ch])
    BY DEF ServerOK
  <2>2. Requests(Append(sent[ch], Frame(Request(c, n))))
    BY <1>2, <2>1, RequestFrames, QueueFacts
  <2> QED
    BY <1>1, <2>2, LineUpdates
<1>9. n \notin DOMAIN asyncResult[ch]
  BY <1>2 DEF Ids
<1> QED
  BY <1>1, <1>2, <1>3, <1>4, <1>7, <1>8, <1>9

LEMMA DeleteTypes ==
  ASSUME ObjectsOK(heap, proto, holder), NEW pairs, NEW objects, Delete(pairs, objects)
  PROVE  ObjectsOK(heap', proto', holder')
<1>1. heap' \in [Channels -> [Calls -> SUBSET AllObjects]]
  BY DEF Delete, ObjectsOK
<1>2. holder' \in [Channels -> [Calls -> Holders]]
  BY DEF Delete, ObjectsOK, Holders
<1>3. ProtoOK(proto')
  <2>1. proto' = [ch \in Channels |-> [c \in Calls |-> IF <<ch, c>> \in pairs THEN New ELSE proto[ch][c]]]
    BY DEF Delete
  <2>2. \A ch \in Channels, c \in Calls : proto'[ch][c] = New \/ proto'[ch][c] = proto[ch][c]
    BY <2>1
  <2>3. proto' = [ch \in Channels |-> [c \in Calls |-> proto'[ch][c]]]
    BY <2>1
  <2> QED
    BY <2>2, <2>3, InControllerNew DEF ProtoOK, ObjectsOK
<1> QED
  BY <1>1, <1>2, <1>3 DEF ObjectsOK

(* The objects of one request change.                                      *)
Update(g, ch, c, v) == [g EXCEPT ![ch][c] = v]

LEMMA UpdateFacts ==
  ASSUME NEW g, g = [ch \in Channels |-> [c \in Calls |-> g[ch][c]]],
         NEW ch \in Channels, NEW c \in Calls, NEW v
  PROVE  LET u == Update(g, ch, c, v)
         IN /\ u = [d \in Channels |-> [e \in Calls |-> u[d][e]]]
            /\ u[ch][c] = v
            /\ \A d \in Channels, e \in Calls : d # ch \/ e # c => u[d][e] = g[d][e]
BY DEF Update

LEMMA UpdateTypes ==
  ASSUME NEW h, NEW p, NEW o, ObjectsOK(h, p, o), NEW ch \in Channels, NEW c \in Calls,
         NEW objects \in SUBSET AllObjects, NEW m, InController(m), NEW who \in Holders
  PROVE  ObjectsOK(Update(h, ch, c, objects), Update(p, ch, c, m), Update(o, ch, c, who))
<1>1. Update(h, ch, c, objects) \in [Channels -> [Calls -> SUBSET AllObjects]]
      /\ Update(o, ch, c, who) \in [Channels -> [Calls -> Holders]]
  BY DEF ObjectsOK, Update
<1> DEFINE u == Update(p, ch, c, m)
<1>2. /\ u = [d \in Channels |-> [e \in Calls |-> u[d][e]]] /\ u[ch][c] = m
      /\ \A d \in Channels, e \in Calls : d # ch \/ e # c => u[d][e] = p[d][e]
  BY UpdateFacts DEF ObjectsOK, ProtoOK
<1> HIDE DEF u
<1>3. ProtoOK(u)
  BY <1>2 DEF ProtoOK, ObjectsOK
<1> QED
  BY <1>1, <1>3 DEF ObjectsOK, u

LEMMA ClosureRunTypes ==
  ASSUME ObjectsOK(heap, proto, holder), NEW ch \in Channels, NEW c \in Calls,
         NEW objects \in SUBSET AllObjects, NEW p, InController(p), NEW response,
         NEW answers, ClientOK(answers), TcpClosureRun(ch, c, objects, p, response, answers)
  PROVE  ObjectsOK(heap', proto', holder') /\ ClientOK(toClient')
<1>1. ASSUME Delete({<<ch, c>>}, [heap EXCEPT ![ch][c] = objects]), toClient' = answers
      PROVE  ObjectsOK(heap', proto', holder') /\ ClientOK(toClient')
  BY <1>1, DeleteTypes
<1>2. ASSUME heap' = [heap EXCEPT ![ch][c] = objects \cup {"buffer"}],
             proto' = [proto EXCEPT ![ch][c] = Answer(p, response)],
             holder' = [holder EXCEPT ![ch][c] = "write"],
             toClient' = [answers EXCEPT ![ch] = Append(@, Frame(Answer(p, response)))]
      PROVE  ObjectsOK(heap', proto', holder') /\ ClientOK(toClient')
  <2>1. OnWire(Answer(p, response)) /\ InController(Answer(p, response))
    BY AnswerFacts
  <2>2. AnswerFrame(Frame(Answer(p, response)))
    BY <2>1 DEF AnswerFrame
  <2>3. Answers(Append(answers[ch], Frame(Answer(p, response))))
    BY <2>2, QueueFacts DEF ClientOK
  <2>4. ClientOK(toClient')
    BY <1>2, <2>3, LineUpdates
  <2>5. objects \cup {"buffer"} \in SUBSET AllObjects /\ "write" \in Holders
    BY DEF AllObjects, Holders
  <2>6. ObjectsOK(Update(heap, ch, c, objects \cup {"buffer"}), Update(proto, ch, c, Answer(p, response)),
                  Update(holder, ch, c, "write"))
    BY <2>1, <2>5, UpdateTypes
  <2> QED
    BY <1>2, <2>4, <2>6 DEF Update
<1> QED
  BY <1>1, <1>2 DEF TcpClosureRun

-----------------------------------------------------------------------------
(* What a step of HandleRequest may be                                     *)

(* m is what the request for c under the id has brought to ch.             *)
Brought(ch, c, id, m) ==
  /\ InController(m) /\ DOMAIN m = RequestFields \cup {"connection"}
  /\ \A f \in RequestFields : m[f] = Request(c, id)[f]
  /\ m["connection"] = Set(New, "id", ch)

LEMMA Bringing ==
  ASSUME NEW ch, NEW c, NEW id
  PROVE  Brought(ch, c, id, Received(ch, Frame(Request(c, id)).fields))
<1> DEFINE r == Request(c, id)
           m == Received(ch, Frame(r).fields)
<1>1. OnWire(r) /\ DOMAIN r = RequestFields
  BY RequestFacts
<1>2. InController(m)
  BY <1>1, InControllerReceived
<1>3. /\ DOMAIN m = DOMAIN r \cup {"connection"} /\ m["connection"] = Set(New, "id", ch)
      /\ \A f : f # "connection" => (Has(r, f) => m[f] = r[f])
  BY <1>1, ReceivedFacts
<1>4. \A f \in RequestFields : f # "connection"
  BY DEF RequestFields
<1> HIDE DEF m, r
<1>5. \A f \in RequestFields : m[f] = r[f]
  BY <1>1, <1>3, <1>4 DEF Has
<1>6. DOMAIN m = RequestFields \cup {"connection"}
  BY <1>1, <1>3
<1> QED
  BY <1>2, <1>3, <1>5, <1>6 DEF Brought, m, r

(* The first frame of ch is the request for c under the id.                *)
Handed(ch, c, id, m) ==
  /\ c \in Calls \ Unknown /\ id \in Nat
  /\ toServer[ch] # <<>> /\ Head(toServer[ch]) = Frame(Request(c, id))
  /\ Brought(ch, c, id, m)

LEMMA Handing ==
  ASSUME TypeInv, NEW ch \in Channels, toServer[ch] # <<>>,
         NEW m, m = Received(ch, Head(toServer[ch]).fields), HasService(m)
  PROVE  \E id \in Nat : Handed(ch, Get(m, "full_service_name"), id, m)
<1> DEFINE c == Get(m, "full_service_name")
           frame == Head(toServer[ch])
<1>1. RequestFrame(frame)
  BY QueueFacts DEF TypeInv, ServerOK
<1>2. c \in Calls \ Unknown
  BY DEF HasService
<1>3. c # ""
  BY <1>2, CallAssumption
<1>4. ~IsCut(frame.fields)
  BY <1>3, CutFacts
<1>5. PICK d \in Calls, id \in Nat : frame = Frame(Request(d, id))
  BY <1>1, <1>4 DEF RequestFrame, Asks
<1>6. Brought(ch, d, id, m)
  BY <1>5, Bringing
<1>7. c = d
  <2>1. Request(d, id)["full_service_name"] = d
    BY RequestFacts
  <2> QED
    BY <1>6, <2>1 DEF Brought, RequestFields, Get, Has
<1> QED
  BY <1>2, <1>5, <1>6, <1>7 DEF Handed

LEMMA HandleRequestCases ==
  ASSUME TypeInv, NEW ch \in Channels, HandleRequest(ch)
  PROVE  LET rest == [toServer EXCEPT ![ch] = Tail(@)]
         IN /\ ch \in open /\ toServer[ch] # <<>>
            /\ UNCHANGED <<open, redirect, outcome, result, cuts, redirects>>
            /\ router' \in {router, RouterChannel}
            /\ \/ /\ toServer' = rest
                  /\ UNCHANGED <<toClient, asyncResult, transmitId, requestVars>>
               \/ \E c \in Calls, id \in Nat : \E m :
                    /\ Handed(ch, c, id, m)
                    /\ \/ \E at \in OutOfMemoryAt : Busy(ch, c, rest, at)
                       \/ Serve(ch, c, m, rest)
                       \/ \E reason : Refuse(ch, c, m, rest, reason)
                       \/ ch # Back /\ Forward(ch, c, m, rest)
<1> DEFINE rest == [toServer EXCEPT ![ch] = Tail(@)]
           m == Received(ch, Head(toServer[ch]).fields)
           c == Get(m, "full_service_name")
           to == IF ch = Back THEN "local" ELSE RouterChannel
<1>1. /\ ch \in open /\ toServer[ch] # <<>>
      /\ UNCHANGED <<open, redirect, outcome, result, cuts, redirects>>
  BY DEF HandleRequest
<1>2. \/ /\ ~Get(m, "stub") \/ ~HasService(m)
         /\ toServer' = rest
         /\ UNCHANGED <<toClient, asyncResult, transmitId, requestVars, router>>
      \/ /\ Get(m, "stub") /\ HasService(m)
         /\ \E at \in OutOfMemoryAt : Busy(ch, c, rest, at)
         /\ UNCHANGED router
      \/ /\ Get(m, "stub") /\ HasService(m)
         /\ router' = IF ch = Back THEN router ELSE RouterChannel
         /\ CASE to = "local" /\ c \notin NotInserted \cup NotOverridden -> Serve(ch, c, m, rest)
              [] to = "local" /\ c \in NotInserted ->
                   Refuse(ch, c, m, rest, "service not implement")
              [] to = "local" /\ c \in NotOverridden \ NotInserted ->
                   Refuse(ch, c, m, rest, NotImplemented(Method[c]))
              [] to = "default" -> NothingToBeDone(ch, c, m, rest)
              [] to = "back" -> Forward(ch, c, m, rest)
  BY DEF HandleRequest
<1>3. ASSUME HasService(m)
      PROVE  c \in Calls /\ \E id \in Nat : Handed(ch, c, id, m)
  <2>1. \E id \in Nat : Handed(ch, c, id, m)
    BY <1>1, <1>3, Handing
  <2> QED
    BY <2>1 DEF Handed
<1>4. RouterChannel \in {"local", "back", "default"}
  BY DEF RouterChannel, TypeInv, SetTypes
<1> HIDE DEF m, c, rest
<1>5. to \in {"local", "back", "default"} /\ (to = "back" => ch # Back)
  BY <1>4
<1> HIDE DEF to
<1>6. router' \in {router, RouterChannel}
  BY <1>2
<1>7. CASE /\ ~Get(m, "stub") \/ ~HasService(m)
           /\ toServer' = rest
           /\ UNCHANGED <<toClient, asyncResult, transmitId, requestVars, router>>
  BY <1>1, <1>6, <1>7 DEF rest
<1>8. ASSUME HasService(m),
             \/ \E at \in OutOfMemoryAt : Busy(ch, c, rest, at)
             \/ Serve(ch, c, m, rest)
             \/ \E reason : Refuse(ch, c, m, rest, reason)
             \/ ch # Back /\ Forward(ch, c, m, rest)
      PROVE  \E d \in Calls, id \in Nat : \E l :
               /\ Handed(ch, d, id, l)
               /\ \/ \E at \in OutOfMemoryAt : Busy(ch, d, rest, at)
                  \/ Serve(ch, d, l, rest)
                  \/ \E reason : Refuse(ch, d, l, rest, reason)
                  \/ ch # Back /\ Forward(ch, d, l, rest)
  BY <1>3, <1>8
<1>9. CASE /\ Get(m, "stub") /\ HasService(m)
           /\ \E at \in OutOfMemoryAt : Busy(ch, c, rest, at)
           /\ UNCHANGED router
  BY <1>1, <1>6, <1>8, <1>9 DEF rest
<1>10. CASE /\ Get(m, "stub") /\ HasService(m)
            /\ router' = IF ch = Back THEN router ELSE RouterChannel
            /\ CASE to = "local" /\ c \notin NotInserted \cup NotOverridden -> Serve(ch, c, m, rest)
                 [] to = "local" /\ c \in NotInserted ->
                      Refuse(ch, c, m, rest, "service not implement")
                 [] to = "local" /\ c \in NotOverridden \ NotInserted ->
                      Refuse(ch, c, m, rest, NotImplemented(Method[c]))
                 [] to = "default" -> NothingToBeDone(ch, c, m, rest)
                 [] to = "back" -> Forward(ch, c, m, rest)
  <2>1. \/ to = "local" /\ c \notin NotInserted \cup NotOverridden /\ Serve(ch, c, m, rest)
        \/ to = "local" /\ c \in NotInserted /\ Refuse(ch, c, m, rest, "service not implement")
        \/ /\ to = "local" /\ c \in NotOverridden \ NotInserted
           /\ Refuse(ch, c, m, rest, NotImplemented(Method[c]))
        \/ to = "default" /\ NothingToBeDone(ch, c, m, rest)
        \/ to = "back" /\ Forward(ch, c, m, rest)
    BY <1>5, <1>10
  <2>2. \/ Serve(ch, c, m, rest)
        \/ \E reason : Refuse(ch, c, m, rest, reason)
        \/ ch # Back /\ Forward(ch, c, m, rest)
    BY <1>5, <2>1 DEF NothingToBeDone
  <2> QED
    BY <1>1, <1>6, <1>8, <1>10, <2>2 DEF rest
<1> QED
  BY <1>2, <1>7, <1>9, <1>10

-----------------------------------------------------------------------------
(* The steps keep the types                                                *)

LEMMA ResultTypes ==
  ASSUME NEW r, ResultOK(r), NEW c \in Calls, NEW state \in States, NEW failed, NEW message
  PROVE  ResultOK([r EXCEPT ![c] = Result(state, failed, message)])
<1> DEFINE v == Result(state, failed, message)
           q == [r EXCEPT ![c] = v]
<1>1. v.state = state
  BY DEF Result
<1> HIDE DEF v
<1>2. q = [d \in Calls |-> q[d]] /\ q[c] = v /\ \A d \in Calls : d # c => q[d] = r[d]
  BY DEF ResultOK
<1> HIDE DEF q
<1>3. ResultOK(q)
  BY <1>1, <1>2 DEF ResultOK
<1> QED
  BY <1>3 DEF q, v

LEMMA CallTypes ==
  ASSUME TypeInv, NEW c \in Calls, Call(c)
  PROVE  TypeInv'
<1>1. From[c] \in Channels
  BY CallAssumption DEF Channels
<1>2. ServerOK(toServer) /\ ClientOK(toClient) /\ IdsOK(asyncResult, transmitId) /\ ResultOK(result)
  BY DEF TypeInv
<1>3. UNCHANGED <<open, redirect, router, requestVars, outcome, cuts, redirects>>
  BY DEF Call
<1>4. SetTypes' /\ ObjectsOK(heap', proto', holder')
  BY <1>3 DEF TypeInv, SetTypes, requestVars
<1>5. "waiting" \in States /\ "canceled" \in States
  BY DEF States
<1>6. CASE /\ From[c] \in open
           /\ CallMethod(From[c], c, toServer)
           /\ result' = [result EXCEPT ![c] = Result("waiting", FALSE, New)]
           /\ UNCHANGED toClient
  <2>1. ServerOK(toServer') /\ IdsOK(asyncResult', transmitId')
    BY <1>1, <1>2, <1>6, CallMethodTypes
  <2>2. ResultOK(result')
    BY <1>2, <1>5, <1>6, ResultTypes
  <2> QED
    BY <1>2, <1>4, <1>6, <2>1, <2>2 DEF TypeInv
<1>7. CASE /\ From[c] \notin open
           /\ result' = [result EXCEPT ![c] = Result("canceled", TRUE, New)]
           /\ UNCHANGED linkVars
  <2>1. ResultOK(result')
    BY <1>2, <1>5, <1>7, ResultTypes
  <2> QED
    BY <1>2, <1>4, <1>7, <2>1 DEF TypeInv, linkVars
<1> QED
  BY <1>6, <1>7 DEF Call

LEMMA CutFrames ==
  ASSUME NEW q, Requests(q), q # <<>>, NEW n \in 0..Len(q[1].fields) - 1
  PROVE  LET r == [q EXCEPT ![1].fields = Append(SubSeq(@, 1, n), Cut)]
         IN /\ Requests(r) /\ Len(r) = Len(q) /\ Len(q) \in Nat \ {0} /\ IsCut(r[1].fields)
            /\ \A i \in 1..Len(q) : i # 1 => r[i] = q[i]
<1> DEFINE bytes == q[1].fields
           cut == Append(SubSeq(bytes, 1, n), Cut)
           r == [q EXCEPT ![1].fields = cut]
<1>1. IsSeq(q) /\ Len(q) \in Nat \ {0} /\ DOMAIN q = 1..Len(q)
  BY TailFacts, SeqFacts DEF Requests
<1>2. RequestFrame(q[1])
  BY <1>1 DEF Requests
<1>3. IsCut(cut)
  <2>1. CASE IsCut(bytes)
    BY <2>1, CutAgain
  <2>2. CASE \E c \in Calls : Asks(q[1], c)
    <3>1. PICK c \in Calls, id \in Nat : q[1] = Frame(Request(c, id))
      BY <2>2 DEF Asks
    <3> QED
      BY <3>1, CutWhole
  <2> QED
    BY <1>2, <2>1, <2>2 DEF RequestFrame
<1> HIDE DEF cut
<1>4. /\ q[1] = [size |-> q[1].size, fields |-> q[1].fields]
      /\ q = [i \in 1..Len(q) |-> q[i]]
  BY <1>1, <1>2 DEF RequestFrame, IsSeq
<1> DEFINE e == [q[1] EXCEPT !.fields = cut]
<1>e. e = [size |-> q[1].size, fields |-> cut] /\ r = [q EXCEPT ![1] = e]
  BY <1>4
<1> HIDE DEF e, r
<1>5. /\ DOMAIN r = 1..Len(q) /\ r = [i \in 1..Len(q) |-> r[i]]
      /\ r[1] = [size |-> q[1].size, fields |-> cut]
      /\ \A i \in 1..Len(q) : i # 1 => r[i] = q[i]
  <2>1. DOMAIN q = 1..Len(q) /\ 1 \in 1..Len(q) /\ r = [q EXCEPT ![1] = e]
    BY <1>1, <1>e
  <2>2. r[1] = e /\ (\A i \in 1..Len(q) : i # 1 => r[i] = q[i]) /\ r = [i \in 1..Len(q) |-> r[i]]
    BY <2>1
  <2> QED
    BY <1>e, <2>2
<1>6. IsSeq(r) /\ Len(r) = Len(q)
  BY <1>1, <1>5, MakeSeq
<1>7. RequestFrame(r[1])
  BY <1>3, <1>5 DEF RequestFrame
<1>8. Requests(r)
  BY <1>5, <1>6, <1>7 DEF Requests
<1>9. r[1].fields = cut
  BY <1>5
<1> QED
  BY <1>1, <1>3, <1>5, <1>6, <1>8, <1>9 DEF r, cut

LEMMA CutRequestTypes ==
  ASSUME TypeInv, NEW f \in Channels, CutRequest(f)
  PROVE  TypeInv'
<1>1. ServerOK(toServer)
  BY DEF TypeInv
<1>2. toServer[f] # <<>> /\ Requests(toServer[f]) /\ Head(toServer[f]) = toServer[f][1]
  BY <1>1, TailFacts DEF CutRequest, ServerOK, Requests
<1>3. PICK n \in 0..Len(toServer[f][1].fields) - 1 :
        toServer' = [toServer EXCEPT ![f][1].fields = Append(SubSeq(@, 1, n), Cut)]
  BY <1>2 DEF CutRequest
<1> DEFINE r == [toServer[f] EXCEPT ![1].fields = Append(SubSeq(@, 1, n), Cut)]
<1>4. Requests(r)
  BY <1>2, CutFrames
<1>5. toServer' = [toServer EXCEPT ![f] = r]
  BY <1>3
<1> HIDE DEF r
<1>6. ServerOK(toServer')
  BY <1>1, <1>4, <1>5, LineUpdates
<1>7. UNCHANGED <<open, toClient, asyncResult, transmitId, redirect, router,
                  requestVars, outcome, result, redirects>>
  BY DEF CutRequest
<1> QED
  BY <1>6, <1>7 DEF TypeInv, SetTypes, requestVars

(* A step that handles the first frame of ch, or none, makes of the        *)
(* objects of one request what is right.                                   *)
LEMMA ServeTypes ==
  ASSUME TypeInv, NEW ch \in Channels, NEW c \in Calls, NEW id, NEW m, Handed(ch, c, id, m),
         NEW rest, Serve(ch, c, m, rest)
  PROVE  ObjectsOK(heap', proto', holder') /\ toServer' = rest
         /\ UNCHANGED <<toClient, asyncResult, transmitId>>
<1> DEFINE objects == Objects \cup IF c \in OneShot \cup Permanent THEN {"callback"} ELSE {}
<1>1. /\ heap' = [heap EXCEPT ![ch][c] = objects]
      /\ proto' = [proto EXCEPT ![ch][c] = m]
      /\ holder' = [holder EXCEPT ![ch][c] = "service"]
      /\ toServer' = rest /\ UNCHANGED <<toClient, asyncResult, transmitId>>
  BY DEF Serve
<1>2. objects \in SUBSET AllObjects /\ "service" \in Holders
  BY DEF AllObjects, Holders
<1> HIDE DEF objects
<1>3. InController(m)
  BY DEF Handed, Brought
<1>4. ObjectsOK(heap, proto, holder)
  BY DEF TypeInv
<1>5. ObjectsOK(Update(heap, ch, c, objects), Update(proto, ch, c, m), Update(holder, ch, c, "service"))
  BY <1>2, <1>3, <1>4, UpdateTypes
<1> QED
  BY <1>1, <1>5 DEF Update

LEMMA RefuseTypes ==
  ASSUME TypeInv, NEW ch \in Channels, NEW c \in Calls, NEW id, NEW m, Handed(ch, c, id, m),
         NEW rest, NEW reason, Refuse(ch, c, m, rest, reason)
  PROVE  ObjectsOK(heap', proto', holder') /\ ClientOK(toClient') /\ toServer' = rest
         /\ UNCHANGED <<asyncResult, transmitId>>
<1>1. InController(SetFailed(m, reason))
  BY InControllerFailed DEF Handed, Brought
<1>2. TcpClosureRun(ch, c, Objects, SetFailed(m, reason), New, toClient)
  BY DEF Refuse
<1>3. Objects \in SUBSET AllObjects
  BY DEF AllObjects
<1>4. ObjectsOK(heap, proto, holder) /\ ClientOK(toClient)
  BY DEF TypeInv
<1> HIDE DEF TypeInv
<1>5. ObjectsOK(heap', proto', holder') /\ ClientOK(toClient')
  BY <1>1, <1>2, <1>3, <1>4, ClosureRunTypes
<1> QED
  BY <1>5 DEF Refuse

(* What the closure of a request is handed when uv_write fails on Back.    *)
UvWriteFailed(c, id) == Set(SetFailed(Request(c, id), "uv_write"), "connection", New)

LEMMA UvWriteFailedFacts ==
  ASSUME NEW c, NEW id
  PROVE  /\ InController(UvWriteFailed(c, id)) /\ Get(UvWriteFailed(c, id), "failed") = TRUE
         /\ SameBut(UvWriteFailed(c, id), Request(c, id), {"failed", "error_text", "connection"})
<1> DEFINE r == Request(c, id)
           p == SetFailed(r, "uv_write")
           q == Set(p, "connection", New)
<1>1. OnWire(r)
  BY RequestFacts
<1>2. InController(r)
  BY <1>1, InControllerWire
<1> HIDE DEF r
<1>3. /\ InController(p) /\ Get(p, "failed") = TRUE
      /\ SameBut(p, r, {"failed", "error_text"})
  BY <1>2, InControllerFailed
<1>4. UvWriteFailed(c, id) = q
  BY DEF UvWriteFailed, r
<1> HIDE DEF p
<1>5. IsSet(q, p, "connection", New)
  BY SetFacts
<1> HIDE DEF q
<1>6. InController(q)
  <2>1. "connection" \in ControllerFields \ {"session"}
    BY DEF ControllerFields
  <2>2. IsMessage(q) /\ DOMAIN q = DOMAIN p \cup {"connection"} /\ Get(q, "connection") = New
    BY <1>5 DEF IsSet
  <2> QED
    BY <1>3, <2>1, <2>2, NewFacts DEF InController
<1>7. Get(q, "failed") = TRUE
  BY <1>3, <1>5 DEF IsSet
<1>8. SameBut(q, r, {"failed", "error_text", "connection"})
  BY <1>3, <1>5 DEF IsSet, SameBut
<1> QED
  BY <1>4, <1>6, <1>7, <1>8 DEF r

LEMMA ForwardTypes ==
  ASSUME TypeInv, NEW ch \in Channels, NEW c \in Calls, NEW id, NEW m, Handed(ch, c, id, m),
         NEW rest, ServerOK(rest), Forward(ch, c, m, rest)
  PROVE  ObjectsOK(heap', proto', holder') /\ ClientOK(toClient') /\ ServerOK(toServer')
         /\ IdsOK(asyncResult', transmitId')
<1>1. ObjectsOK(heap, proto, holder) /\ ClientOK(toClient) /\ IdsOK(asyncResult, transmitId)
  BY DEF TypeInv
<1>2. Objects \in SUBSET AllObjects /\ "back" \in Holders /\ Back \in Channels
  BY DEF AllObjects, Holders, Channels
<1>3. CASE /\ CallMethod(Back, c, rest)
           /\ heap' = [heap EXCEPT ![ch][c] = Objects]
           /\ proto' = [proto EXCEPT ![ch][c] = m]
           /\ holder' = [holder EXCEPT ![ch][c] = "back"]
           /\ UNCHANGED <<toClient, fault>>
  <2>1. ServerOK(toServer') /\ IdsOK(asyncResult', transmitId')
    BY <1>1, <1>2, <1>3, CallMethodTypes
  <2>2. InController(m)
    BY DEF Handed, Brought
  <2>3. ObjectsOK(Update(heap, ch, c, Objects), Update(proto, ch, c, m), Update(holder, ch, c, "back"))
    BY <1>1, <1>2, <2>2, UpdateTypes
  <2> QED
    BY <1>1, <1>3, <2>1, <2>3 DEF Update
<1>4. CASE /\ TcpClosureRun(ch, c, Objects, UvWriteFailed(c, transmitId[Back]), New, toClient)
           /\ transmitId' = [transmitId EXCEPT ![Back] = @ + 1]
           /\ toServer' = rest
           /\ UNCHANGED asyncResult
  <2>1. ObjectsOK(heap', proto', holder') /\ ClientOK(toClient')
    BY <1>1, <1>2, <1>4, UvWriteFailedFacts, ClosureRunTypes
  <2>0. transmitId \in [Channels -> Nat] /\ transmitId[Back] + 1 \in Nat
    BY <1>1, <1>2 DEF IdsOK
  <2>2. transmitId' \in [Channels -> Nat]
    BY <1>4, <2>0
  <2>3. \A d \in Channels : Ids(asyncResult[d], transmitId'[d])
    <3> SUFFICES ASSUME NEW d \in Channels PROVE Ids(asyncResult[d], transmitId'[d])
      OBVIOUS
    <3>1. Ids(asyncResult[d], transmitId[d]) /\ transmitId[d] \in Nat /\ transmitId'[d] \in Nat
      BY <1>1, <2>2 DEF IdsOK
    <3>2. transmitId'[d] = transmitId[d] \/ transmitId'[d] = transmitId[d] + 1
      BY <1>1, <1>2, <1>4 DEF IdsOK
    <3>3. 0..transmitId[d] - 1 \subseteq 0..transmitId'[d] - 1
      BY <3>1, <3>2
    <3> QED
      BY <3>1, <3>3 DEF Ids
  <2>4. IdsOK(asyncResult', transmitId')
    BY <1>1, <1>4, <2>2, <2>3 DEF IdsOK
  <2> QED
    BY <1>4, <2>1, <2>4
<1> QED
  BY <1>3, <1>4 DEF Forward, UvWriteFailed

LEMMA HandleRequestTypes ==
  ASSUME TypeInv, NEW ch \in Channels, HandleRequest(ch)
  PROVE  TypeInv'
<1> DEFINE rest == [toServer EXCEPT ![ch] = Tail(@)]
<1>1. /\ toServer[ch] # <<>>
      /\ UNCHANGED <<open, redirect, outcome, result, cuts, redirects>>
      /\ router' \in {router, RouterChannel}
      /\ \/ /\ toServer' = rest
            /\ UNCHANGED <<toClient, asyncResult, transmitId, requestVars>>
         \/ \E c \in Calls, id \in Nat : \E m :
              /\ Handed(ch, c, id, m)
              /\ \/ \E at \in OutOfMemoryAt : Busy(ch, c, rest, at)
                 \/ Serve(ch, c, m, rest)
                 \/ \E reason : Refuse(ch, c, m, rest, reason)
                 \/ ch # Back /\ Forward(ch, c, m, rest)
  BY HandleRequestCases
<1>2. /\ ServerOK(toServer) /\ ClientOK(toClient) /\ IdsOK(asyncResult, transmitId)
      /\ ObjectsOK(heap, proto, holder) /\ ResultOK(result)
  BY DEF TypeInv
<1>3. ServerOK(rest)
  <2>1. Requests(Tail(toServer[ch]))
    BY <1>1, <1>2, QueueFacts DEF ServerOK
  <2> QED
    BY <1>2, <2>1, LineUpdates
<1> HIDE DEF rest
<1>4. SetTypes' /\ ResultOK(result')
  <2>1. router' \in {"local", "back", "default"}
    BY <1>1 DEF RouterChannel, TypeInv, SetTypes
  <2> QED
    BY <1>1, <1>2, <2>1 DEF SetTypes, TypeInv
<1>5. /\ ServerOK(toServer') /\ ClientOK(toClient') /\ IdsOK(asyncResult', transmitId')
      /\ ObjectsOK(heap', proto', holder')
  <2>1. CASE /\ toServer' = rest
             /\ UNCHANGED <<toClient, asyncResult, transmitId, requestVars>>
    BY <1>2, <1>3, <2>1 DEF requestVars
  <2>2. ASSUME NEW c \in Calls, NEW id \in Nat, NEW m, Handed(ch, c, id, m),
               \/ \E at \in OutOfMemoryAt : Busy(ch, c, rest, at)
               \/ Serve(ch, c, m, rest)
               \/ \E reason : Refuse(ch, c, m, rest, reason)
               \/ ch # Back /\ Forward(ch, c, m, rest)
        PROVE  /\ ServerOK(toServer') /\ ClientOK(toClient') /\ IdsOK(asyncResult', transmitId')
               /\ ObjectsOK(heap', proto', holder')
    <3>1. ASSUME NEW at, Busy(ch, c, rest, at)
          PROVE  /\ ServerOK(toServer') /\ ClientOK(toClient') /\ IdsOK(asyncResult', transmitId')
                 /\ ObjectsOK(heap', proto', holder')
      <4>1. /\ heap' = [heap EXCEPT ![ch][c] = IF at = "controller" THEN {"proto"} ELSE {}]
            /\ toServer' = rest
            /\ UNCHANGED <<toClient, asyncResult, transmitId, proto, holder>>
        BY <3>1 DEF Busy
      <4>2. heap' \in [Channels -> [Calls -> SUBSET AllObjects]]
        BY <1>2, <4>1 DEF ObjectsOK, AllObjects, Objects
      <4>3. ObjectsOK(heap', proto', holder')
        BY <1>2, <4>1, <4>2 DEF ObjectsOK
      <4> QED
        BY <1>2, <1>3, <4>1, <4>3
    <3>2. CASE Serve(ch, c, m, rest)
      BY <1>2, <1>3, <2>2, <3>2, ServeTypes
    <3>3. CASE \E reason : Refuse(ch, c, m, rest, reason)
      BY <1>2, <1>3, <2>2, <3>3, RefuseTypes
    <3>4. CASE Forward(ch, c, m, rest)
      BY <1>3, <2>2, <3>4, ForwardTypes
    <3> QED
      BY <2>2, <3>1, <3>2, <3>3, <3>4
  <2> QED
    BY <1>1, <2>1, <2>2
<1> QED
  BY <1>4, <1>5 DEF TypeInv

LEMMA ServiceRunsTypes ==
  ASSUME TypeInv, NEW ch \in Channels, NEW c \in Calls, ServiceRuns(ch, c)
  PROVE  TypeInv'
<1>1. /\ ServerOK(toServer) /\ ClientOK(toClient) /\ IdsOK(asyncResult, transmitId)
      /\ ObjectsOK(heap, proto, holder) /\ ResultOK(result) /\ SetTypes
  BY DEF TypeInv
<1>2. UNCHANGED <<open, toServer, asyncResult, transmitId, redirect, router, result, cuts, redirects>>
  BY DEF ServiceRuns
<1>3. PICK failed \in BOOLEAN :
        /\ outcome' = [outcome EXCEPT ![c] = IF failed THEN "failed" ELSE "ok"]
        /\ TcpClosureRun(ch, c, heap[ch][c],
                         IF failed THEN SetFailed(proto[ch][c], "error") ELSE proto[ch][c],
                         ServiceCallMethod(Method[c], Parse(New, Get(proto[ch][c], "message")).message),
                         toClient)
  BY DEF ServiceRuns
<1>4. InController(proto[ch][c]) /\ heap[ch][c] \in SUBSET AllObjects
  BY <1>1 DEF ObjectsOK, ProtoOK
<1>5. InController(IF failed THEN SetFailed(proto[ch][c], "error") ELSE proto[ch][c])
  BY <1>4, InControllerFailed
<1>6. ObjectsOK(heap', proto', holder') /\ ClientOK(toClient')
  BY <1>1, <1>3, <1>4, <1>5, ClosureRunTypes
<1>7. outcome' \in [Calls -> {"none", "ok", "failed"}]
  BY <1>1, <1>3 DEF SetTypes
<1>8. SetTypes'
  BY <1>1, <1>2, <1>7 DEF SetTypes
<1> QED
  BY <1>1, <1>2, <1>6, <1>8 DEF TypeInv

LEMMA ClearIds ==
  ASSUME IdsOK(asyncResult, transmitId), NEW ch \in Channels, NEW id
  PROVE  IdsOK([asyncResult EXCEPT ![ch] = ClearField(@, id)], transmitId)
<1> DEFINE a == ClearField(asyncResult[ch], id)
           b == [asyncResult EXCEPT ![ch] = a]
<1>1. Ids(asyncResult[ch], transmitId[ch])
  BY DEF IdsOK
<1>2. Ids(a, transmitId[ch])
  <2>1. DOMAIN a = DOMAIN asyncResult[ch] \ {id} /\ \A i \in DOMAIN a : a[i] = asyncResult[ch][i]
    BY DEF ClearField, Restrict
  <2>2. IsMessage(a)
    BY ClearFieldFacts
  <2> QED
    BY <1>1, <2>1, <2>2 DEF Ids
<1> HIDE DEF a
<1>3. b = [d \in Channels |-> b[d]] /\ b[ch] = a /\ \A d \in Channels : d # ch => b[d] = asyncResult[d]
  BY DEF IdsOK
<1> HIDE DEF b
<1>4. IdsOK(b, transmitId)
  BY <1>2, <1>3 DEF IdsOK
<1> QED
  BY <1>4 DEF a, b

LEMMA HandleResponseTypes ==
  ASSUME TypeInv, NEW ch \in Channels, NEW m, InController(m), NEW answers, ClientOK(answers),
         HandleResponse(ch, m, answers),
         UNCHANGED <<open, toServer, transmitId, redirect, router, outcome, cuts, redirects>>
  PROVE  TypeInv'
<1> DEFINE id == Get(m, "transmit_id")
           c == asyncResult[ch][id]
<1>1. /\ ServerOK(toServer) /\ ClientOK(toClient) /\ IdsOK(asyncResult, transmitId)
      /\ ObjectsOK(heap, proto, holder) /\ ResultOK(result) /\ SetTypes
  BY DEF TypeInv
<1>2. \/ /\ ~Has(asyncResult[ch], id)
         /\ toClient' = answers
         /\ UNCHANGED <<asyncResult, requestVars, result>>
      \/ /\ Has(asyncResult[ch], id)
         /\ asyncResult' = [asyncResult EXCEPT ![ch] = ClearField(@, id)]
         /\ \/ /\ TcpClosureRun(From[c], c, heap[From[c]][c], m, ParseResponse(m), answers)
               /\ UNCHANGED result
            \/ /\ result' = [result EXCEPT ![c] =
                      Result("replied", Get(m, "failed"), ParseResponse(m))]
               /\ toClient' = answers
               /\ UNCHANGED requestVars
  BY DEF HandleResponse
<1>3. ServerOK(toServer') /\ SetTypes'
  BY <1>1 DEF SetTypes
<1> HIDE DEF id
<1>4. CASE /\ ~Has(asyncResult[ch], id)
           /\ toClient' = answers
           /\ UNCHANGED <<asyncResult, requestVars, result>>
  BY <1>1, <1>3, <1>4 DEF TypeInv, requestVars
<1>5. ASSUME Has(asyncResult[ch], id), asyncResult' = [asyncResult EXCEPT ![ch] = ClearField(@, id)]
      PROVE  IdsOK(asyncResult', transmitId') /\ c \in Calls /\ From[c] \in Channels
  <2>1. IdsOK(asyncResult', transmitId')
    BY <1>1, <1>5, ClearIds
  <2>2. c \in Calls
    BY <1>1, <1>5 DEF IdsOK, Ids, Has
  <2> QED
    BY <2>1, <2>2, CallAssumption DEF Channels
<1> HIDE DEF c
<1>6. CASE /\ Has(asyncResult[ch], id)
           /\ asyncResult' = [asyncResult EXCEPT ![ch] = ClearField(@, id)]
           /\ TcpClosureRun(From[c], c, heap[From[c]][c], m, ParseResponse(m), answers)
           /\ UNCHANGED result
  <2>1. heap[From[c]][c] \in SUBSET AllObjects
    BY <1>1, <1>5, <1>6 DEF ObjectsOK
  <2>2. ObjectsOK(heap', proto', holder') /\ ClientOK(toClient')
    BY <1>1, <1>5, <1>6, <2>1, ClosureRunTypes
  <2> QED
    BY <1>1, <1>3, <1>5, <1>6, <2>2 DEF TypeInv
<1>7. CASE /\ Has(asyncResult[ch], id)
           /\ asyncResult' = [asyncResult EXCEPT ![ch] = ClearField(@, id)]
           /\ result' = [result EXCEPT ![c] = Result("replied", Get(m, "failed"), ParseResponse(m))]
           /\ toClient' = answers
           /\ UNCHANGED requestVars
  <2>1. "replied" \in States
    BY DEF States
  <2>2. ResultOK(result')
    BY <1>1, <1>5, <1>7, <2>1, ResultTypes
  <2>3. ObjectsOK(heap', proto', holder') /\ ClientOK(toClient')
    BY <1>1, <1>7 DEF requestVars
  <2> QED
    BY <1>3, <1>5, <1>7, <2>2, <2>3 DEF TypeInv
<1> QED
  BY <1>2, <1>4, <1>6, <1>7

LEMMA AnswerArrivesTypes ==
  ASSUME TypeInv, NEW ch \in Channels, AnswerArrives(ch)
  PROVE  TypeInv'
<1> DEFINE m == Received(ch, Head(toClient[ch]).fields)
           answers == [toClient EXCEPT ![ch] = Tail(@)]
<1>1. /\ toClient[ch] # <<>> /\ HandleResponse(ch, m, answers)
      /\ UNCHANGED <<open, toServer, transmitId, redirect, router, outcome, cuts, redirects>>
  BY DEF AnswerArrives
<1>2. ClientOK(toClient) /\ Answers(toClient[ch])
  BY DEF TypeInv, ClientOK
<1>3. Answers(Tail(toClient[ch])) /\ AnswerFrame(Head(toClient[ch]))
  BY <1>1, <1>2, QueueFacts
<1>4. InController(m)
  BY <1>3, InControllerReceived DEF AnswerFrame
<1>5. ClientOK(answers)
  BY <1>2, <1>3, LineUpdates
<1> HIDE DEF m, answers
<1> QED
  BY <1>1, <1>4, <1>5, HandleResponseTypes

LEMMA OneWaySentTypes ==
  ASSUME TypeInv, NEW ch \in Channels, OneWaySent(ch)
  PROVE  TypeInv'
<1>1. PICK id \in DOMAIN asyncResult[ch] :
        HandleResponse(ch, Request(asyncResult[ch][id], id), toClient)
  BY DEF OneWaySent
<1>2. UNCHANGED <<open, toServer, transmitId, redirect, router, outcome, cuts, redirects>>
  BY DEF OneWaySent
<1>3. InController(Request(asyncResult[ch][id], id))
  <2>1. OnWire(Request(asyncResult[ch][id], id))
    BY RequestFacts
  <2> QED
    BY <2>1, InControllerWire
<1>4. ClientOK(toClient)
  BY DEF TypeInv
<1> QED
  BY <1>1, <1>2, <1>3, <1>4, HandleResponseTypes

(* Cancellation changes the objects and the message of some requests.      *)
LEMMA CancelTypes ==
  ASSUME ObjectsOK(heap, proto, holder), NEW h, NEW p, NEW o,
         h = [ch \in Channels |-> [c \in Calls |-> h[ch][c]]],
         p = [ch \in Channels |-> [c \in Calls |-> p[ch][c]]],
         o = [ch \in Channels |-> [c \in Calls |-> o[ch][c]]],
         \A ch \in Channels, c \in Calls :
           /\ h[ch][c] \in {heap[ch][c], {}, AfterCancel(c, heap[ch][c])}
           /\ p[ch][c] \in {proto[ch][c], New, StartCancel(proto[ch][c])}
           /\ o[ch][c] \in {holder[ch][c], "none"}
  PROVE  ObjectsOK(h, p, o)
<1>1. \A ch \in Channels, c \in Calls : h[ch][c] \in SUBSET AllObjects
  <2> SUFFICES ASSUME NEW ch \in Channels, NEW c \in Calls PROVE h[ch][c] \in SUBSET AllObjects
    OBVIOUS
  <2>1. heap[ch][c] \in SUBSET AllObjects
    BY DEF ObjectsOK
  <2>2. AfterCancel(c, heap[ch][c]) \in SUBSET AllObjects
    BY <2>1 DEF AfterCancel, AllObjects
  <2> QED
    BY <2>1, <2>2
<1>2. \A ch \in Channels, c \in Calls : o[ch][c] \in Holders
  BY DEF ObjectsOK, Holders
<1>3. \A ch \in Channels, c \in Calls : InController(p[ch][c])
  <2> SUFFICES ASSUME NEW ch \in Channels, NEW c \in Calls PROVE InController(p[ch][c])
    OBVIOUS
  <2>1. InController(proto[ch][c])
    BY DEF ObjectsOK, ProtoOK
  <2>2. InController(New) /\ InController(StartCancel(proto[ch][c]))
    BY <2>1, InControllerNew, InControllerCanceled
  <2>3. p[ch][c] \in {proto[ch][c], New, StartCancel(proto[ch][c])}
    OBVIOUS
  <2> QED
    BY <2>1, <2>2, <2>3
<1>4. h \in [Channels -> [Calls -> SUBSET AllObjects]] /\ o \in [Channels -> [Calls -> Holders]]
  BY <1>1, <1>2
<1> QED
  BY <1>3, <1>4 DEF ObjectsOK, ProtoOK

LEMMA EmptyLines ==
  ASSUME ServerOK(toServer), ClientOK(toClient), IdsOK(asyncResult, transmitId), NEW ch \in Channels
  PROVE  /\ ServerOK([toServer EXCEPT ![ch] = <<>>]) /\ ClientOK([toClient EXCEPT ![ch] = <<>>])
         /\ IdsOK([asyncResult EXCEPT ![ch] = New], transmitId)
<1>1. ServerOK([toServer EXCEPT ![ch] = <<>>]) /\ ClientOK([toClient EXCEPT ![ch] = <<>>])
  BY QueueFacts, LineUpdates
<1> DEFINE b == [asyncResult EXCEPT ![ch] = New]
<1>2. b = [d \in Channels |-> b[d]] /\ b[ch] = New /\ \A d \in Channels : d # ch => b[d] = asyncResult[d]
  BY DEF IdsOK
<1> HIDE DEF b
<1>3. \A n : Ids(New, n)
  BY NewFacts DEF Ids
<1>4. IdsOK(b, transmitId)
  BY <1>2, <1>3 DEF IdsOK
<1> QED
  BY <1>1, <1>4 DEF b

LEMMA CloseFrontTypes ==
  ASSUME TypeInv, NEW f \in Channels, CloseFront(f)
  PROVE  TypeInv'
<1>1. /\ ServerOK(toServer) /\ ClientOK(toClient) /\ IdsOK(asyncResult, transmitId)
      /\ ObjectsOK(heap, proto, holder) /\ ResultOK(result) /\ SetTypes
  BY DEF TypeInv
<1>2. /\ open' = open \ {f}
      /\ toServer' = [toServer EXCEPT ![f] = <<>>]
      /\ toClient' = [toClient EXCEPT ![f] = <<>>]
      /\ asyncResult' = [asyncResult EXCEPT ![f] = New]
      /\ result' = [c \in Calls |-> IF c \in Waiting(f) THEN Result("canceled", TRUE, New) ELSE result[c]]
      /\ proto' = [proto EXCEPT ![f] = [c \in Calls |->
                     IF c \in Registered(f) THEN StartCancel(@[c]) ELSE @[c]]]
      /\ heap' = [heap EXCEPT ![f] = [c \in Calls |->
                     IF c \in Registered(f) THEN AfterCancel(c, @[c]) ELSE @[c]]]
      /\ UNCHANGED <<transmitId, redirect, router, holder, fault, outcome, cuts, redirects>>
  BY DEF CloseFront
<1>3. ServerOK(toServer') /\ ClientOK(toClient') /\ IdsOK(asyncResult', transmitId')
  BY <1>1, <1>2, EmptyLines
<1>4. ResultOK(result')
  <2>1. result' = [c \in Calls |-> result'[c]]
    BY <1>2
  <2>2. \A c \in Calls : result'[c] = Result("canceled", TRUE, New) \/ result'[c] = result[c]
    BY <1>2
  <2>3. Result("canceled", TRUE, New).state = "canceled" /\ "canceled" \in States
    BY DEF Result, States
  <2> QED
    BY <1>1, <2>1, <2>2, <2>3 DEF ResultOK
<1>5. ObjectsOK(heap', proto', holder')
  <2>1. proto = [ch \in Channels |-> [c \in Calls |-> proto[ch][c]]]
    BY <1>1 DEF ObjectsOK, ProtoOK
  <2>2. heap = [ch \in Channels |-> [c \in Calls |-> heap[ch][c]]]
        /\ holder = [ch \in Channels |-> [c \in Calls |-> holder[ch][c]]]
    BY <1>1 DEF ObjectsOK
  <2>3. /\ proto' = [ch \in Channels |-> [c \in Calls |-> proto'[ch][c]]]
        /\ \A ch \in Channels, c \in Calls : proto'[ch][c] \in {proto[ch][c], New, StartCancel(proto[ch][c])}
    BY <1>2, <2>1
  <2>4. /\ heap' = [ch \in Channels |-> [c \in Calls |-> heap'[ch][c]]]
        /\ \A ch \in Channels, c \in Calls : heap'[ch][c] \in {heap[ch][c], {}, AfterCancel(c, heap[ch][c])}
    BY <1>2, <2>2
  <2>5. holder' = holder
    BY <1>2
  <2> QED
    BY <1>1, <2>2, <2>3, <2>4, <2>5, CancelTypes
<1>6. SetTypes'
  BY <1>1, <1>2 DEF SetTypes
<1> QED
  BY <1>3, <1>4, <1>5, <1>6 DEF TypeInv

LEMMA CloseBackFacts ==
  ASSUME CloseBack
  PROVE  LET ended == {<<From[c], c>> : c \in Waiting(Back)}
             canceled == Registered(Back)
         IN /\ Back \in open /\ open' = open \ {Back}
            /\ toServer' = [toServer EXCEPT ![Back] = <<>>]
            /\ toClient' = [toClient EXCEPT ![Back] = <<>>]
            /\ asyncResult' = [asyncResult EXCEPT ![Back] = New]
            /\ heap' = [ch \in Channels |-> [c \in Calls |->
                  IF <<ch, c>> \in ended THEN {}
                  ELSE IF ch = Back /\ c \in canceled THEN AfterCancel(c, heap[ch][c])
                  ELSE heap[ch][c]]]
            /\ proto' = [ch \in Channels |-> [c \in Calls |->
                  IF <<ch, c>> \in ended THEN New
                  ELSE IF ch = Back /\ c \in canceled THEN StartCancel(proto[ch][c])
                  ELSE proto[ch][c]]]
            /\ holder' = [ch \in Channels |-> [c \in Calls |->
                  IF <<ch, c>> \in ended THEN "none" ELSE holder[ch][c]]]
            /\ fault' = IF \A pair \in ended : DeletedOnce(heap[pair[1]][pair[2]])
                        THEN fault ELSE Fault("freed twice")
            /\ UNCHANGED <<transmitId, redirect, router, outcome, result, cuts, redirects>>
BY DEF CloseBack

LEMMA CloseBackTypes ==
  ASSUME TypeInv, CloseBack
  PROVE  TypeInv'
<1> DEFINE ended == {<<From[c], c>> : c \in Waiting(Back)}
           canceled == Registered(Back)
<1>1. /\ ServerOK(toServer) /\ ClientOK(toClient) /\ IdsOK(asyncResult, transmitId)
      /\ ObjectsOK(heap, proto, holder) /\ ResultOK(result) /\ SetTypes
  BY DEF TypeInv
<1>2. /\ open' = open \ {Back}
      /\ toServer' = [toServer EXCEPT ![Back] = <<>>]
      /\ toClient' = [toClient EXCEPT ![Back] = <<>>]
      /\ asyncResult' = [asyncResult EXCEPT ![Back] = New]
      /\ heap' = [ch \in Channels |-> [c \in Calls |->
            IF <<ch, c>> \in ended THEN {}
            ELSE IF ch = Back /\ c \in canceled THEN AfterCancel(c, heap[ch][c])
            ELSE heap[ch][c]]]
      /\ proto' = [ch \in Channels |-> [c \in Calls |->
            IF <<ch, c>> \in ended THEN New
            ELSE IF ch = Back /\ c \in canceled THEN StartCancel(proto[ch][c])
            ELSE proto[ch][c]]]
      /\ holder' = [ch \in Channels |-> [c \in Calls |->
            IF <<ch, c>> \in ended THEN "none" ELSE holder[ch][c]]]
      /\ UNCHANGED <<transmitId, redirect, router, outcome, result, cuts, redirects>>
  BY CloseBackFacts
<1> HIDE DEF ended, canceled
<1>3. ServerOK(toServer') /\ ClientOK(toClient') /\ IdsOK(asyncResult', transmitId')
  <2>1. Back \in Channels
    BY DEF Channels
  <2> QED
    BY <1>1, <1>2, <2>1, EmptyLines
<1>4. ObjectsOK(heap', proto', holder')
  <2>1. /\ proto' = [ch \in Channels |-> [c \in Calls |-> proto'[ch][c]]]
        /\ \A ch \in Channels, c \in Calls : proto'[ch][c] \in {proto[ch][c], New, StartCancel(proto[ch][c])}
    BY <1>2
  <2>2. /\ heap' = [ch \in Channels |-> [c \in Calls |-> heap'[ch][c]]]
        /\ \A ch \in Channels, c \in Calls : heap'[ch][c] \in {heap[ch][c], {}, AfterCancel(c, heap[ch][c])}
    BY <1>2
  <2>3. /\ holder' = [ch \in Channels |-> [c \in Calls |-> holder'[ch][c]]]
        /\ \A ch \in Channels, c \in Calls : holder'[ch][c] \in {holder[ch][c], "none"}
    BY <1>2
  <2> QED
    BY <1>1, <2>1, <2>2, <2>3, CancelTypes
<1>5. SetTypes' /\ ResultOK(result')
  BY <1>1, <1>2 DEF SetTypes
<1> QED
  BY <1>3, <1>4, <1>5 DEF TypeInv

LEMMA StepTypes == TypeInv /\ [Next]_vars => TypeInv'
<1> SUFFICES ASSUME TypeInv, [Next]_vars PROVE TypeInv'
  OBVIOUS
<1>1. \A f \in Fronts : f \in Channels
  BY DEF Channels
<1>2. ASSUME NEW c \in Calls, Call(c) PROVE TypeInv'
  BY <1>2, CallTypes
<1>3. ASSUME NEW f \in Fronts, CutRequest(f) PROVE TypeInv'
  BY <1>1, <1>3, CutRequestTypes
<1>4. ASSUME NEW f \in Fronts, CloseFront(f) PROVE TypeInv'
  BY <1>1, <1>4, CloseFrontTypes
<1>5. ASSUME NEW ch \in Channels, HandleRequest(ch) PROVE TypeInv'
  BY <1>5, HandleRequestTypes
<1>6. ASSUME NEW ch \in Channels, AnswerArrives(ch) PROVE TypeInv'
  BY <1>6, AnswerArrivesTypes
<1>7. ASSUME NEW ch \in Channels, OneWaySent(ch) PROVE TypeInv'
  BY <1>7, OneWaySentTypes
<1>8. ASSUME NEW ch \in Channels, NEW c \in Calls, ServiceRuns(ch, c) PROVE TypeInv'
  BY <1>8, ServiceRunsTypes
<1>9. ASSUME NEW ch \in Channels, NEW c \in Calls, AfterSendResponse(ch, c) PROVE TypeInv'
  <2>1. ObjectsOK(heap', proto', holder')
    BY <1>9, DeleteTypes DEF AfterSendResponse, TypeInv
  <2>2. UNCHANGED <<open, linkVars, redirect, router, outcome, result, cuts, redirects>>
    BY <1>9 DEF AfterSendResponse
  <2> QED
    BY <2>1, <2>2 DEF TypeInv, SetTypes, linkVars
<1>10. CASE CloseBack
  BY <1>10, CloseBackTypes
<1>11. CASE Redirect
  BY <1>11 DEF Redirect, TypeInv, SetTypes, linkVars, requestVars
<1>12. CASE UNCHANGED vars
  BY <1>12 DEF vars, TypeInv, SetTypes, linkVars, requestVars
<1> QED
  BY <1>2, <1>3, <1>4, <1>5, <1>6, <1>7, <1>8, <1>9, <1>10, <1>11, <1>12 DEF Next

LEMMA AlwaysTypes == Spec => []TypeInv
<1>1. TypeInv /\ [Next]_vars => TypeInv'
  BY StepTypes
<1> QED
  BY InitTypes, <1>1, PTL DEF Spec

(* Every state is well-formed; above all, what a frame announces as its    *)
(* size, which ByteSize computes before Serialize runs, is what it         *)
(* carries, whatever the request went through, unless its bytes were cut   *)
(* (controller.pb.cc, wire_format.cc, closure.cc).                         *)
THEOREM TypeCorrect == Spec => []TypeOK
BY AlwaysTypes, TypesImply, PTL

-----------------------------------------------------------------------------
(* Every request comes once                                                *)

Asked(q, c) == \E i \in 1..Len(q) : Asks(q[i], c)

Once(q, c) == \A i, j \in 1..Len(q) : Asks(q[i], c) /\ Asks(q[j], c) => i = j

LEMMA CutAsksNobody ==
  ASSUME NEW frame, IsCut(frame.fields), NEW c \in Calls
  PROVE  ~Asks(frame, c)
<1> SUFFICES ASSUME Asks(frame, c) PROVE FALSE
  OBVIOUS
<1>1. PICK id \in Nat : frame = Frame(Request(c, id))
  BY DEF Asks
<1> DEFINE m == Received(Back, frame.fields)
<1>2. Get(m, "full_service_name") = ""
  BY CutFacts
<1>3. Brought(Back, c, id, m)
  BY <1>1, Bringing
<1>4. Request(c, id)["full_service_name"] = c
  BY RequestFacts
<1> HIDE DEF m
<1>5. Get(m, "full_service_name") = c
  BY <1>3, <1>4 DEF Brought, RequestFields, Get, Has
<1> QED
  BY <1>2, <1>5, CallAssumption

LEMMA EmptyLine ==
  ASSUME NEW c
  PROVE  ~Asked(<<>>, c) /\ Once(<<>>, c)
BY DEF Asked, Once

LEMMA LineAppend ==
  ASSUME NEW q, Requests(q), NEW c, NEW d \in Calls, NEW id \in Nat
  PROVE  LET r == Append(q, Frame(Request(d, id)))
         IN /\ Asked(r, c) <=> Asked(q, c) \/ c = d
            /\ Once(q, c) /\ (c = d => ~Asked(q, c)) => Once(r, c)
<1> DEFINE e == Frame(Request(d, id))
           r == Append(q, e)
<1>1. Asks(e, d)
  BY RequestFrames
<1> HIDE DEF e
<1>2. /\ Len(q) \in Nat /\ Len(r) = Len(q) + 1 /\ r[Len(q) + 1] = e
      /\ \A i \in 1..Len(q) : r[i] = q[i]
  BY AppendFacts, SeqFacts DEF Requests
<1> HIDE DEF r
<1>3. Asks(e, c) <=> c = d
  BY <1>1, AsksOne
<1>4. \A i \in 1..Len(r) : i = Len(q) + 1 \/ i \in 1..Len(q)
  BY <1>2
<1>5. Len(q) + 1 \in 1..Len(r) /\ \A i \in 1..Len(q) : i \in 1..Len(r)
  BY <1>2
<1>6. Asked(r, c) <=> Asked(q, c) \/ c = d
  BY <1>2, <1>3, <1>4, <1>5 DEF Asked
<1>7. Once(q, c) /\ (c = d => ~Asked(q, c)) => Once(r, c)
  BY <1>2, <1>3, <1>4 DEF Asked, Once
<1> QED
  BY <1>6, <1>7 DEF r, e

LEMMA LineTail ==
  ASSUME NEW q, Requests(q), q # <<>>, NEW c
  PROVE  /\ Asked(Tail(q), c) => Asked(q, c)
         /\ Once(q, c) => Once(Tail(q), c)
         /\ Asks(Head(q), c) => Asked(q, c)
         /\ Asks(Head(q), c) /\ Once(q, c) => ~Asked(Tail(q), c)
<1> DEFINE t == Tail(q)
<1>1. /\ Len(q) \in Nat \ {0} /\ Len(t) = Len(q) - 1 /\ Head(q) = q[1]
      /\ \A i \in 1..Len(t) : t[i] = q[i + 1]
  BY TailFacts DEF Requests
<1> HIDE DEF t
<1>2. 1 \in 1..Len(q) /\ \A i \in 1..Len(t) : i \in Int /\ i + 1 \in 1..Len(q) /\ i + 1 # 1
  BY <1>1
<1>3. Asked(t, c) => Asked(q, c)
  BY <1>1, <1>2 DEF Asked
<1>4. Once(q, c) => Once(t, c)
  <2> SUFFICES ASSUME Once(q, c), NEW i \in 1..Len(t), NEW j \in 1..Len(t), Asks(t[i], c), Asks(t[j], c)
               PROVE  i = j
    BY DEF Once
  <2>1. i + 1 = j + 1
    BY <1>1, <1>2 DEF Once
  <2>2. i \in Int /\ j \in Int
    BY <1>2
  <2> QED
    BY <2>1, <2>2
<1>5. Asks(Head(q), c) => Asked(q, c)
  BY <1>1, <1>2 DEF Asked
<1>6. Asks(Head(q), c) /\ Once(q, c) => ~Asked(t, c)
  BY <1>1, <1>2 DEF Asked, Once
<1> QED
  BY <1>3, <1>4, <1>5, <1>6 DEF t

LEMMA LineCut ==
  ASSUME NEW q, Requests(q), q # <<>>, NEW n \in 0..Len(q[1].fields) - 1, NEW c \in Calls
  PROVE  LET r == [q EXCEPT ![1].fields = Append(SubSeq(@, 1, n), Cut)]
         IN /\ Asked(r, c) => Asked(q, c)
            /\ Once(q, c) => Once(r, c)
<1> DEFINE r == [q EXCEPT ![1].fields = Append(SubSeq(@, 1, n), Cut)]
<1>1. /\ Len(r) = Len(q) /\ IsCut(r[1].fields)
      /\ \A i \in 1..Len(q) : i # 1 => r[i] = q[i]
  BY CutFrames
<1> HIDE DEF r
<1>2. ~Asks(r[1], c)
  BY <1>1, CutAsksNobody
<1>3. \A i \in 1..Len(r) : Asks(r[i], c) => i \in 1..Len(q) /\ Asks(q[i], c)
  BY <1>1, <1>2
<1>4. Asked(r, c) => Asked(q, c)
  BY <1>3 DEF Asked
<1>5. Once(q, c) => Once(r, c)
  BY <1>3 DEF Once
<1> QED
  BY <1>4, <1>5 DEF r

(* What becomes of the objects of a request in a step.                     *)
Kept(ch, c) ==
  heap'[ch][c] = heap[ch][c] /\ proto'[ch][c] = proto[ch][c] /\ holder'[ch][c] = holder[ch][c]

Gone(ch, c) == heap'[ch][c] = {} /\ proto'[ch][c] = New /\ holder'[ch][c] = "none"

KeptBut(ch, c) == \A d \in Channels, e \in Calls : d # ch \/ e # c => Kept(d, e)

Answered(ch, c, objects, p, response, answers) ==
  /\ ~Get(p, "is_canceled") /\ ~IsNotify(p)
  /\ heap'[ch][c] = objects \cup {"buffer"}
  /\ proto'[ch][c] = Answer(p, response)
  /\ holder'[ch][c] = "write"
  /\ fault' = IF ch \in open THEN fault ELSE Fault("write on a closed channel")
  /\ toClient' = [answers EXCEPT ![ch] = Append(@, Frame(Answer(p, response)))]

LEMMA DeleteFacts ==
  ASSUME ObjectsOK(heap, proto, holder), NEW ch \in Channels, NEW c \in Calls,
         NEW objects, Delete({<<ch, c>>}, objects)
  PROVE  /\ Gone(ch, c) /\ KeptBut(ch, c)
         /\ fault' = IF DeletedOnce(objects[ch][c]) THEN fault ELSE Fault("freed twice")
<1> DEFINE pairs == {<<ch, c>>}
<1>1. /\ heap' = [d \in Channels |-> [e \in Calls |-> IF <<d, e>> \in pairs THEN {} ELSE heap[d][e]]]
      /\ proto' = [d \in Channels |-> [e \in Calls |-> IF <<d, e>> \in pairs THEN New ELSE proto[d][e]]]
      /\ holder' = [d \in Channels |-> [e \in Calls |->
                      IF <<d, e>> \in pairs THEN "none" ELSE holder[d][e]]]
      /\ fault' = IF \A pair \in pairs : DeletedOnce(objects[pair[1]][pair[2]])
                  THEN fault ELSE Fault("freed twice")
  BY DEF Delete
<1>2. \A d \in Channels, e \in Calls : <<d, e>> \in pairs <=> d = ch /\ e = c
  OBVIOUS
<1>3. (\A pair \in pairs : DeletedOnce(objects[pair[1]][pair[2]])) <=> DeletedOnce(objects[ch][c])
  OBVIOUS
<1> HIDE DEF pairs
<1> QED
  BY <1>1, <1>2, <1>3 DEF Gone, KeptBut, Kept

(* One request is given to somebody.                                       *)
Given(ch, c, objects, m, who) ==
  heap'[ch][c] = objects /\ proto'[ch][c] = m /\ holder'[ch][c] = who

LEMMA GivenFacts ==
  ASSUME ObjectsOK(heap, proto, holder), NEW ch \in Channels, NEW c \in Calls,
         NEW objects, NEW m, NEW who,
         heap' = [heap EXCEPT ![ch][c] = objects], proto' = [proto EXCEPT ![ch][c] = m],
         holder' = [holder EXCEPT ![ch][c] = who]
  PROVE  KeptBut(ch, c) /\ Given(ch, c, objects, m, who)
<1>1. heap'[ch][c] = objects /\ \A d \in Channels, e \in Calls : d # ch \/ e # c => heap'[d][e] = heap[d][e]
  <2>1. heap = [d \in Channels |-> [e \in Calls |-> heap[d][e]]] /\ heap' = [heap EXCEPT ![ch][c] = objects]
    BY DEF ObjectsOK
  <2> QED
    BY <2>1
<1>2. proto'[ch][c] = m /\ \A d \in Channels, e \in Calls : d # ch \/ e # c => proto'[d][e] = proto[d][e]
  <2>1. proto = [d \in Channels |-> [e \in Calls |-> proto[d][e]]] /\ proto' = [proto EXCEPT ![ch][c] = m]
    BY DEF ObjectsOK, ProtoOK
  <2> QED
    BY <2>1
<1>3. holder'[ch][c] = who /\ \A d \in Channels, e \in Calls : d # ch \/ e # c => holder'[d][e] = holder[d][e]
  <2>1. holder = [d \in Channels |-> [e \in Calls |-> holder[d][e]]] /\ holder' = [holder EXCEPT ![ch][c] = who]
    BY DEF ObjectsOK
  <2> QED
    BY <2>1
<1> QED
  BY <1>1, <1>2, <1>3 DEF KeptBut, Kept, Given

LEMMA ClosureRunFacts ==
  ASSUME ObjectsOK(heap, proto, holder), NEW ch \in Channels, NEW c \in Calls,
         NEW objects, NEW p, NEW response, NEW answers,
         TcpClosureRun(ch, c, objects, p, response, answers)
  PROVE  /\ KeptBut(ch, c)
         /\ \/ /\ Gone(ch, c) /\ toClient' = answers
               /\ fault' = IF DeletedOnce(objects) THEN fault ELSE Fault("freed twice")
            \/ Answered(ch, c, objects, p, response, answers)
<1>1. ASSUME Delete({<<ch, c>>}, [heap EXCEPT ![ch][c] = objects])
      PROVE  /\ KeptBut(ch, c) /\ Gone(ch, c)
             /\ fault' = IF DeletedOnce(objects) THEN fault ELSE Fault("freed twice")
  <2>1. [heap EXCEPT ![ch][c] = objects][ch][c] = objects
    BY DEF ObjectsOK
  <2> QED
    BY <1>1, <2>1, DeleteFacts
<1>2. ASSUME ~Get(p, "is_canceled"), ~IsNotify(p),
             heap' = [heap EXCEPT ![ch][c] = objects \cup {"buffer"}],
             proto' = [proto EXCEPT ![ch][c] = Answer(p, response)],
             holder' = [holder EXCEPT ![ch][c] = "write"],
             fault' = IF ch \in open THEN fault ELSE Fault("write on a closed channel"),
             toClient' = [answers EXCEPT ![ch] = Append(@, Frame(Answer(p, response)))]
      PROVE  KeptBut(ch, c) /\ Answered(ch, c, objects, p, response, answers)
  <2>1. KeptBut(ch, c) /\ Given(ch, c, objects \cup {"buffer"}, Answer(p, response), "write")
    BY <1>2, GivenFacts
  <2> QED
    BY <1>2, <2>1 DEF Given, Answered
<1> QED
  BY <1>1, <1>2 DEF TcpClosureRun

(* Where the request of a call is: under way to a server, with whoever has *)
(* its closure, or on its way to the other server on behalf of this one.   *)
Path(c) ==
  /\ \A ch \in Channels : Asked(toServer[ch], c) => holder[ch][c] = "none"
  /\ \A f \in Fronts : Asked(toServer[f], c) =>
       /\ f = From[c] /\ holder[Back][c] = "none"
       /\ ~Asked(toServer[Back], c) /\ c \notin Waiting(Back)
  /\ result[c].state = "unsent" =>
       /\ c \notin Waiting(Back)
       /\ \A ch \in Channels : holder[ch][c] = "none" /\ ~Asked(toServer[ch], c)
  /\ \A ch \in Channels : holder[ch][c] = "back" => ch = From[c] /\ c \in Waiting(Back)
  /\ c \in Waiting(Back) => holder[From[c]][c] = "back"

AllOnce == \A ch \in Channels, c \in Calls : Once(toServer[ch], c)

WaitOnce ==
  \A i, j \in DOMAIN asyncResult[Back] : asyncResult[Back][i] = asyncResult[Back][j] => i = j

LineInv == AllOnce /\ WaitOnce /\ \A c \in Calls : Path(c)

LEMMA InitLines == Init => LineInv
<1> SUFFICES ASSUME Init PROVE LineInv
  OBVIOUS
<1>1. \A ch \in Channels, c \in Calls :
        holder[ch][c] = "none" /\ ~Asked(toServer[ch], c) /\ Once(toServer[ch], c)
  BY EmptyLine DEF Init
<1>2. DOMAIN asyncResult[Back] = {}
  BY NewFacts DEF Init, Channels
<1>3. \A c : c \notin Waiting(Back)
  BY <1>2 DEF Waiting
<1>4. \A f \in Fronts : f \in Channels
  BY DEF Channels
<1> QED
  BY <1>1, <1>2, <1>3, <1>4 DEF LineInv, AllOnce, WaitOnce, Path

LEMMA SameWaiting ==
  ASSUME asyncResult'[Back] = asyncResult[Back]
  PROVE  Waiting(Back)' = Waiting(Back)
BY DEF Waiting

LEMMA PathKept ==
  ASSUME NEW c \in Calls, Path(c),
         \A ch \in Channels : Asked(toServer'[ch], c) => Asked(toServer[ch], c),
         result'[c].state = "unsent" => result[c].state = "unsent",
         c \in Waiting(Back)' <=> c \in Waiting(Back),
         \A ch \in Channels :
           \/ holder'[ch][c] = holder[ch][c]
           \/ holder[ch][c] \in {"service", "write"} /\ holder'[ch][c] # "back"
  PROVE  Path(c)'
<1>1. Back \in Channels /\ From[c] \in Channels /\ \A f \in Fronts : f \in Channels
  BY CallAssumption DEF Channels
<1>2. \A ch \in Channels : /\ holder[ch][c] \in {"none", "back"} => holder'[ch][c] = holder[ch][c]
                           /\ holder'[ch][c] = "back" => holder[ch][c] = "back"
  OBVIOUS
<1> QED
  BY <1>1, <1>2 DEF Path

LEMMA LinesKept ==
  ASSUME LineInv,
         \A ch \in Channels, c \in Calls :
           /\ Asked(toServer'[ch], c) => Asked(toServer[ch], c)
           /\ Once(toServer[ch], c) => Once(toServer'[ch], c),
         \A c \in Calls : result'[c].state = "unsent" => result[c].state = "unsent",
         asyncResult'[Back] = asyncResult[Back],
         \A ch \in Channels, c \in Calls :
           \/ holder'[ch][c] = holder[ch][c]
           \/ holder[ch][c] \in {"service", "write"} /\ holder'[ch][c] # "back"
  PROVE  LineInv'
<1>1. AllOnce' /\ WaitOnce'
  BY DEF LineInv, AllOnce, WaitOnce
<1>2. Waiting(Back)' = Waiting(Back)
  BY SameWaiting
<1>3. \A c \in Calls : Path(c)'
  BY <1>2, PathKept DEF LineInv
<1> QED
  BY <1>1, <1>3 DEF LineInv

(* The request for c that comes first on ch is handled there.              *)
LEMMA PathHandled ==
  ASSUME NEW ch \in Channels, NEW c \in Calls, Path(c),
         Asked(toServer[ch], c), ~Asked(toServer'[ch], c),
         \A d \in Channels : Asked(toServer'[d], c) => Asked(toServer[d], c),
         UNCHANGED result,
         c \in Waiting(Back)' <=> c \in Waiting(Back),
         \A d \in Channels : d # ch => holder'[d][c] = holder[d][c],
         holder'[ch][c] # "back"
  PROVE  Path(c)'
<1>1. Back \in Channels /\ From[c] \in Channels /\ \A f \in Fronts : f \in Channels /\ f # Back
  BY CallAssumption, ChannelAssumption DEF Channels
<1>2. ch = Back \/ ch \in Fronts
  BY DEF Channels
<1>3. holder[ch][c] = "none" /\ result[c].state # "unsent" /\ (c \in Waiting(Back) => From[c] # ch)
  BY DEF Path
<1>4. \A d \in Channels : Asked(toServer'[d], c) => holder'[d][c] = "none"
  BY DEF Path
<1>5. \A f \in Fronts : ~Asked(toServer'[f], c)
  <2> SUFFICES ASSUME NEW f \in Fronts, Asked(toServer'[f], c) PROVE FALSE
    OBVIOUS
  <2>1. Asked(toServer[f], c) /\ f # ch
    BY <1>1
  <2>2. f = From[c] /\ ~Asked(toServer[Back], c)
    BY <2>1 DEF Path
  <2>3. ch # Back /\ ch \in Fronts
    BY <1>2, <2>2
  <2>4. ch = From[c]
    BY <2>3 DEF Path
  <2> QED
    BY <2>1, <2>2, <2>4
<1>6. \A d \in Channels : holder'[d][c] = "back" => holder[d][c] = "back"
  OBVIOUS
<1>7. c \in Waiting(Back)' => holder'[From[c]][c] = "back"
  BY <1>1, <1>3 DEF Path
<1> QED
  BY <1>3, <1>4, <1>5, <1>6, <1>7 DEF Path

LEMMA CallFacts ==
  ASSUME TypeInv, NEW c \in Calls, Call(c)
  PROVE  /\ From[c] \in Fronts /\ From[c] \in Channels /\ From[c] # Back
         /\ result[c].state = "unsent"
         /\ UNCHANGED <<open, redirect, router, requestVars, outcome, cuts, redirects, toClient>>
         /\ result'[c].state \in {"waiting", "canceled"}
         /\ \A d \in Calls : d # c => result'[d] = result[d]
         /\ asyncResult'[Back] = asyncResult[Back] /\ transmitId'[Back] = transmitId[Back]
         /\ \/ /\ From[c] \in open /\ CallMethod(From[c], c, toServer)
            \/ UNCHANGED linkVars
<1>1. From[c] \in Fronts /\ From[c] \in Channels /\ From[c] # Back /\ Back \in Channels
  BY CallAssumption, ChannelAssumption DEF Channels
<1>2. IdsOK(asyncResult, transmitId) /\ ServerOK(toServer) /\ result = [d \in Calls |-> result[d]]
  BY DEF TypeInv, ResultOK
<1>3. /\ result[c].state = "unsent"
      /\ UNCHANGED <<open, redirect, router, requestVars, outcome, cuts, redirects>>
      /\ \/ /\ From[c] \in open /\ CallMethod(From[c], c, toServer)
            /\ result' = [result EXCEPT ![c] = Result("waiting", FALSE, New)] /\ UNCHANGED toClient
         \/ /\ result' = [result EXCEPT ![c] = Result("canceled", TRUE, New)]
            /\ UNCHANGED linkVars
  BY DEF Call
<1>4. result'[c].state \in {"waiting", "canceled"} /\ \A d \in Calls : d # c => result'[d] = result[d]
  <2> DEFINE w == Result("waiting", FALSE, New)
             v == Result("canceled", TRUE, New)
  <2>1. w.state = "waiting" /\ v.state = "canceled"
    BY DEF Result
  <2>2. result' = [result EXCEPT ![c] = w] \/ result' = [result EXCEPT ![c] = v]
    BY <1>3
  <2> HIDE DEF v, w
  <2> QED
    BY <1>2, <2>1, <2>2
<1>5. asyncResult'[Back] = asyncResult[Back] /\ transmitId'[Back] = transmitId[Back]
  <2>1. CASE CallMethod(From[c], c, toServer)
    <3>1. asyncResult'[Back] = asyncResult[Back] /\ transmitId' = [transmitId EXCEPT ![From[c]] = @ + 1]
      BY <1>1, <1>2, <2>1, CallMethodTypes
    <3> QED
      BY <1>1, <1>2, <3>1 DEF IdsOK
  <2>2. CASE UNCHANGED linkVars
    BY <2>2 DEF linkVars
  <2> QED
    BY <1>3, <2>1, <2>2
<1>6. UNCHANGED toClient
  BY <1>3 DEF linkVars
<1> QED
  BY <1>1, <1>3, <1>4, <1>5, <1>6

LEMMA CallLines ==
  ASSUME TypeInv, LineInv, NEW c \in Calls, Call(c)
  PROVE  LineInv'
<1> DEFINE f == From[c]
<1>1. /\ f \in Fronts /\ f \in Channels /\ f # Back
      /\ result[c].state = "unsent" /\ result'[c].state # "unsent"
      /\ \A d \in Calls : d # c => result'[d] = result[d]
      /\ UNCHANGED requestVars
      /\ asyncResult'[Back] = asyncResult[Back]
      /\ (f \in open /\ CallMethod(f, c, toServer)) \/ UNCHANGED linkVars
  BY CallFacts
<1>2. IdsOK(asyncResult, transmitId) /\ ServerOK(toServer)
  BY DEF TypeInv
<1>3. holder' = holder /\ Waiting(Back)' = Waiting(Back)
  BY <1>1, SameWaiting DEF requestVars
<1>4. CASE UNCHANGED linkVars
  <2>1. \A d \in Calls : result'[d].state = "unsent" => result[d].state = "unsent"
    BY <1>1
  <2>2. UNCHANGED toServer
    BY <1>4 DEF linkVars
  <2> QED
    BY <1>1, <1>3, <2>1, <2>2, LinesKept
<1>5. CASE CallMethod(f, c, toServer)
  <2>1. /\ toServer' = [toServer EXCEPT ![f] = Append(@, Frame(Request(c, transmitId[f])))]
        /\ transmitId[f] \in Nat
    BY <1>1, <1>2, <1>5, CallMethodTypes
  <2>2. Requests(toServer[f])
    BY <1>1, <1>2 DEF ServerOK
  <2>3. /\ toServer'[f] = Append(toServer[f], Frame(Request(c, transmitId[f])))
        /\ \A d \in Channels : d # f => toServer'[d] = toServer[d]
    BY <1>1, <1>2, <2>1 DEF ServerOK
  <2>4. \A ch \in Channels : holder[ch][c] = "none" /\ ~Asked(toServer[ch], c)
    BY <1>1 DEF LineInv, Path
  <2>5. \A e \in Calls : Once(toServer'[f], e) /\ (Asked(toServer'[f], e) <=> Asked(toServer[f], e) \/ e = c)
    BY <1>1, <2>1, <2>2, <2>3, <2>4, LineAppend DEF LineInv, AllOnce
  <2>6. AllOnce'
    BY <1>1, <2>3, <2>5 DEF LineInv, AllOnce
  <2>7. WaitOnce'
    BY <1>1 DEF LineInv, WaitOnce
  <2>8. ASSUME NEW e \in Calls, e # c PROVE Path(e)'
    <3>1. \A ch \in Channels : Asked(toServer'[ch], e) => Asked(toServer[ch], e)
      BY <2>3, <2>5, <2>8
    <3>2. Path(e) /\ result'[e] = result[e]
      BY <1>1, <2>8 DEF LineInv
    <3> QED
      BY <1>3, <3>1, <3>2, PathKept
  <2>9. Path(c)'
    <3>1. Path(c) /\ c \notin Waiting(Back)
      BY <1>1 DEF LineInv, Path
    <3>2. ~Asked(toServer'[Back], c) /\ \A d \in Fronts : Asked(toServer'[d], c) => d = f
      BY <2>3, <2>4, <1>1 DEF Channels
    <3>3. Back \in Channels
      BY DEF Channels
    <3> QED
      BY <1>1, <1>3, <2>4, <3>1, <3>2, <3>3 DEF Path
  <2> QED
    BY <2>6, <2>7, <2>8, <2>9 DEF LineInv
<1> QED
  BY <1>1, <1>4, <1>5

LEMMA CutLines ==
  ASSUME TypeInv, LineInv, NEW f \in Channels, CutRequest(f)
  PROVE  LineInv'
<1>1. ServerOK(toServer)
  BY DEF TypeInv
<1>2. toServer[f] # <<>> /\ Requests(toServer[f]) /\ Head(toServer[f]) = toServer[f][1]
  BY <1>1, TailFacts DEF CutRequest, ServerOK, Requests
<1>3. PICK n \in 0..Len(toServer[f][1].fields) - 1 :
        toServer' = [toServer EXCEPT ![f][1].fields = Append(SubSeq(@, 1, n), Cut)]
  BY <1>2 DEF CutRequest
<1> DEFINE r == [toServer[f] EXCEPT ![1].fields = Append(SubSeq(@, 1, n), Cut)]
<1>4. \A c \in Calls : /\ Asked(r, c) => Asked(toServer[f], c)
                       /\ Once(toServer[f], c) => Once(r, c)
  BY <1>2, LineCut
<1>5. toServer' = [toServer EXCEPT ![f] = r]
  BY <1>3
<1> HIDE DEF r
<1>6. toServer'[f] = r /\ \A d \in Channels : d # f => toServer'[d] = toServer[d]
  BY <1>1, <1>5 DEF ServerOK
<1>7. asyncResult' = asyncResult /\ holder' = holder /\ result' = result
  BY DEF CutRequest, requestVars
<1>8. \A ch \in Channels, c \in Calls :
           /\ Asked(toServer'[ch], c) => Asked(toServer[ch], c)
           /\ Once(toServer[ch], c) => Once(toServer'[ch], c)
  BY <1>4, <1>6
<1> QED
  BY <1>7, <1>8, LinesKept

(* What is left of the frames of ch when the first is handled.             *)
LEMMA RestFacts ==
  ASSUME TypeInv, LineInv, NEW ch \in Channels, toServer[ch] # <<>>
  PROVE  LET rest == [toServer EXCEPT ![ch] = Tail(@)]
         IN /\ ServerOK(rest)
            /\ \A d \in Channels, e \in Calls :
                 /\ Asked(rest[d], e) => Asked(toServer[d], e)
                 /\ Once(rest[d], e)
            /\ \A d \in Channels : d # ch => rest[d] = toServer[d]
            /\ \A c \in Calls : Asks(Head(toServer[ch]), c) =>
                 Asked(toServer[ch], c) /\ ~Asked(rest[ch], c)
<1> DEFINE rest == [toServer EXCEPT ![ch] = Tail(@)]
<1>1. ServerOK(toServer) /\ Requests(toServer[ch])
  BY DEF TypeInv, ServerOK
<1>2. rest[ch] = Tail(toServer[ch]) /\ \A d \in Channels : d # ch => rest[d] = toServer[d]
  BY <1>1 DEF ServerOK
<1>3. ServerOK(rest)
  BY <1>1, QueueFacts, LineUpdates
<1> HIDE DEF rest
<1>4. \A d \in Channels, e \in Calls : Once(toServer[d], e)
  BY DEF LineInv, AllOnce
<1>5. ASSUME NEW e \in Calls
      PROVE  /\ Asked(rest[ch], e) => Asked(toServer[ch], e)
             /\ Once(rest[ch], e)
             /\ Asks(Head(toServer[ch]), e) => Asked(toServer[ch], e) /\ ~Asked(rest[ch], e)
  BY <1>1, <1>2, <1>4, LineTail
<1> QED
  BY <1>2, <1>3, <1>4, <1>5 DEF rest

LEMMA HandedAsks ==
  ASSUME NEW ch, NEW c, NEW id, NEW m, Handed(ch, c, id, m)
  PROVE  c \in Calls /\ id \in Nat /\ Asks(Head(toServer[ch]), c)
BY DEF Handed, Asks

LEMMA ForwardFacts ==
  ASSUME TypeInv, NEW ch \in Channels, NEW c \in Calls, NEW m, NEW rest, ServerOK(rest),
         Forward(ch, c, m, rest)
  PROVE  /\ KeptBut(ch, c) /\ transmitId' = [transmitId EXCEPT ![Back] = @ + 1]
         /\ \A d \in Channels : d # Back => asyncResult'[d] = asyncResult[d]
         /\ \/ /\ Given(ch, c, Objects, m, "back")
               /\ toServer' = [rest EXCEPT ![Back] = Append(@, Frame(Request(c, transmitId[Back])))]
               /\ transmitId[Back] \in Nat /\ transmitId[Back] \notin DOMAIN asyncResult[Back]
               /\ IsSet(asyncResult'[Back], asyncResult[Back], transmitId[Back], c)
               /\ UNCHANGED <<toClient, fault>>
            \/ /\ TcpClosureRun(ch, c, Objects, UvWriteFailed(c, transmitId[Back]), New, toClient)
               /\ toServer' = rest
               /\ UNCHANGED asyncResult
<1>1. ObjectsOK(heap, proto, holder) /\ IdsOK(asyncResult, transmitId) /\ Back \in Channels
  BY DEF TypeInv, Channels
<1>2. CASE /\ CallMethod(Back, c, rest)
           /\ heap' = [heap EXCEPT ![ch][c] = Objects]
           /\ proto' = [proto EXCEPT ![ch][c] = m]
           /\ holder' = [holder EXCEPT ![ch][c] = "back"]
           /\ UNCHANGED <<toClient, fault>>
  <2>1. KeptBut(ch, c) /\ Given(ch, c, Objects, m, "back")
    BY <1>1, <1>2, GivenFacts
  <2>2. /\ toServer' = [rest EXCEPT ![Back] = Append(@, Frame(Request(c, transmitId[Back])))]
        /\ transmitId' = [transmitId EXCEPT ![Back] = @ + 1]
        /\ transmitId[Back] \in Nat /\ transmitId[Back] \notin DOMAIN asyncResult[Back]
        /\ IsSet(asyncResult'[Back], asyncResult[Back], transmitId[Back], c)
        /\ \A d \in Channels : d # Back => asyncResult'[d] = asyncResult[d]
    BY <1>1, <1>2, CallMethodTypes
  <2> QED
    BY <1>2, <2>1, <2>2
<1>3. CASE /\ TcpClosureRun(ch, c, Objects, UvWriteFailed(c, transmitId[Back]), New, toClient)
           /\ transmitId' = [transmitId EXCEPT ![Back] = @ + 1]
           /\ toServer' = rest
           /\ UNCHANGED asyncResult
  <2>1. KeptBut(ch, c)
    BY <1>1, <1>3, ClosureRunFacts
  <2> QED
    BY <1>3, <2>1
<1> QED
  BY <1>2, <1>3 DEF Forward, UvWriteFailed

(* After TcpClosure::Run the closure is gone or waits for its write.       *)
LEMMA ClosureRunHolder ==
  ASSUME ObjectsOK(heap, proto, holder), NEW ch \in Channels, NEW c \in Calls,
         NEW objects, NEW p, NEW response, NEW answers,
         TcpClosureRun(ch, c, objects, p, response, answers)
  PROVE  KeptBut(ch, c) /\ holder'[ch][c] \in {"none", "write"}
BY ClosureRunFacts DEF Gone, Answered

(* All but Forward leave the request to this process.                      *)
LEMMA HandledHere ==
  ASSUME TypeInv, NEW ch \in Channels, NEW c \in Calls, NEW m, NEW rest, ServerOK(rest),
         \/ \E at \in OutOfMemoryAt : Busy(ch, c, rest, at)
         \/ Serve(ch, c, m, rest)
         \/ \E reason : Refuse(ch, c, m, rest, reason)
  PROVE  /\ KeptBut(ch, c) /\ toServer' = rest /\ UNCHANGED <<asyncResult, transmitId>>
         /\ holder'[ch][c] \in {holder[ch][c], "service", "none", "write"}
<1>1. ObjectsOK(heap, proto, holder)
  BY DEF TypeInv
<1>2. ASSUME NEW at \in OutOfMemoryAt, Busy(ch, c, rest, at)
      PROVE  KeptBut(ch, c) /\ holder' = holder
  <2>1. /\ heap' = [heap EXCEPT ![ch][c] = IF at = "controller" THEN {"proto"} ELSE {}]
        /\ proto' = proto /\ holder' = holder
    BY <1>2 DEF Busy
  <2>2. heap = [d \in Channels |-> [e \in Calls |-> heap[d][e]]]
    BY <1>1 DEF ObjectsOK
  <2>3. \A d \in Channels, e \in Calls : d # ch \/ e # c => heap'[d][e] = heap[d][e]
    BY <2>1, <2>2
  <2> QED
    BY <2>1, <2>3 DEF KeptBut, Kept
<1>3. CASE \E at \in OutOfMemoryAt : Busy(ch, c, rest, at)
  BY <1>2, <1>3 DEF Busy
<1>4. CASE Serve(ch, c, m, rest)
  <2> DEFINE objects == Objects \cup IF c \in OneShot \cup Permanent THEN {"callback"} ELSE {}
  <2>1. /\ heap' = [heap EXCEPT ![ch][c] = objects]
        /\ proto' = [proto EXCEPT ![ch][c] = m]
        /\ holder' = [holder EXCEPT ![ch][c] = "service"]
    BY <1>4 DEF Serve
  <2>2. KeptBut(ch, c) /\ Given(ch, c, objects, m, "service")
    BY <1>1, <2>1, GivenFacts
  <2> QED
    BY <1>4, <2>2 DEF Serve, Given
<1>5. CASE \E reason : Refuse(ch, c, m, rest, reason)
  <2>1. PICK reason : Refuse(ch, c, m, rest, reason)
    BY <1>5
  <2>2. TcpClosureRun(ch, c, Objects, SetFailed(m, reason), New, toClient)
    BY <2>1 DEF Refuse
  <2>3. KeptBut(ch, c) /\ holder'[ch][c] \in {"none", "write"}
    BY <1>1, <2>2, ClosureRunHolder
  <2> QED
    BY <2>1, <2>3 DEF Refuse
<1> QED
  BY <1>3, <1>4, <1>5

LEMMA HandleRequestLines ==
  ASSUME TypeInv, LineInv, NEW ch \in Channels, HandleRequest(ch)
  PROVE  LineInv'
<1> DEFINE rest == [toServer EXCEPT ![ch] = Tail(@)]
<1>1. /\ toServer[ch] # <<>>
      /\ UNCHANGED result
      /\ \/ /\ toServer' = rest
            /\ UNCHANGED <<toClient, asyncResult, transmitId, requestVars>>
         \/ \E c \in Calls, id \in Nat : \E m :
              /\ Handed(ch, c, id, m)
              /\ \/ \E at \in OutOfMemoryAt : Busy(ch, c, rest, at)
                 \/ Serve(ch, c, m, rest)
                 \/ \E reason : Refuse(ch, c, m, rest, reason)
                 \/ ch # Back /\ Forward(ch, c, m, rest)
  BY HandleRequestCases
<1>2. /\ ServerOK(rest)
      /\ \A d \in Channels, e \in Calls :
           /\ Asked(rest[d], e) => Asked(toServer[d], e)
           /\ Once(rest[d], e)
      /\ \A c \in Calls : Asks(Head(toServer[ch]), c) =>
           Asked(toServer[ch], c) /\ ~Asked(rest[ch], c)
  BY <1>1, RestFacts
<1> HIDE DEF rest
<1>3. CASE /\ toServer' = rest
           /\ UNCHANGED <<toClient, asyncResult, transmitId, requestVars>>
  BY <1>1, <1>2, <1>3, LinesKept DEF requestVars
<1>4. ASSUME NEW c \in Calls, NEW id \in Nat, NEW m, Handed(ch, c, id, m),
             \/ \E at \in OutOfMemoryAt : Busy(ch, c, rest, at)
             \/ Serve(ch, c, m, rest)
             \/ \E reason : Refuse(ch, c, m, rest, reason)
             \/ ch # Back /\ Forward(ch, c, m, rest)
      PROVE  LineInv'
  <2>1. Asked(toServer[ch], c) /\ ~Asked(rest[ch], c)
    BY <1>2, <1>4, HandedAsks
  <2>2. Path(c) /\ holder[ch][c] = "none"
    BY <2>1 DEF LineInv, Path
  <2>3. ASSUME toServer' = rest, asyncResult'[Back] = asyncResult[Back], KeptBut(ch, c), holder'[ch][c] # "back"
        PROVE  LineInv'
    <3>1. AllOnce' /\ WaitOnce'
      BY <1>2, <2>3 DEF LineInv, AllOnce, WaitOnce
    <3>2. Waiting(Back)' = Waiting(Back)
      BY <2>3, SameWaiting
    <3>3. ASSUME NEW e \in Calls, e # c PROVE Path(e)'
      <4>1. \A d \in Channels : holder'[d][e] = holder[d][e]
        BY <2>3, <3>3 DEF KeptBut, Kept
      <4>2. Path(e)
        BY DEF LineInv
      <4> QED
        BY <1>1, <1>2, <2>3, <3>2, <4>1, <4>2, PathKept
    <3>4. Path(c)'
      <4>1. \A d \in Channels : d # ch => holder'[d][c] = holder[d][c]
        BY <2>3 DEF KeptBut, Kept
      <4> QED
        BY <1>1, <1>2, <2>1, <2>2, <2>3, <3>2, <4>1, PathHandled
    <3> QED
      BY <3>1, <3>3, <3>4 DEF LineInv
  <2>4. CASE \/ \E at \in OutOfMemoryAt : Busy(ch, c, rest, at)
             \/ Serve(ch, c, m, rest)
             \/ \E reason : Refuse(ch, c, m, rest, reason)
    <3>1. /\ KeptBut(ch, c) /\ toServer' = rest /\ UNCHANGED <<asyncResult, transmitId>>
          /\ holder'[ch][c] \in {holder[ch][c], "service", "none", "write"}
      BY <1>2, <2>4, HandledHere
    <3> QED
      BY <2>2, <2>3, <3>1
  <2>5. CASE ch # Back /\ Forward(ch, c, m, rest)
    <3>1. KeptBut(ch, c)
      BY <1>2, <2>5, ForwardFacts
    <3>2. CASE /\ TcpClosureRun(ch, c, Objects, UvWriteFailed(c, transmitId[Back]), New, toClient)
               /\ toServer' = rest
               /\ UNCHANGED asyncResult
      <4>1. holder'[ch][c] \in {"none", "write"}
        BY <3>2, ClosureRunHolder DEF TypeInv
      <4> QED
        BY <2>3, <3>1, <3>2, <4>1
    <3>3. CASE /\ Given(ch, c, Objects, m, "back")
               /\ toServer' = [rest EXCEPT ![Back] = Append(@, Frame(Request(c, transmitId[Back])))]
               /\ transmitId[Back] \in Nat /\ transmitId[Back] \notin DOMAIN asyncResult[Back]
               /\ IsSet(asyncResult'[Back], asyncResult[Back], transmitId[Back], c)
      <4> DEFINE id0 == transmitId[Back]
      <4>1. Back \in Channels /\ ch \in Fronts /\ ch # Back
        BY <2>5 DEF Channels
      <4>2. ch = From[c] /\ holder[Back][c] = "none" /\ ~Asked(toServer[Back], c) /\ c \notin Waiting(Back)
        BY <2>1, <2>2, <4>1 DEF Path
      <4>3. toServer'[Back] = Append(rest[Back], Frame(Request(c, id0)))
            /\ \A d \in Channels : d # Back => toServer'[d] = rest[d]
        BY <1>2, <3>3, <4>1 DEF ServerOK
      <4>4. Requests(rest[Back])
        BY <1>2, <4>1 DEF ServerOK
      <4>5. \A e \in Calls : Once(toServer'[Back], e) /\ (Asked(toServer'[Back], e) <=> Asked(rest[Back], e) \/ e = c)
        BY <1>2, <3>3, <4>1, <4>2, <4>3, <4>4, LineAppend
      <4>6. AllOnce'
        BY <1>2, <4>3, <4>5 DEF AllOnce
      <4>7. /\ DOMAIN asyncResult'[Back] = DOMAIN asyncResult[Back] \cup {id0}
            /\ asyncResult'[Back][id0] = c
            /\ \A i \in DOMAIN asyncResult[Back] : asyncResult'[Back][i] = asyncResult[Back][i]
        BY <3>3 DEF IsSet, Has
      <4>8. Waiting(Back)' = Waiting(Back) \cup {c}
        BY <4>7 DEF Waiting
      <4>9. WaitOnce'
        <5>1. \A i \in DOMAIN asyncResult[Back] : asyncResult[Back][i] # c
          BY <4>2 DEF Waiting
        <5>2. WaitOnce
          BY DEF LineInv
        <5> QED
          BY <4>7, <5>1, <5>2 DEF WaitOnce
      <4>10. ASSUME NEW e \in Calls, e # c PROVE Path(e)'
        <5>1. \A d \in Channels : holder'[d][e] = holder[d][e]
          BY <3>1, <4>10 DEF KeptBut, Kept
        <5>2. Path(e)
          BY DEF LineInv
        <5>3. \A d \in Channels : Asked(toServer'[d], e) => Asked(toServer[d], e)
          BY <1>2, <4>3, <4>5, <4>10
        <5>4. e \in Waiting(Back)' <=> e \in Waiting(Back)
          BY <4>8, <4>10
        <5> QED
          BY <1>1, <5>1, <5>2, <5>3, <5>4, PathKept
      <4>11. Path(c)'
        <5>1. holder'[ch][c] = "back" /\ \A d \in Channels : d # ch => holder'[d][c] = holder[d][c]
          BY <3>1, <3>3 DEF KeptBut, Kept, Given
        <5>2. \A f \in Fronts : ~Asked(toServer'[f], c)
          <6> SUFFICES ASSUME NEW f \in Fronts, Asked(toServer'[f], c) PROVE FALSE
            OBVIOUS
          <6>1. f \in Channels /\ f # Back
            BY ChannelAssumption DEF Channels
          <6>2. Asked(toServer[f], c) /\ f # ch
            BY <1>2, <2>1, <4>3, <6>1
          <6> QED
            BY <2>2, <4>2, <6>2 DEF Path
        <5>3. \A d \in Channels : Asked(toServer'[d], c) => d = Back
          BY <5>2 DEF Channels
        <5>4. result'[c].state # "unsent"
          BY <1>1, <2>1, <2>2 DEF Path
        <5>5. \A d \in Channels : holder'[d][c] = "back" => d = From[c]
          BY <2>2, <4>2, <5>1 DEF Path
        <5> QED
          BY <4>1, <4>2, <4>8, <5>1, <5>2, <5>3, <5>4, <5>5 DEF Path
      <4> QED
        BY <4>6, <4>9, <4>10, <4>11 DEF LineInv
    <3> QED
      BY <1>2, <2>5, <3>2, <3>3, ForwardFacts
  <2> QED
    BY <1>4, <2>4, <2>5
<1> QED
  BY <1>1, <1>3, <1>4

(* HandleResponse on ch with the message m: nobody waits, or the closure   *)
(* of a forwarded request runs, or the caller has its answer.              *)
LEMMA HandleResponseFacts ==
  ASSUME TypeInv, NEW ch \in Channels, NEW m, NEW answers, HandleResponse(ch, m, answers)
  PROVE  LET id == Get(m, "transmit_id")
             c == asyncResult[ch][id]
         IN \/ toClient' = answers /\ UNCHANGED <<asyncResult, requestVars, result>>
            \/ /\ id \in DOMAIN asyncResult[ch] /\ c \in Calls
               /\ From[c] \in Channels /\ From[c] \in Fronts
               /\ DOMAIN asyncResult'[ch] = DOMAIN asyncResult[ch] \ {id}
               /\ \A i \in DOMAIN asyncResult'[ch] : asyncResult'[ch][i] = asyncResult[ch][i]
               /\ \A d \in Channels : d # ch => asyncResult'[d] = asyncResult[d]
               /\ \/ /\ ch = Back
                     /\ TcpClosureRun(From[c], c, heap[From[c]][c], m, ParseResponse(m), answers)
                     /\ UNCHANGED result
                  \/ /\ ch # Back
                     /\ result'[c] = Result("replied", Get(m, "failed"), ParseResponse(m))
                     /\ \A d \in Calls : d # c => result'[d] = result[d]
                     /\ toClient' = answers
                     /\ UNCHANGED requestVars
<1> DEFINE id == Get(m, "transmit_id")
           c == asyncResult[ch][id]
           a == ClearField(asyncResult[ch], id)
<1>1. \/ /\ ~Has(asyncResult[ch], id)
         /\ toClient' = answers
         /\ UNCHANGED <<asyncResult, requestVars, result>>
      \/ /\ Has(asyncResult[ch], id)
         /\ asyncResult' = [asyncResult EXCEPT ![ch] = a]
         /\ \/ /\ ch = Back
               /\ TcpClosureRun(From[c], c, heap[From[c]][c], m, ParseResponse(m), answers)
               /\ UNCHANGED result
            \/ /\ ch # Back
               /\ result' = [result EXCEPT ![c] =
                      Result("replied", Get(m, "failed"), ParseResponse(m))]
               /\ toClient' = answers
               /\ UNCHANGED requestVars
  BY DEF HandleResponse
<1>2. IdsOK(asyncResult, transmitId) /\ ResultOK(result)
  BY DEF TypeInv
<1>3. DOMAIN a = DOMAIN asyncResult[ch] \ {id} /\ \A i \in DOMAIN a : a[i] = asyncResult[ch][i]
  BY DEF ClearField, Restrict
<1> HIDE DEF a, id
<1>4. ASSUME Has(asyncResult[ch], id), asyncResult' = [asyncResult EXCEPT ![ch] = a]
      PROVE  /\ id \in DOMAIN asyncResult[ch] /\ c \in Calls
             /\ From[c] \in Channels /\ From[c] \in Fronts
             /\ asyncResult'[ch] = a /\ \A d \in Channels : d # ch => asyncResult'[d] = asyncResult[d]
  <2>1. id \in DOMAIN asyncResult[ch] /\ c \in Calls
    BY <1>2, <1>4 DEF IdsOK, Ids, Has
  <2>2. asyncResult'[ch] = a /\ \A d \in Channels : d # ch => asyncResult'[d] = asyncResult[d]
    BY <1>2, <1>4 DEF IdsOK
  <2> QED
    BY <2>1, <2>2, CallAssumption DEF Channels
<1>5. ASSUME c \in Calls, NEW v, result' = [result EXCEPT ![c] = v]
      PROVE  result'[c] = v /\ \A d \in Calls : d # c => result'[d] = result[d]
  BY <1>2, <1>5 DEF ResultOK
<1> HIDE DEF c
<1>6. CASE ~Has(asyncResult[ch], id)
  BY <1>1, <1>6
<1>7. CASE Has(asyncResult[ch], id)
  BY <1>1, <1>3, <1>4, <1>5, <1>7 DEF c, id
<1> QED
  BY <1>6, <1>7

LEMMA HandleResponseLines ==
  ASSUME TypeInv, LineInv, NEW ch \in Channels, NEW m, NEW answers, HandleResponse(ch, m, answers),
         UNCHANGED toServer
  PROVE  LineInv'
<1> DEFINE id == Get(m, "transmit_id")
           c == asyncResult[ch][id]
<1>1. \/ toClient' = answers /\ UNCHANGED <<asyncResult, requestVars, result>>
      \/ /\ id \in DOMAIN asyncResult[ch] /\ c \in Calls
         /\ From[c] \in Channels /\ From[c] \in Fronts
         /\ DOMAIN asyncResult'[ch] = DOMAIN asyncResult[ch] \ {id}
         /\ \A i \in DOMAIN asyncResult'[ch] : asyncResult'[ch][i] = asyncResult[ch][i]
         /\ \A d \in Channels : d # ch => asyncResult'[d] = asyncResult[d]
         /\ \/ /\ ch = Back
               /\ TcpClosureRun(From[c], c, heap[From[c]][c], m, ParseResponse(m), answers)
               /\ UNCHANGED result
            \/ /\ ch # Back
               /\ result'[c] = Result("replied", Get(m, "failed"), ParseResponse(m))
               /\ \A d \in Calls : d # c => result'[d] = result[d]
               /\ toClient' = answers
               /\ UNCHANGED requestVars
  BY HandleResponseFacts
<1> HIDE DEF id
<1>2. Back \in Channels
  BY DEF Channels
<1>3. CASE UNCHANGED <<asyncResult, requestVars, result>>
  BY <1>3, LinesKept DEF requestVars
<1>4. CASE /\ ch # Back /\ c \in Calls
           /\ \A d \in Channels : d # ch => asyncResult'[d] = asyncResult[d]
           /\ result'[c] = Result("replied", Get(m, "failed"), ParseResponse(m))
           /\ \A d \in Calls : d # c => result'[d] = result[d]
           /\ UNCHANGED requestVars
  <2>1. \A d \in Calls : result'[d].state = "unsent" => result[d].state = "unsent"
    BY <1>4 DEF Result
  <2>2. asyncResult'[Back] = asyncResult[Back] /\ holder' = holder
    BY <1>2, <1>4 DEF requestVars
  <2> QED
    BY <2>1, <2>2, LinesKept
<1> HIDE DEF c
<1>5. ASSUME NEW k \in Calls, k = c, ch = Back, id \in DOMAIN asyncResult[Back],
             From[k] \in Channels, From[k] \in Fronts,
             DOMAIN asyncResult'[Back] = DOMAIN asyncResult[Back] \ {id},
             \A i \in DOMAIN asyncResult'[Back] : asyncResult'[Back][i] = asyncResult[Back][i],
             TcpClosureRun(From[k], k, heap[From[k]][k], m, ParseResponse(m), answers),
             UNCHANGED result
      PROVE  LineInv'
  <2>1. k = asyncResult[Back][id]
    BY <1>5 DEF c
  <2>2. KeptBut(From[k], k) /\ holder'[From[k]][k] \in {"none", "write"}
    BY <1>5, ClosureRunHolder DEF TypeInv
  <2>3. WaitOnce /\ Path(k) /\ k \in Waiting(Back)
    BY <1>5, <2>1 DEF LineInv, Waiting
  <2>4. WaitOnce'
    BY <1>5, <2>3 DEF WaitOnce
  <2>5. Waiting(Back)' = Waiting(Back) \ {k}
    BY <1>5, <2>1, <2>3 DEF Waiting, WaitOnce
  <2>6. AllOnce'
    BY DEF LineInv, AllOnce
  <2>7. ASSUME NEW e \in Calls, e # k PROVE Path(e)'
    <3>1. \A d \in Channels : holder'[d][e] = holder[d][e]
      BY <2>2, <2>7 DEF KeptBut, Kept
    <3>2. Path(e) /\ (e \in Waiting(Back)' <=> e \in Waiting(Back))
      BY <2>5, <2>7 DEF LineInv
    <3> QED
      BY <1>5, <3>1, <3>2, PathKept
  <2>8. Path(k)'
    <3>1. \A d \in Channels : d # From[k] => holder'[d][k] = holder[d][k]
      BY <1>5, <2>2 DEF KeptBut, Kept
    <3>2. holder[From[k]][k] = "back" /\ result[k].state # "unsent"
      BY <1>5, <2>3 DEF Path
    <3>3. \A d \in Channels : ~(holder'[d][k] = "back")
      BY <2>2, <2>3, <3>1 DEF Path
    <3>4. \A f \in Fronts : ~Asked(toServer'[f], k)
      <4>1. \A f \in Fronts : f \in Channels
        BY DEF Channels
      <4> QED
        BY <2>3, <4>1 DEF Path
    <3>5. \A d \in Channels : Asked(toServer'[d], k) => holder'[d][k] = "none"
      <4>1. ~Asked(toServer'[From[k]], k)
        BY <1>5, <3>4
      <4> QED
        BY <1>5, <2>3, <3>1, <4>1 DEF Path
    <3> QED
      BY <1>5, <2>5, <3>2, <3>3, <3>4, <3>5 DEF Path
  <2> QED
    BY <1>5, <2>4, <2>6, <2>7, <2>8 DEF LineInv
<1> QED
  BY <1>1, <1>3, <1>4, <1>5

LEMMA CloseBackLines ==
  ASSUME TypeInv, LineInv, CloseBack
  PROVE  LineInv'
<1> DEFINE ended == {<<From[c], c>> : c \in Waiting(Back)}
<1>1. /\ toServer' = [toServer EXCEPT ![Back] = <<>>]
      /\ asyncResult' = [asyncResult EXCEPT ![Back] = New]
      /\ holder' = [ch \in Channels |-> [c \in Calls |->
            IF <<ch, c>> \in ended THEN "none" ELSE holder[ch][c]]]
      /\ UNCHANGED result
  BY CloseBackFacts
<1>2. Back \in Channels /\ ServerOK(toServer) /\ IdsOK(asyncResult, transmitId)
  BY DEF TypeInv, Channels
<1>3. \A ch \in Channels, c \in Calls : <<ch, c>> \in ended <=> ch = From[c] /\ c \in Waiting(Back)
  OBVIOUS
<1> HIDE DEF ended
<1>4. \A ch \in Channels, c \in Calls :
        holder'[ch][c] = IF ch = From[c] /\ c \in Waiting(Back) THEN "none" ELSE holder[ch][c]
  BY <1>1, <1>3
<1>5. toServer'[Back] = <<>> /\ \A d \in Channels : d # Back => toServer'[d] = toServer[d]
  BY <1>1, <1>2 DEF ServerOK
<1>6. asyncResult'[Back] = New
  BY <1>1, <1>2 DEF IdsOK
<1>7. DOMAIN asyncResult'[Back] = {}
  BY <1>6, NewFacts
<1>8. WaitOnce' /\ \A c : c \notin Waiting(Back)'
  BY <1>7 DEF WaitOnce, Waiting
<1>9. \A ch \in Channels, c \in Calls :
        /\ Asked(toServer'[ch], c) => Asked(toServer[ch], c)
        /\ Once(toServer'[ch], c)
  BY <1>5, EmptyLine DEF LineInv, AllOnce
<1>10. AllOnce'
  BY <1>9 DEF AllOnce
<1>11. ASSUME NEW c \in Calls PROVE Path(c)'
  <2>1. Path(c) /\ \A f \in Fronts : f \in Channels
    BY DEF LineInv, Channels
  <2>2. \A ch \in Channels : holder[ch][c] = "none" => holder'[ch][c] = "none"
    BY <1>4
  <2>3. \A ch \in Channels : ~(holder'[ch][c] = "back")
    BY <1>4, <2>1 DEF Path
  <2> QED
    BY <1>1, <1>2, <1>8, <1>9, <2>1, <2>2, <2>3 DEF Path
<1> QED
  BY <1>8, <1>10, <1>11 DEF LineInv

LEMMA CloseFrontLines ==
  ASSUME TypeInv, LineInv, NEW f \in Fronts, CloseFront(f)
  PROVE  LineInv'
<1>1. /\ toServer' = [toServer EXCEPT ![f] = <<>>]
      /\ asyncResult' = [asyncResult EXCEPT ![f] = New]
      /\ result' = [c \in Calls |-> IF c \in Waiting(f) THEN Result("canceled", TRUE, New) ELSE result[c]]
      /\ UNCHANGED holder
  BY DEF CloseFront
<1>2. f # Back /\ Back \in Channels /\ ServerOK(toServer) /\ IdsOK(asyncResult, transmitId)
  BY ChannelAssumption DEF TypeInv, Channels
<1>3. asyncResult'[Back] = asyncResult[Back]
  BY <1>1, <1>2 DEF IdsOK
<1>4. \A d \in Channels : toServer'[d] = <<>> \/ toServer'[d] = toServer[d]
  BY <1>1, <1>2 DEF ServerOK
<1>5. \A ch \in Channels, c \in Calls :
        /\ Asked(toServer'[ch], c) => Asked(toServer[ch], c)
        /\ Once(toServer[ch], c) => Once(toServer'[ch], c)
  BY <1>4, EmptyLine
<1>6. \A c \in Calls : result'[c].state = "unsent" => result[c].state = "unsent"
  <2>1. Result("canceled", TRUE, New).state = "canceled"
    BY DEF Result
  <2> QED
    BY <1>1, <2>1
<1> QED
  BY <1>1, <1>3, <1>5, <1>6, LinesKept

LEMMA StepLines == TypeInv /\ LineInv /\ [Next]_vars => LineInv'
<1> SUFFICES ASSUME TypeInv, LineInv, [Next]_vars PROVE LineInv'
  OBVIOUS
<1>1. ObjectsOK(heap, proto, holder) /\ \A f \in Fronts : f \in Channels
  BY DEF Channels, TypeInv
<1>2. ASSUME NEW c \in Calls, Call(c) PROVE LineInv'
  BY <1>2, CallLines
<1>3. ASSUME NEW f \in Fronts, CutRequest(f) PROVE LineInv'
  BY <1>1, <1>3, CutLines
<1>4. ASSUME NEW f \in Fronts, CloseFront(f) PROVE LineInv'
  BY <1>4, CloseFrontLines
<1>5. ASSUME NEW ch \in Channels, HandleRequest(ch) PROVE LineInv'
  BY <1>5, HandleRequestLines
<1>6. ASSUME NEW ch \in Channels, AnswerArrives(ch) PROVE LineInv'
  BY <1>6, HandleResponseLines DEF AnswerArrives
<1>7. ASSUME NEW ch \in Channels, OneWaySent(ch) PROVE LineInv'
  <2>1. PICK id \in DOMAIN asyncResult[ch] :
          HandleResponse(ch, Request(asyncResult[ch][id], id), toClient)
    BY <1>7 DEF OneWaySent
  <2> QED
    BY <1>7, <2>1, HandleResponseLines DEF OneWaySent
<1>8. ASSUME NEW ch \in Channels, NEW c \in Calls, holder[ch][c] \in {"service", "write"},
             KeptBut(ch, c), holder'[ch][c] \in {"none", "write"},
             UNCHANGED <<toServer, asyncResult, result>>
      PROVE  LineInv'
  BY <1>8, LinesKept DEF KeptBut, Kept
<1>9. ASSUME NEW ch \in Channels, NEW c \in Calls, ServiceRuns(ch, c) PROVE LineInv'
  <2>1. KeptBut(ch, c) /\ holder'[ch][c] \in {"none", "write"}
    BY <1>1, <1>9, ClosureRunHolder DEF ServiceRuns
  <2> QED
    BY <1>8, <1>9, <2>1 DEF ServiceRuns
<1>10. ASSUME NEW ch \in Channels, NEW c \in Calls, AfterSendResponse(ch, c) PROVE LineInv'
  <2>1. KeptBut(ch, c) /\ Gone(ch, c)
    BY <1>1, <1>10, DeleteFacts DEF AfterSendResponse
  <2> QED
    BY <1>8, <1>10, <2>1 DEF AfterSendResponse, Gone, linkVars
<1>11. CASE CloseBack
  BY <1>11, CloseBackLines
<1>12. CASE Redirect
  BY <1>12, LinesKept DEF Redirect, linkVars, requestVars
<1>13. CASE UNCHANGED vars
  BY <1>13, LinesKept DEF vars, linkVars, requestVars
<1> QED
  BY <1>2, <1>3, <1>4, <1>5, <1>6, <1>7, <1>9, <1>10, <1>11, <1>12, <1>13 DEF Next

LEMMA AlwaysLines == Spec => [](TypeInv /\ LineInv)
<1>1. Init => TypeInv /\ LineInv
  BY InitTypes, InitLines
<1>2. (TypeInv /\ LineInv) /\ [Next]_vars => (TypeInv /\ LineInv)'
  BY StepTypes, StepLines
<1> QED
  BY <1>1, <1>2, PTL DEF Spec

-----------------------------------------------------------------------------
(* What a service is handed                                                *)

(* p is what the request for c under the id has brought to ch, canceled or *)
(* not.                                                                    *)
ServedAs(ch, c, id, p) ==
  /\ RequestFields \subseteq DOMAIN p /\ \A f \in RequestFields : p[f] = Request(c, id)[f]
  /\ Get(p, "connection") = Set(New, "id", ch) /\ Get(p, "failed") = FALSE

ServedInv ==
  \A ch \in Channels, c \in Calls :
    holder[ch][c] = "service" => \E id \in Nat : ServedAs(ch, c, id, proto[ch][c])

LEMMA BroughtServed ==
  ASSUME NEW ch, NEW c, NEW id, NEW m, Brought(ch, c, id, m)
  PROVE  ServedAs(ch, c, id, m)
BY DEF Brought, ServedAs, RequestFields, Get, Has, Default

LEMMA CanceledServed ==
  ASSUME NEW ch, NEW c, NEW id, NEW p, InController(p), ServedAs(ch, c, id, p)
  PROVE  ServedAs(ch, c, id, StartCancel(p))
<1> DEFINE q == StartCancel(p)
<1>1. SameBut(q, p, {"is_canceled"})
  BY InControllerCanceled
<1> HIDE DEF q
<1>2. \A f \in RequestFields : f # "is_canceled" /\ Has(p, f)
  BY DEF RequestFields, ServedAs, Has
<1>3. \A f \in RequestFields : Has(q, f) /\ q[f] = p[f]
  BY <1>1, <1>2 DEF SameBut
<1>4. Get(q, "connection") = Get(p, "connection") /\ Get(q, "failed") = Get(p, "failed")
  BY <1>1 DEF SameBut
<1>5. ServedAs(ch, c, id, q)
  BY <1>3, <1>4 DEF ServedAs, Has
<1> QED
  BY <1>5 DEF q

(* How a service comes to have a request.                                  *)
LEMMA ServiceSteps ==
  ASSUME TypeInv, [Next]_vars, NEW ch \in Channels, NEW c \in Calls, holder'[ch][c] = "service"
  PROVE  \/ /\ holder[ch][c] = "service"
            /\ proto'[ch][c] \in {proto[ch][c], StartCancel(proto[ch][c])}
         \/ \E id \in Nat : Handed(ch, c, id, proto'[ch][c])
<1> DEFINE Goal == \/ /\ holder[ch][c] = "service"
                      /\ proto'[ch][c] \in {proto[ch][c], StartCancel(proto[ch][c])}
                   \/ \E id \in Nat : Handed(ch, c, id, proto'[ch][c])
<1>1. ObjectsOK(heap, proto, holder) /\ \A f \in Fronts : f \in Channels
  BY DEF TypeInv, Channels
<1>2. CASE UNCHANGED requestVars
  BY <1>2 DEF requestVars
<1>3. CASE Kept(ch, c)
  BY <1>3 DEF Kept
<1>4. ASSUME NEW d \in Channels, NEW e \in Calls, KeptBut(d, e), holder'[d][e] # "service"
      PROVE  Goal
  <2>1. d # ch \/ e # c
    BY <1>4
  <2> QED
    BY <1>3, <1>4, <2>1 DEF KeptBut
<1>5. ASSUME NEW e \in Calls, Call(e) PROVE Goal
  BY <1>2, <1>5 DEF Call
<1>6. ASSUME NEW f \in Fronts, CutRequest(f) PROVE Goal
  BY <1>2, <1>6 DEF CutRequest
<1>7. ASSUME NEW f \in Fronts, CloseFront(f) PROVE Goal
  <2>1. holder' = holder /\ proto' = [proto EXCEPT ![f] = [e \in Calls |->
                   IF e \in Registered(f) THEN StartCancel(@[e]) ELSE @[e]]]
    BY <1>7 DEF CloseFront
  <2>2. proto = [d \in Channels |-> [e \in Calls |-> proto[d][e]]]
    BY <1>1 DEF ObjectsOK, ProtoOK
  <2>3. proto'[ch][c] \in {proto[ch][c], StartCancel(proto[ch][c])}
    BY <2>1, <2>2
  <2> QED
    BY <2>1, <2>3
<1>8. ASSUME NEW d \in Channels, HandleRequest(d) PROVE Goal
  <2> DEFINE rest == [toServer EXCEPT ![d] = Tail(@)]
  <2>1. /\ toServer[d] # <<>>
        /\ \/ UNCHANGED requestVars
           \/ \E e \in Calls, id \in Nat : \E m :
                /\ Handed(d, e, id, m)
                /\ \/ \E at \in OutOfMemoryAt : Busy(d, e, rest, at)
                   \/ Serve(d, e, m, rest)
                   \/ \E reason : Refuse(d, e, m, rest, reason)
                   \/ Forward(d, e, m, rest)
    BY <1>8, HandleRequestCases
  <2>2. ServerOK(rest)
    <3>1. ServerOK(toServer) /\ Requests(toServer[d])
      BY DEF TypeInv, ServerOK
    <3> QED
      BY <2>1, <3>1, QueueFacts, LineUpdates
  <2> HIDE DEF rest
  <2>3. ASSUME NEW e \in Calls, NEW id \in Nat, NEW m, Handed(d, e, id, m),
               \/ \E at \in OutOfMemoryAt : Busy(d, e, rest, at)
               \/ Serve(d, e, m, rest)
               \/ \E reason : Refuse(d, e, m, rest, reason)
               \/ Forward(d, e, m, rest)
        PROVE  Goal
    <3>1. CASE \E at \in OutOfMemoryAt : Busy(d, e, rest, at)
      <4>1. proto' = proto /\ holder' = holder
        BY <3>1 DEF Busy
      <4> QED
        BY <4>1
    <3>2. CASE Serve(d, e, m, rest)
      <4> DEFINE objects == Objects \cup IF e \in OneShot \cup Permanent THEN {"callback"} ELSE {}
      <4>1. /\ heap' = [heap EXCEPT ![d][e] = objects]
            /\ proto' = [proto EXCEPT ![d][e] = m]
            /\ holder' = [holder EXCEPT ![d][e] = "service"]
        BY <3>2 DEF Serve
      <4>2. KeptBut(d, e) /\ Given(d, e, objects, m, "service")
        BY <1>1, <4>1, GivenFacts
      <4>3. CASE d = ch /\ e = c
        BY <2>3, <4>2, <4>3 DEF Given
      <4>4. CASE d # ch \/ e # c
        BY <1>3, <4>2, <4>4 DEF KeptBut
      <4> QED
        BY <4>3, <4>4
    <3>3. CASE \E reason : Refuse(d, e, m, rest, reason)
      <4>1. PICK reason : TcpClosureRun(d, e, Objects, SetFailed(m, reason), New, toClient)
        BY <3>3 DEF Refuse
      <4>2. KeptBut(d, e) /\ holder'[d][e] \in {"none", "write"}
        BY <1>1, <4>1, ClosureRunHolder
      <4> QED
        BY <1>4, <4>2
    <3>4. CASE Forward(d, e, m, rest)
      <4>1. /\ KeptBut(d, e)
            /\ \/ Given(d, e, Objects, m, "back")
               \/ TcpClosureRun(d, e, Objects, UvWriteFailed(e, transmitId[Back]), New, toClient)
        BY <2>2, <3>4, ForwardFacts
      <4>2. holder'[d][e] # "service"
        BY <1>1, <4>1, ClosureRunHolder DEF Given
      <4> QED
        BY <1>4, <4>1, <4>2
    <3> QED
      BY <2>3, <3>1, <3>2, <3>3, <3>4
  <2> QED
    BY <1>2, <2>1, <2>3
<1>9. ASSUME NEW d \in Channels, NEW m, NEW answers, HandleResponse(d, m, answers) PROVE Goal
  <2> DEFINE e == asyncResult[d][Get(m, "transmit_id")]
  <2>1. \/ UNCHANGED requestVars
        \/ /\ e \in Calls /\ From[e] \in Channels
           /\ TcpClosureRun(From[e], e, heap[From[e]][e], m, ParseResponse(m), answers)
    BY <1>9, HandleResponseFacts
  <2> HIDE DEF e
  <2>2. CASE /\ e \in Calls /\ From[e] \in Channels
             /\ TcpClosureRun(From[e], e, heap[From[e]][e], m, ParseResponse(m), answers)
    <3>1. KeptBut(From[e], e) /\ holder'[From[e]][e] \in {"none", "write"}
      BY <1>1, <2>2, ClosureRunHolder
    <3> QED
      BY <1>4, <2>2, <3>1
  <2> QED
    BY <1>2, <2>1, <2>2
<1>10. ASSUME NEW d \in Channels, AnswerArrives(d) PROVE Goal
  BY <1>9, <1>10 DEF AnswerArrives
<1>11. ASSUME NEW d \in Channels, OneWaySent(d) PROVE Goal
  <2>1. PICK id \in DOMAIN asyncResult[d] :
          HandleResponse(d, Request(asyncResult[d][id], id), toClient)
    BY <1>11 DEF OneWaySent
  <2> QED
    BY <1>9, <2>1
<1>12. ASSUME NEW d \in Channels, NEW e \in Calls, ServiceRuns(d, e) PROVE Goal
  <2>1. KeptBut(d, e) /\ holder'[d][e] \in {"none", "write"}
    BY <1>1, <1>12, ClosureRunHolder DEF ServiceRuns
  <2> QED
    BY <1>4, <2>1
<1>13. ASSUME NEW d \in Channels, NEW e \in Calls, AfterSendResponse(d, e) PROVE Goal
  <2>1. KeptBut(d, e) /\ Gone(d, e)
    BY <1>1, <1>13, DeleteFacts DEF AfterSendResponse
  <2> QED
    BY <1>4, <2>1 DEF Gone
<1>14. CASE CloseBack
  <2> DEFINE ended == {<<From[e], e>> : e \in Waiting(Back)}
  <2>1. /\ proto' = [d \in Channels |-> [e \in Calls |->
               IF <<d, e>> \in ended THEN New
               ELSE IF d = Back /\ e \in Registered(Back) THEN StartCancel(proto[d][e])
               ELSE proto[d][e]]]
        /\ holder' = [d \in Channels |-> [e \in Calls |->
               IF <<d, e>> \in ended THEN "none" ELSE holder[d][e]]]
    BY <1>14, CloseBackFacts
  <2> HIDE DEF ended
  <2>2. <<ch, c>> \notin ended
    BY <2>1
  <2> QED
    BY <2>1, <2>2
<1>15. CASE Redirect \/ UNCHANGED vars
  BY <1>2, <1>15 DEF Redirect, vars
<1> QED
  BY <1>5, <1>6, <1>7, <1>8, <1>10, <1>11, <1>12, <1>13, <1>14, <1>15 DEF Next

LEMMA StepServed == TypeInv /\ ServedInv /\ [Next]_vars => ServedInv'
<1> SUFFICES ASSUME TypeInv, ServedInv, [Next]_vars, NEW ch \in Channels, NEW c \in Calls,
                    holder'[ch][c] = "service"
             PROVE  \E id \in Nat : ServedAs(ch, c, id, proto'[ch][c])
  BY DEF ServedInv
<1>1. InController(proto[ch][c])
  BY DEF TypeInv, ObjectsOK, ProtoOK
<1>2. CASE /\ holder[ch][c] = "service"
           /\ proto'[ch][c] \in {proto[ch][c], StartCancel(proto[ch][c])}
  <2>1. PICK id \in Nat : ServedAs(ch, c, id, proto[ch][c])
    BY <1>2 DEF ServedInv
  <2>2. ServedAs(ch, c, id, StartCancel(proto[ch][c]))
    BY <1>1, <2>1, CanceledServed
  <2> QED
    BY <1>2, <2>1, <2>2
<1>3. CASE \E id \in Nat : Handed(ch, c, id, proto'[ch][c])
  BY <1>3, BroughtServed DEF Handed
<1> QED
  BY <1>2, <1>3, ServiceSteps

LEMMA ServedImplies == ServedInv => ServedInFull
<1> SUFFICES ASSUME ServedInv, NEW ch \in Channels, NEW c \in Calls, holder[ch][c] = "service"
             PROVE  /\ {"stub", "transmit_id", "message", "method_name"} \subseteq DOMAIN proto[ch][c]
                    /\ Parse(New, proto[ch][c]["message"]).message = RequestOf(c)
                    /\ Get(Get(proto[ch][c], "connection"), "id") = ch
  BY DEF ServedInFull
<1>1. PICK id \in Nat : ServedAs(ch, c, id, proto[ch][c])
  BY DEF ServedInv
<1>2. {"stub", "transmit_id", "message", "method_name"} \subseteq DOMAIN proto[ch][c]
  BY <1>1 DEF ServedAs, RequestFields
<1>3. proto[ch][c]["message"] = Serialize(RequestPrototype(Method[c]), RequestOf(c))
  <2>1. proto[ch][c]["message"] = Request(c, id)["message"]
    BY <1>1 DEF ServedAs, RequestFields
  <2> QED
    BY <2>1, RequestFacts
<1>4. Get(Get(proto[ch][c], "connection"), "id") = ch
  <2>1. Get(proto[ch][c], "connection") = Set(New, "id", ch)
    BY <1>1 DEF ServedAs
  <2>2. Get(Set(New, "id", ch), "id") = ch
    BY SetNewFacts DEF Get, Has
  <2> QED
    BY <2>1, <2>2
<1> QED
  BY <1>2, <1>3, <1>4, RequestOfFacts

(* A service never sees half a request, although Handle goes on with what  *)
(* ParseFromArray has read when it fails half way (wire_format.cc:31), and *)
(* the connection it is told of is the one that the request came in by,    *)
(* also when the request was forwarded or canceled in between.             *)
THEOREM WholeRequests == Spec => []ServedInFull
<1>1. Init => ServedInv
  <2> SUFFICES ASSUME Init PROVE ServedInv
    OBVIOUS
  <2>1. \A ch \in Channels, c \in Calls : holder[ch][c] = "none"
    BY DEF Init
  <2> QED
    BY <2>1 DEF ServedInv
<1>2. (TypeInv /\ ServedInv) /\ [Next]_vars => (TypeInv /\ ServedInv)'
  BY StepTypes, StepServed
<1> QED
  BY <1>1, <1>2, InitTypes, ServedImplies, PTL DEF Spec

-----------------------------------------------------------------------------
(* Nothing leaks                                                           *)

(* Whoever has the closure of a request can run it.                        *)
Hold(ch, c) ==
  /\ holder[ch][c] = "none" => heap[ch][c] = {}
  /\ holder[ch][c] # "none" => DeletedOnce(heap[ch][c])
  /\ holder[ch][c] = "service" => ch \in open \/ Get(proto[ch][c], "is_canceled") = TRUE
  /\ holder[ch][c] = "back" => ch \in open

HoldInv == fault = "none" /\ \A ch \in Channels, c \in Calls : Hold(ch, c)

LEMMA HoldKept ==
  ASSUME HoldInv, UNCHANGED <<open, requestVars>>
  PROVE  HoldInv'
BY DEF HoldInv, Hold, requestVars

LEMMA HoldOne ==
  ASSUME HoldInv, NEW ch \in Channels, NEW c \in Calls, KeptBut(ch, c), UNCHANGED open,
         fault' = fault, Hold(ch, c)'
  PROVE  HoldInv'
<1>1. ASSUME NEW d \in Channels, NEW e \in Calls, d # ch \/ e # c PROVE Hold(d, e)'
  <2>1. Hold(d, e) /\ Kept(d, e)
    BY <1>1 DEF HoldInv, KeptBut
  <2> QED
    BY <2>1 DEF Hold, Kept
<1> QED
  BY <1>1 DEF HoldInv

LEMMA HoldRun ==
  ASSUME TypeInv, HoldInv, NEW ch \in Channels, NEW c \in Calls, UNCHANGED open,
         NEW objects, DeletedOnce(objects), NEW p, ch \in open \/ Get(p, "is_canceled") = TRUE,
         NEW response, NEW answers, TcpClosureRun(ch, c, objects, p, response, answers)
  PROVE  HoldInv'
<1>1. /\ KeptBut(ch, c)
      /\ \/ /\ Gone(ch, c) /\ toClient' = answers
            /\ fault' = IF DeletedOnce(objects) THEN fault ELSE Fault("freed twice")
         \/ Answered(ch, c, objects, p, response, answers)
  BY ClosureRunFacts DEF TypeInv
<1>2. CASE Gone(ch, c) /\ fault' = IF DeletedOnce(objects) THEN fault ELSE Fault("freed twice")
  <2>1. Hold(ch, c)' /\ fault' = fault
    BY <1>2 DEF Gone, Hold
  <2> QED
    BY <1>1, <2>1, HoldOne
<1>3. CASE Answered(ch, c, objects, p, response, answers)
  <2>1. fault' = fault /\ heap'[ch][c] = objects \cup {"buffer"} /\ holder'[ch][c] = "write"
    BY <1>3 DEF Answered
  <2>2. DeletedOnce(objects \cup {"buffer"})
    BY DEF DeletedOnce
  <2>3. Hold(ch, c)'
    BY <2>1, <2>2 DEF Hold, DeletedOnce
  <2> QED
    BY <1>1, <2>1, <2>3, HoldOne
<1> QED
  BY <1>1, <1>2, <1>3

LEMMA HandleRequestHold ==
  ASSUME Discipline, TypeInv, LineInv, HoldInv, NEW ch \in Channels, HandleRequest(ch)
  PROVE  HoldInv'
<1> DEFINE rest == [toServer EXCEPT ![ch] = Tail(@)]
<1>1. /\ ch \in open /\ toServer[ch] # <<>> /\ UNCHANGED open
      /\ \/ UNCHANGED requestVars
         \/ \E c \in Calls, id \in Nat : \E m :
              /\ Handed(ch, c, id, m)
              /\ \/ \E at \in OutOfMemoryAt : Busy(ch, c, rest, at)
                 \/ Serve(ch, c, m, rest)
                 \/ \E reason : Refuse(ch, c, m, rest, reason)
                 \/ Forward(ch, c, m, rest)
  BY HandleRequestCases
<1>2. /\ ServerOK(rest)
      /\ \A c \in Calls : Asks(Head(toServer[ch]), c) => Asked(toServer[ch], c)
  BY <1>1, RestFacts
<1> HIDE DEF rest
<1>3. DeletedOnce(Objects) /\ DeletedOnce(Objects \cup {"callback"})
  BY DEF DeletedOnce, Objects
<1>4. ObjectsOK(heap, proto, holder)
  BY DEF TypeInv
<1>5. ASSUME NEW c \in Calls, NEW id \in Nat, NEW m, Handed(ch, c, id, m),
             \/ \E at \in OutOfMemoryAt : Busy(ch, c, rest, at)
             \/ Serve(ch, c, m, rest)
             \/ \E reason : Refuse(ch, c, m, rest, reason)
             \/ Forward(ch, c, m, rest)
      PROVE  HoldInv'
  <2>1. holder[ch][c] = "none"
    <3>1. Asked(toServer[ch], c)
      BY <1>2, <1>5, HandedAsks
    <3> QED
      BY <3>1 DEF LineInv, Path
  <2>2. ASSUME NEW at \in OutOfMemoryAt, Busy(ch, c, rest, at) PROVE HoldInv'
    <3>1. at # "controller" /\ at # "insert"
      BY <2>2 DEF Discipline
    <3>2. /\ heap' = [heap EXCEPT ![ch][c] = {}] /\ fault' = fault /\ proto' = proto /\ holder' = holder
      BY <2>2, <3>1 DEF Busy
    <3>3. heap'[ch][c] = {} /\ \A d \in Channels, e \in Calls : d # ch \/ e # c => heap'[d][e] = heap[d][e]
      BY <1>4, <3>2 DEF ObjectsOK
    <3>4. KeptBut(ch, c) /\ Hold(ch, c)'
      BY <2>1, <3>2, <3>3 DEF KeptBut, Kept, Hold
    <3> QED
      BY <1>1, <3>2, <3>4, HoldOne
  <2>3. CASE Serve(ch, c, m, rest)
    <3> DEFINE objects == Objects \cup IF c \in OneShot \cup Permanent THEN {"callback"} ELSE {}
    <3>1. /\ heap' = [heap EXCEPT ![ch][c] = objects]
          /\ proto' = [proto EXCEPT ![ch][c] = m]
          /\ holder' = [holder EXCEPT ![ch][c] = "service"] /\ fault' = fault
      BY <2>3 DEF Serve
    <3>2. objects = Objects \/ objects = Objects \cup {"callback"}
      OBVIOUS
    <3> HIDE DEF objects
    <3>3. KeptBut(ch, c) /\ Given(ch, c, objects, m, "service")
      BY <1>4, <3>1, GivenFacts
    <3>4. Hold(ch, c)'
      BY <1>1, <1>3, <3>2, <3>3 DEF Given, Hold
    <3> QED
      BY <1>1, <3>1, <3>3, <3>4, HoldOne
  <2>4. CASE \E reason : Refuse(ch, c, m, rest, reason)
    <3>1. PICK reason : TcpClosureRun(ch, c, Objects, SetFailed(m, reason), New, toClient)
      BY <2>4 DEF Refuse
    <3> QED
      BY <1>1, <1>3, <3>1, HoldRun
  <2>5. CASE Forward(ch, c, m, rest)
    <3>1. /\ KeptBut(ch, c)
          /\ \/ Given(ch, c, Objects, m, "back") /\ UNCHANGED fault
             \/ TcpClosureRun(ch, c, Objects, UvWriteFailed(c, transmitId[Back]), New, toClient)
      BY <1>2, <2>5, ForwardFacts
    <3>2. CASE Given(ch, c, Objects, m, "back") /\ UNCHANGED fault
      <4>1. Hold(ch, c)'
        BY <1>1, <1>3, <3>2 DEF Given, Hold
      <4> QED
        BY <1>1, <3>1, <3>2, <4>1, HoldOne
    <3>3. CASE TcpClosureRun(ch, c, Objects, UvWriteFailed(c, transmitId[Back]), New, toClient)
      BY <1>1, <1>3, <3>3, HoldRun
    <3> QED
      BY <3>1, <3>2, <3>3
  <2> QED
    BY <1>5, <2>2, <2>3, <2>4, <2>5
<1>6. CASE UNCHANGED requestVars
  BY <1>1, <1>6, HoldKept
<1> QED
  BY <1>1, <1>5, <1>6

LEMMA HandleResponseHold ==
  ASSUME TypeInv, LineInv, HoldInv, NEW ch \in Channels, NEW m, NEW answers,
         HandleResponse(ch, m, answers), UNCHANGED open
  PROVE  HoldInv'
<1> DEFINE id == Get(m, "transmit_id")
           c == asyncResult[ch][id]
<1>1. \/ UNCHANGED requestVars
      \/ /\ id \in DOMAIN asyncResult[ch] /\ c \in Calls /\ From[c] \in Channels /\ ch = Back
         /\ TcpClosureRun(From[c], c, heap[From[c]][c], m, ParseResponse(m), answers)
  BY HandleResponseFacts
<1> HIDE DEF id
<1>2. ASSUME NEW e \in Calls, e = c, id \in DOMAIN asyncResult[Back], ch = Back, From[e] \in Channels,
             TcpClosureRun(From[e], e, heap[From[e]][e], m, ParseResponse(m), answers)
      PROVE  HoldInv'
  <2>1. e \in Waiting(Back)
    BY <1>2 DEF Waiting
  <2>2. holder[From[e]][e] = "back"
    BY <2>1 DEF LineInv, Path
  <2>3. DeletedOnce(heap[From[e]][e]) /\ From[e] \in open
    BY <1>2, <2>2 DEF HoldInv, Hold
  <2> QED
    BY <1>2, <2>3, HoldRun
<1> QED
  BY <1>1, <1>2, HoldKept

LEMMA CloseFrontHold ==
  ASSUME Discipline, TypeInv, HoldInv, NEW f \in Fronts, CloseFront(f)
  PROVE  HoldInv'
<1>1. /\ open' = open \ {f}
      /\ \A c \in Calls : holder[f][c] # "back"
      /\ proto' = [proto EXCEPT ![f] = [c \in Calls |->
                     IF c \in Registered(f) THEN StartCancel(@[c]) ELSE @[c]]]
      /\ heap' = [heap EXCEPT ![f] = [c \in Calls |->
                     IF c \in Registered(f) THEN AfterCancel(c, @[c]) ELSE @[c]]]
      /\ UNCHANGED <<holder, fault>>
  BY DEF CloseFront, Discipline
<1>2. f \in Channels /\ ObjectsOK(heap, proto, holder)
  BY DEF Channels, TypeInv
<1>3. \A c \in Calls : \A objects : AfterCancel(c, objects) = objects
  BY DEF AfterCancel, Discipline
<1>4. /\ heap'[f] = [c \in Calls |-> IF c \in Registered(f) THEN AfterCancel(c, heap[f][c]) ELSE heap[f][c]]
      /\ proto'[f] = [c \in Calls |-> IF c \in Registered(f) THEN StartCancel(proto[f][c]) ELSE proto[f][c]]
      /\ \A d \in Channels : d # f => heap'[d] = heap[d] /\ proto'[d] = proto[d]
  BY <1>1, <1>2 DEF ObjectsOK, ProtoOK
<1>5. ASSUME NEW c \in Calls PROVE Hold(f, c)'
  <2>1. Hold(f, c) /\ heap'[f][c] = heap[f][c]
    BY <1>2, <1>3, <1>4 DEF HoldInv
  <2>2. holder[f][c] = "service" => proto'[f][c] = StartCancel(proto[f][c])
    BY <1>4 DEF Registered
  <2>3. Get(StartCancel(proto[f][c]), "is_canceled") = TRUE
    BY <1>2, InControllerCanceled DEF ObjectsOK, ProtoOK
  <2> QED
    BY <1>1, <2>1, <2>2, <2>3 DEF Hold
<1>6. ASSUME NEW d \in Channels, d # f, NEW c \in Calls PROVE Hold(d, c)'
  <2>1. Hold(d, c) /\ heap'[d] = heap[d] /\ proto'[d] = proto[d] /\ (d \in open' <=> d \in open)
    BY <1>1, <1>4, <1>6 DEF HoldInv
  <2> QED
    BY <1>1, <2>1 DEF Hold
<1> QED
  BY <1>1, <1>5, <1>6 DEF HoldInv

LEMMA CloseBackHold ==
  ASSUME Discipline, TypeInv, LineInv, HoldInv, CloseBack
  PROVE  HoldInv'
<1> DEFINE ended == {<<From[c], c>> : c \in Waiting(Back)}
<1>1. /\ open' = open \ {Back}
      /\ heap' = [ch \in Channels |-> [c \in Calls |->
            IF <<ch, c>> \in ended THEN {}
            ELSE IF ch = Back /\ c \in Registered(Back) THEN AfterCancel(c, heap[ch][c])
            ELSE heap[ch][c]]]
      /\ proto' = [ch \in Channels |-> [c \in Calls |->
            IF <<ch, c>> \in ended THEN New
            ELSE IF ch = Back /\ c \in Registered(Back) THEN StartCancel(proto[ch][c])
            ELSE proto[ch][c]]]
      /\ holder' = [ch \in Channels |-> [c \in Calls |->
            IF <<ch, c>> \in ended THEN "none" ELSE holder[ch][c]]]
      /\ fault' = IF \A pair \in ended : DeletedOnce(heap[pair[1]][pair[2]])
                  THEN fault ELSE Fault("freed twice")
  BY CloseBackFacts
<1>2. ASSUME NEW c \in Waiting(Back)
      PROVE  c \in Calls /\ From[c] \in Channels /\ From[c] # Back /\ holder[From[c]][c] = "back"
  <2>1. c \in Calls
    BY DEF Waiting, TypeInv, IdsOK, Ids, Channels
  <2>2. From[c] \in Fronts
    BY <2>1, CallAssumption
  <2>3. Path(c)
    BY <2>1 DEF LineInv
  <2>4. holder[From[c]][c] = "back"
    BY <2>3, <1>2 DEF Path
  <2> QED
    BY <2>1, <2>2, <2>4, ChannelAssumption DEF Channels
<1>3. \A pair \in ended : DeletedOnce(heap[pair[1]][pair[2]])
  <2> SUFFICES ASSUME NEW c \in Waiting(Back) PROVE DeletedOnce(heap[From[c]][c])
    OBVIOUS
  <2> QED
    BY <1>2 DEF HoldInv, Hold
<1>4. fault' = fault
  BY <1>1, <1>3
<1>5. \A c \in Calls : <<Back, c>> \notin ended
  BY <1>2
<1> HIDE DEF ended
<1>6. \A c \in Calls : \A objects : AfterCancel(c, objects) = objects
  BY DEF AfterCancel, Discipline
<1>7. ASSUME NEW c \in Calls PROVE Hold(Back, c)'
  <2>0. Back \in Channels
    BY DEF Channels
  <2>1. Hold(Back, c) /\ heap'[Back][c] = heap[Back][c] /\ holder'[Back][c] = holder[Back][c]
    BY <1>1, <1>5, <1>6, <2>0 DEF HoldInv
  <2>2. holder[Back][c] = "service" => proto'[Back][c] = StartCancel(proto[Back][c])
    BY <1>1, <1>5, <2>0 DEF Registered
  <2>3. Get(StartCancel(proto[Back][c]), "is_canceled") = TRUE
    BY <2>0, InControllerCanceled DEF TypeInv, ObjectsOK, ProtoOK
  <2>4. holder[Back][c] # "back"
    <3>1. Path(c) /\ From[c] # Back
      BY CallAssumption, ChannelAssumption DEF LineInv
    <3> QED
      BY <2>0, <3>1 DEF Path
  <2> QED
    BY <2>1, <2>2, <2>3, <2>4 DEF Hold
<1>8. ASSUME NEW d \in Channels, d # Back, NEW c \in Calls PROVE Hold(d, c)'
  <2>1. Hold(d, c) /\ (d \in open' <=> d \in open)
    BY <1>1, <1>8 DEF HoldInv
  <2>2. CASE <<d, c>> \in ended
    <3>1. heap'[d][c] = {} /\ holder'[d][c] = "none"
      BY <1>1, <2>2
    <3> QED
      BY <3>1 DEF Hold
  <2>3. CASE <<d, c>> \notin ended
    <3>1. heap'[d][c] = heap[d][c] /\ holder'[d][c] = holder[d][c] /\ proto'[d][c] = proto[d][c]
      BY <1>1, <1>8, <2>3
    <3> QED
      BY <2>1, <3>1 DEF Hold
  <2> QED
    BY <2>2, <2>3
<1> QED
  BY <1>4, <1>7, <1>8 DEF HoldInv

LEMMA ServiceRunsHold ==
  ASSUME TypeInv, HoldInv, NEW ch \in Channels, NEW c \in Calls, ServiceRuns(ch, c)
  PROVE  HoldInv'
<1>1. holder[ch][c] = "service" /\ UNCHANGED open
  BY DEF ServiceRuns
<1>a. PICK failed \in BOOLEAN : \E response :
        TcpClosureRun(ch, c, heap[ch][c],
                      IF failed THEN SetFailed(proto[ch][c], "error") ELSE proto[ch][c],
                      response, toClient)
  BY DEF ServiceRuns
<1>2. PICK response :
        TcpClosureRun(ch, c, heap[ch][c],
                      IF failed THEN SetFailed(proto[ch][c], "error") ELSE proto[ch][c],
                      response, toClient)
  BY <1>a
<1>3. DeletedOnce(heap[ch][c]) /\ (ch \in open \/ Get(proto[ch][c], "is_canceled") = TRUE)
  BY <1>1 DEF HoldInv, Hold
<1> DEFINE p == IF failed THEN SetFailed(proto[ch][c], "error") ELSE proto[ch][c]
<1>4. Get(p, "is_canceled") = Get(proto[ch][c], "is_canceled")
  <2>1. InController(proto[ch][c])
    BY DEF TypeInv, ObjectsOK, ProtoOK
  <2>2. SameBut(SetFailed(proto[ch][c], "error"), proto[ch][c], {"failed", "error_text"})
    BY <2>1, InControllerFailed
  <2>3. Get(SetFailed(proto[ch][c], "error"), "is_canceled") = Get(proto[ch][c], "is_canceled")
    BY <2>2 DEF SameBut
  <2> QED
    BY <2>3
<1>5. TcpClosureRun(ch, c, heap[ch][c], p, response, toClient)
  BY <1>2
<1> HIDE DEF p
<1> QED
  BY <1>1, <1>3, <1>4, <1>5, HoldRun

LEMMA StepHold == Discipline => (TypeInv /\ LineInv /\ HoldInv /\ [Next]_vars => HoldInv')
<1> SUFFICES ASSUME Discipline, TypeInv, LineInv, HoldInv, [Next]_vars PROVE HoldInv'
  OBVIOUS
<1>1. ASSUME NEW c \in Calls, Call(c) PROVE HoldInv'
  BY <1>1, HoldKept DEF Call
<1>2. ASSUME NEW f \in Fronts, CutRequest(f) PROVE HoldInv'
  BY <1>2, HoldKept DEF CutRequest
<1>3. ASSUME NEW f \in Fronts, CloseFront(f) PROVE HoldInv'
  BY <1>3, CloseFrontHold
<1>4. ASSUME NEW ch \in Channels, HandleRequest(ch) PROVE HoldInv'
  BY <1>4, HandleRequestHold
<1>5. ASSUME NEW ch \in Channels, AnswerArrives(ch) PROVE HoldInv'
  BY <1>5, HandleResponseHold DEF AnswerArrives
<1>6. ASSUME NEW ch \in Channels, OneWaySent(ch) PROVE HoldInv'
  <2>1. PICK id \in DOMAIN asyncResult[ch] :
          HandleResponse(ch, Request(asyncResult[ch][id], id), toClient)
    BY <1>6 DEF OneWaySent
  <2> QED
    BY <1>6, <2>1, HandleResponseHold DEF OneWaySent
<1>7. ASSUME NEW ch \in Channels, NEW c \in Calls, ServiceRuns(ch, c) PROVE HoldInv'
  BY <1>7, ServiceRunsHold
<1>8. ASSUME NEW ch \in Channels, NEW c \in Calls, AfterSendResponse(ch, c) PROVE HoldInv'
  <2>1. /\ KeptBut(ch, c) /\ Gone(ch, c)
        /\ fault' = IF DeletedOnce(heap[ch][c]) THEN fault ELSE Fault("freed twice")
    BY <1>8, DeleteFacts DEF AfterSendResponse, TypeInv
  <2>2. holder[ch][c] = "write" /\ UNCHANGED open
    BY <1>8 DEF AfterSendResponse
  <2>3. DeletedOnce(heap[ch][c])
    BY <2>2 DEF HoldInv, Hold
  <2>4. Hold(ch, c)' /\ fault' = fault
    BY <2>1, <2>3 DEF Hold, Gone
  <2> QED
    BY <2>1, <2>2, <2>4, HoldOne
<1>9. CASE CloseBack
  BY <1>9, CloseBackHold
<1>10. CASE Redirect \/ UNCHANGED vars
  BY <1>10, HoldKept DEF Redirect, vars
<1> QED
  BY <1>1, <1>2, <1>3, <1>4, <1>5, <1>6, <1>7, <1>8, <1>9, <1>10 DEF Next

LEMMA HoldImplies == LineInv /\ HoldInv => NothingLeaks
<1> SUFFICES ASSUME LineInv, HoldInv, NEW ch \in Channels, NEW c \in Calls
             PROVE  /\ heap[ch][c] # {} <=> holder[ch][c] # "none"
                    /\ holder[ch][c] = "back" => c \in Waiting(Back)
  BY DEF NothingLeaks, HoldInv
<1>1. DeletedOnce(heap[ch][c]) => heap[ch][c] # {}
  BY DEF DeletedOnce, Objects
<1> QED
  BY <1>1 DEF LineInv, Path, HoldInv, Hold

(* Under Discipline the objects of a request exist exactly as long as      *)
(* somebody has its closure, they are freed once, and nobody answers on a  *)
(* channel that is closed: whether HandleRequest runs out of memory for    *)
(* the request, the response or the closure, whoever refuses, forwards,    *)
(* answers or cancels, and when the other server is lost                   *)
(* (channel.cc:263-348, closure.cc, controller.cc:12-20).                  *)
THEOREM NoLeaks == Spec => []NothingLeaks
<1> SUFFICES ASSUME Discipline PROVE Spec => []NothingLeaks
  <2>1. ~Discipline => NothingLeaks
    BY DEF NothingLeaks
  <2>2. CASE ~Discipline
    BY <2>1, <2>2, PTL
  <2> QED
    BY <2>2
<1>1. Init => HoldInv
  <2> SUFFICES ASSUME Init PROVE HoldInv
    OBVIOUS
  <2>1. fault = "none" /\ \A ch \in Channels, c \in Calls : holder[ch][c] = "none" /\ heap[ch][c] = {}
    BY DEF Init
  <2> QED
    BY <2>1 DEF HoldInv, Hold
<1>2. HoldInv /\ (TypeInv /\ LineInv) /\ [Next]_vars => HoldInv'
  BY StepHold
<1> QED
  BY <1>1, <1>2, AlwaysLines, HoldImplies, PTL DEF Spec

-----------------------------------------------------------------------------
(* A caller is told what its service did                                   *)

(* The id is that of c on ch: nobody else waits under it, or ever will.    *)
Mine(ch, c, id) ==
  /\ id \in Nat /\ id < transmitId[ch]
  /\ id \in DOMAIN asyncResult[ch] => asyncResult[ch][id] = c

AskedAs(q, c, id) == \E i \in 1..Len(q) : q[i] = Frame(Request(c, id))

(* No service has the call c, or will get it.                              *)
Settled(c) ==
  /\ result[c].state # "unsent"
  /\ ~Asked(toServer[From[c]], c) /\ holder[From[c]][c] # "service"

Tells(c, failed, message) ==
  IF failed THEN outcome[c] # "ok"
  ELSE outcome[c] = "ok" /\ message = ServiceCallMethod(Method[c], RequestOf(c))

(* Whoever waits on ch for the answer m is told by it.                     *)
TellsOn(ch, m) ==
  LET id == Get(m, "transmit_id")
      c == asyncResult[ch][id]
  IN /\ id \in Nat /\ id < transmitId[ch]
     /\ id \in DOMAIN asyncResult[ch] =>
          Settled(c) /\ Tells(c, Get(m, "failed"), ParseResponse(m))

AnswersTell(ch) ==
  \A i \in 1..Len(toClient[ch]) :
    \E m : OnWire(m) /\ toClient[ch][i] = Frame(m) /\ TellsOn(ch, m)

(* What is known of the call c as long as nothing has been forwarded.      *)
Told(c) ==
  /\ outcome[c] # "none" => Settled(c)
  /\ c \notin OneWay /\ result[c].state = "replied" =>
       Settled(c) /\ Tells(c, result[c].failed, result[c].message)
  /\ \A ch \in Channels : holder[ch][c] # "none" => ch = From[c]
  /\ \A ch \in Channels : holder[ch][c] = "service" =>
       Mine(ch, c, Get(proto[ch][c], "transmit_id"))
  /\ \A ch \in Channels, id \in Nat : AskedAs(toServer[ch], c, id) =>
       ch = From[c] /\ Mine(ch, c, id)

ToldInv ==
  transmitId[Back] = 0 =>
    (\A c \in Calls : Told(c)) /\ (\A f \in Fronts : AnswersTell(f))

LEMMA ToldImplies == ToldInv => AnswerTellsOutcome
BY DEF ToldInv, Told, Tells, AnswerTellsOutcome

LEMMA AskedAsks ==
  ASSUME NEW q, NEW c
  PROVE  /\ Asked(q, c) <=> \E id \in Nat : AskedAs(q, c, id)
         /\ \A id : ~AskedAs(<<>>, c, id)
BY DEF Asked, AskedAs, Asks

LEMMA InitTold == Init => ToldInv
<1> SUFFICES ASSUME Init PROVE ToldInv
  OBVIOUS
<1>1. /\ \A ch \in Channels : toServer[ch] = <<>> /\ toClient[ch] = <<>>
      /\ \A ch \in Channels, c \in Calls : holder[ch][c] = "none"
      /\ \A c \in Calls : outcome[c] = "none" /\ result[c].state = "unsent"
  BY DEF Init, Result
<1>2. \A c \in Calls : Told(c)
  BY <1>1, AskedAsks DEF Told
<1>3. \A f \in Fronts : AnswersTell(f)
  BY <1>1 DEF AnswersTell, Channels
<1> QED
  BY <1>2, <1>3 DEF ToldInv

(* Ids are given in their order, and no id is given twice.                 *)
Grows(ch) ==
  /\ transmitId'[ch] \in Nat /\ transmitId[ch] <= transmitId'[ch]
  /\ \A id \in DOMAIN asyncResult'[ch] :
       id < transmitId[ch] => id \in DOMAIN asyncResult[ch] /\ asyncResult'[ch][id] = asyncResult[ch][id]

LEMMA MineKept ==
  ASSUME TypeInv, NEW ch \in Channels, NEW c, NEW id, Grows(ch), Mine(ch, c, id)
  PROVE  Mine(ch, c, id)'
<1>1. transmitId[ch] \in Nat /\ transmitId'[ch] \in Nat /\ transmitId[ch] <= transmitId'[ch] /\ id \in Nat
  BY DEF TypeInv, IdsOK, Grows, Mine
<1>2. id < transmitId'[ch]
  BY <1>1 DEF Mine
<1> QED
  BY <1>1, <1>2 DEF Mine, Grows

LEMMA GrowsOne ==
  ASSUME TypeInv, NEW ch \in Channels,
         \/ /\ transmitId'[ch] = transmitId[ch] + 1
            /\ \E c : IsSet(asyncResult'[ch], asyncResult[ch], transmitId[ch], c)
         \/ /\ transmitId'[ch] \in {transmitId[ch], transmitId[ch] + 1}
            /\ \A id \in DOMAIN asyncResult'[ch] :
                 id \in DOMAIN asyncResult[ch] /\ asyncResult'[ch][id] = asyncResult[ch][id]
  PROVE  Grows(ch)
<1>1. transmitId[ch] \in Nat
  BY DEF TypeInv, IdsOK
<1>2. /\ transmitId'[ch] \in {transmitId[ch], transmitId[ch] + 1}
      /\ \A id \in DOMAIN asyncResult'[ch] :
           \/ id = transmitId[ch]
           \/ id \in DOMAIN asyncResult[ch] /\ asyncResult'[ch][id] = asyncResult[ch][id]
  BY DEF IsSet, Has
<1>3. transmitId'[ch] \in Nat /\ transmitId[ch] <= transmitId'[ch] /\ ~(transmitId[ch] < transmitId[ch])
  BY <1>1, <1>2
<1> QED
  BY <1>2, <1>3 DEF Grows

LEMMA GrowsKept ==
  ASSUME TypeInv, NEW ch \in Channels, transmitId'[ch] = transmitId[ch],
         asyncResult'[ch] = asyncResult[ch] \/ asyncResult'[ch] = New
  PROVE  Grows(ch)
BY GrowsOne, NewFacts

LEMMA HandleRequestGrows ==
  ASSUME TypeInv, LineInv, NEW d \in Channels, HandleRequest(d), NEW ch \in Channels
  PROVE  Grows(ch)
<1> DEFINE rest == [toServer EXCEPT ![d] = Tail(@)]
<1>1. /\ toServer[d] # <<>>
      /\ \/ UNCHANGED <<asyncResult, transmitId>>
         \/ \E c \in Calls, id \in Nat : \E m :
              /\ Handed(d, c, id, m)
              /\ \/ \E at \in OutOfMemoryAt : Busy(d, c, rest, at)
                 \/ Serve(d, c, m, rest)
                 \/ \E reason : Refuse(d, c, m, rest, reason)
                 \/ d # Back /\ Forward(d, c, m, rest)
  BY HandleRequestCases
<1>2. ServerOK(rest)
  BY <1>1, RestFacts
<1> HIDE DEF rest
<1>3. CASE UNCHANGED <<asyncResult, transmitId>>
  BY <1>3, GrowsKept
<1>4. ASSUME NEW c \in Calls, NEW m,
             \/ \E at \in OutOfMemoryAt : Busy(d, c, rest, at)
             \/ Serve(d, c, m, rest)
             \/ \E reason : Refuse(d, c, m, rest, reason)
      PROVE  Grows(ch)
  BY <1>2, <1>3, <1>4, HandledHere
<1>5. ASSUME NEW c \in Calls, NEW m, Forward(d, c, m, rest) PROVE Grows(ch)
  <2>1. /\ transmitId' = [transmitId EXCEPT ![Back] = @ + 1]
        /\ \A e \in Channels : e # Back => asyncResult'[e] = asyncResult[e]
        /\ \/ IsSet(asyncResult'[Back], asyncResult[Back], transmitId[Back], c)
           \/ UNCHANGED asyncResult
    BY <1>2, <1>5, ForwardFacts
  <2>2. /\ transmitId'[Back] = transmitId[Back] + 1
        /\ \A e \in Channels : e # Back => transmitId'[e] = transmitId[e]
    BY <2>1 DEF TypeInv, IdsOK, Channels
  <2>3. CASE ch = Back
    BY <2>1, <2>2, <2>3, GrowsOne
  <2>4. CASE ch # Back
    BY <2>1, <2>2, <2>4, GrowsKept
  <2> QED
    BY <2>3, <2>4
<1> QED
  BY <1>1, <1>3, <1>4, <1>5

LEMMA StepGrows ==
  ASSUME TypeInv, LineInv, [Next]_vars, NEW ch \in Channels
  PROVE  Grows(ch)
<1>1. IdsOK(asyncResult, transmitId) /\ ServerOK(toServer) /\ \A f \in Fronts : f \in Channels
  BY DEF TypeInv, Channels
<1>2. CASE UNCHANGED <<asyncResult, transmitId>>
  BY <1>2, GrowsKept
<1>3. ASSUME NEW c \in Calls, Call(c) PROVE Grows(ch)
  <2>1. /\ From[c] \in Channels
        /\ CallMethod(From[c], c, toServer) \/ UNCHANGED linkVars
    BY <1>3, CallFacts
  <2>2. CASE CallMethod(From[c], c, toServer)
    <3>1. /\ transmitId' = [transmitId EXCEPT ![From[c]] = @ + 1]
          /\ IsSet(asyncResult'[From[c]], asyncResult[From[c]], transmitId[From[c]], c)
          /\ \A d \in Channels : d # From[c] => asyncResult'[d] = asyncResult[d]
      BY <1>1, <2>1, <2>2, CallMethodTypes
    <3>2. /\ transmitId'[From[c]] = transmitId[From[c]] + 1
          /\ \A d \in Channels : d # From[c] => transmitId'[d] = transmitId[d]
      BY <1>1, <2>1, <3>1 DEF IdsOK
    <3>3. CASE ch = From[c]
      BY <3>1, <3>2, <3>3, GrowsOne
    <3>4. CASE ch # From[c]
      BY <3>1, <3>2, <3>4, GrowsKept
    <3> QED
      BY <3>3, <3>4
  <2>3. CASE UNCHANGED linkVars
    BY <1>2, <2>3 DEF linkVars
  <2> QED
    BY <2>1, <2>2, <2>3
<1>4. ASSUME NEW f \in Fronts, CutRequest(f) PROVE Grows(ch)
  BY <1>2, <1>4 DEF CutRequest
<1>5. ASSUME NEW f \in Channels, UNCHANGED transmitId, asyncResult' = [asyncResult EXCEPT ![f] = New]
      PROVE  Grows(ch)
  <2>1. asyncResult'[ch] = asyncResult[ch] \/ asyncResult'[ch] = New
    BY <1>1, <1>5 DEF IdsOK
  <2> QED
    BY <1>5, <2>1, GrowsKept
<1>6. ASSUME NEW f \in Fronts, CloseFront(f) PROVE Grows(ch)
  BY <1>1, <1>5, <1>6 DEF CloseFront
<1>7. CASE CloseBack
  BY <1>5, <1>7, CloseBackFacts DEF Channels
<1>8. ASSUME NEW d \in Channels, HandleRequest(d) PROVE Grows(ch)
  BY <1>8, HandleRequestGrows
<1>9. ASSUME NEW d \in Channels, NEW m, NEW answers, HandleResponse(d, m, answers), UNCHANGED transmitId
      PROVE  Grows(ch)
  <2> DEFINE id == Get(m, "transmit_id")
  <2>1. \/ UNCHANGED asyncResult
        \/ /\ DOMAIN asyncResult'[d] = DOMAIN asyncResult[d] \ {id}
           /\ \A i \in DOMAIN asyncResult'[d] : asyncResult'[d][i] = asyncResult[d][i]
           /\ \A e \in Channels : e # d => asyncResult'[e] = asyncResult[e]
    BY <1>9, HandleResponseFacts
  <2> HIDE DEF id
  <2>2. \A i \in DOMAIN asyncResult'[ch] :
          i \in DOMAIN asyncResult[ch] /\ asyncResult'[ch][i] = asyncResult[ch][i]
    BY <2>1
  <2> QED
    BY <1>9, <2>2, GrowsOne
<1>10. ASSUME NEW d \in Channels, AnswerArrives(d) PROVE Grows(ch)
  BY <1>9, <1>10 DEF AnswerArrives
<1>11. ASSUME NEW d \in Channels, OneWaySent(d) PROVE Grows(ch)
  <2>1. PICK id \in DOMAIN asyncResult[d] :
          HandleResponse(d, Request(asyncResult[d][id], id), toClient)
    BY <1>11 DEF OneWaySent
  <2> QED
    BY <1>9, <1>11, <2>1 DEF OneWaySent
<1>12. ASSUME NEW d \in Channels, NEW c \in Calls, ServiceRuns(d, c) \/ AfterSendResponse(d, c)
       PROVE  Grows(ch)
  BY <1>2, <1>12 DEF ServiceRuns, AfterSendResponse, linkVars
<1>13. CASE Redirect \/ UNCHANGED vars
  BY <1>2, <1>13 DEF Redirect, vars, linkVars
<1> QED
  BY <1>3, <1>4, <1>6, <1>7, <1>8, <1>10, <1>11, <1>12, <1>13 DEF Next

LEMMA SameRequest ==
  ASSUME NEW c, NEW id, NEW d, NEW n, Frame(Request(c, id)) = Frame(Request(d, n))
  PROVE  c = d /\ id = n
<1>1. OnWire(Request(c, id)) /\ OnWire(Request(d, n))
  BY RequestFacts
<1>2. Request(c, id) = Request(d, n)
  <2>1. /\ Parse(New, Frame(Request(c, id)).fields).message = Request(c, id)
        /\ Parse(New, Frame(Request(d, n)).fields).message = Request(d, n)
    BY <1>1, FrameFacts
  <2> QED
    BY <2>1
<1>3. \A e, i : Request(e, i)["full_service_name"] = e /\ Request(e, i)["transmit_id"] = i
  BY DEF Request
<1> QED
  BY <1>2, <1>3

LEMMA AskedAsLine ==
  ASSUME NEW q, Requests(q), NEW c \in Calls, NEW id \in Nat
  PROVE  /\ \A d, n : AskedAs(Append(q, Frame(Request(d, n))), c, id) =>
              AskedAs(q, c, id) \/ (c = d /\ id = n)
         /\ q # <<>> /\ AskedAs(Tail(q), c, id) => AskedAs(q, c, id)
         /\ q # <<>> => \A n \in 0..Len(q[1].fields) - 1 :
              AskedAs([q EXCEPT ![1].fields = Append(SubSeq(@, 1, n), Cut)], c, id)
                => AskedAs(q, c, id)
<1>1. ASSUME NEW d, NEW n PROVE AskedAs(Append(q, Frame(Request(d, n))), c, id) =>
              AskedAs(q, c, id) \/ (c = d /\ id = n)
  <2> DEFINE e == Frame(Request(d, n))
             r == Append(q, e)
  <2>1. /\ Len(q) \in Nat /\ Len(r) = Len(q) + 1 /\ r[Len(q) + 1] = e
        /\ \A i \in 1..Len(q) : r[i] = q[i]
    BY AppendFacts, SeqFacts DEF Requests
  <2> HIDE DEF r
  <2>2. ASSUME NEW i \in 1..Len(r), r[i] = Frame(Request(c, id))
        PROVE  AskedAs(q, c, id) \/ (c = d /\ id = n)
    <3>1. CASE i \in 1..Len(q)
      BY <2>1, <2>2, <3>1 DEF AskedAs
    <3>2. CASE i = Len(q) + 1
      <4>1. Frame(Request(c, id)) = Frame(Request(d, n))
        BY <2>1, <2>2, <3>2
      <4> QED
        BY <4>1, SameRequest
    <3> QED
      BY <2>1, <3>1, <3>2
  <2>3. AskedAs(r, c, id) => AskedAs(q, c, id) \/ (c = d /\ id = n)
    BY <2>2 DEF AskedAs
  <2> QED
    BY <2>3 DEF r
<1>2. ASSUME q # <<>> PROVE AskedAs(Tail(q), c, id) => AskedAs(q, c, id)
  <2> DEFINE t == Tail(q)
  <2>1. /\ Len(q) \in Nat \ {0} /\ Len(t) = Len(q) - 1
        /\ \A i \in 1..Len(t) : t[i] = q[i + 1]
    BY <1>2, TailFacts DEF Requests
  <2> HIDE DEF t
  <2>2. \A i \in 1..Len(t) : i + 1 \in 1..Len(q)
    BY <2>1
  <2>3. AskedAs(t, c, id) => AskedAs(q, c, id)
    BY <2>1, <2>2 DEF AskedAs
  <2> QED
    BY <2>3 DEF t
<1>3. ASSUME q # <<>>, NEW n \in 0..Len(q[1].fields) - 1
      PROVE  AskedAs([q EXCEPT ![1].fields = Append(SubSeq(@, 1, n), Cut)], c, id)
               => AskedAs(q, c, id)
  <2> DEFINE r == [q EXCEPT ![1].fields = Append(SubSeq(@, 1, n), Cut)]
  <2>1. /\ Len(r) = Len(q) /\ IsCut(r[1].fields)
        /\ \A i \in 1..Len(q) : i # 1 => r[i] = q[i]
    BY <1>3, CutFrames
  <2> HIDE DEF r
  <2>2. r[1] # Frame(Request(c, id))
    BY <2>1, CutAsksNobody DEF Asks
  <2>3. AskedAs(r, c, id) => AskedAs(q, c, id)
    BY <2>1, <2>2 DEF AskedAs
  <2> QED
    BY <2>3 DEF r
<1> QED
  BY <1>1, <1>2, <1>3

(* A request comes to a line when its caller makes the call.               *)
LEMMA AskedSteps ==
  ASSUME TypeInv, LineInv, [Next]_vars, transmitId'[Back] = transmitId[Back],
         NEW ch \in Channels, NEW c \in Calls, NEW id \in Nat, AskedAs(toServer'[ch], c, id)
  PROVE  \/ AskedAs(toServer[ch], c, id)
         \/ /\ ch = From[c] /\ Mine(ch, c, id)'
            /\ result[c].state = "unsent" /\ result'[c].state # "unsent"
<1> DEFINE Goal == \/ AskedAs(toServer[ch], c, id)
                   \/ /\ ch = From[c] /\ Mine(ch, c, id)'
                      /\ result[c].state = "unsent" /\ result'[c].state # "unsent"
<1>1. /\ IdsOK(asyncResult, transmitId) /\ ServerOK(toServer) /\ \A f \in Fronts : f \in Channels
      /\ Requests(toServer[ch])
  BY DEF TypeInv, Channels, ServerOK
<1>2. CASE toServer'[ch] = toServer[ch] \/ toServer'[ch] = <<>>
  BY <1>2, AskedAsks
<1>3. ASSUME NEW d \in Calls, Call(d) PROVE Goal
  <2>1. /\ From[d] \in Channels
        /\ result[d].state = "unsent" /\ result'[d].state # "unsent"
        /\ CallMethod(From[d], d, toServer) \/ UNCHANGED linkVars
    BY <1>3, CallFacts
  <2>2. CASE CallMethod(From[d], d, toServer) /\ ch = From[d]
    <3>1. /\ toServer' = [toServer EXCEPT ![ch] = Append(@, Frame(Request(d, transmitId[ch])))]
          /\ transmitId' = [transmitId EXCEPT ![ch] = @ + 1]
          /\ IsSet(asyncResult'[ch], asyncResult[ch], transmitId[ch], d)
      BY <1>1, <2>2, CallMethodTypes
    <3>2. /\ toServer'[ch] = Append(toServer[ch], Frame(Request(d, transmitId[ch])))
          /\ transmitId'[ch] = transmitId[ch] + 1 /\ transmitId[ch] \in Nat
      BY <1>1, <3>1 DEF ServerOK, IdsOK
    <3>3. AskedAs(toServer[ch], c, id) \/ (c = d /\ id = transmitId[ch])
      BY <1>1, <3>2, AskedAsLine
    <3>4. CASE c = d /\ id = transmitId[ch]
      <4>1. Mine(ch, c, id)'
        BY <3>1, <3>2, <3>4 DEF Mine, IsSet
      <4> QED
        BY <2>1, <2>2, <3>4, <4>1
    <3> QED
      BY <3>3, <3>4
  <2>3. CASE CallMethod(From[d], d, toServer) /\ ch # From[d]
    <3>1. toServer' = [toServer EXCEPT ![From[d]] = Append(@, Frame(Request(d, transmitId[From[d]])))]
      BY <1>1, <2>1, <2>3, CallMethodTypes
    <3>2. toServer'[ch] = toServer[ch]
      BY <1>1, <2>3, <3>1 DEF ServerOK
    <3> QED
      BY <1>2, <3>2
  <2>4. CASE UNCHANGED linkVars
    BY <1>2, <2>4 DEF linkVars
  <2> QED
    BY <2>1, <2>2, <2>3, <2>4
<1>4. ASSUME NEW f \in Fronts, CutRequest(f) PROVE Goal
  <2>1. toServer[f] # <<>> /\ Requests(toServer[f]) /\ Head(toServer[f]) = toServer[f][1]
    BY <1>1, <1>4, TailFacts DEF CutRequest, ServerOK, Requests
  <2>2. PICK n \in 0..Len(toServer[f][1].fields) - 1 :
          toServer' = [toServer EXCEPT ![f][1].fields = Append(SubSeq(@, 1, n), Cut)]
    BY <1>4, <2>1 DEF CutRequest
  <2> DEFINE r == [toServer[f] EXCEPT ![1].fields = Append(SubSeq(@, 1, n), Cut)]
  <2>3. AskedAs(r, c, id) => AskedAs(toServer[f], c, id)
    BY <2>1, AskedAsLine
  <2>4. toServer' = [toServer EXCEPT ![f] = r]
    BY <2>2
  <2> HIDE DEF r
  <2>5. toServer'[f] = r /\ \A d \in Channels : d # f => toServer'[d] = toServer[d]
    BY <1>1, <2>4 DEF ServerOK
  <2> QED
    BY <1>2, <2>3, <2>5
<1>5. ASSUME NEW f \in Channels, toServer' = [toServer EXCEPT ![f] = <<>>] PROVE Goal
  BY <1>1, <1>2, <1>5 DEF ServerOK
<1>6. ASSUME NEW f \in Fronts, CloseFront(f) PROVE Goal
  BY <1>1, <1>5, <1>6 DEF CloseFront
<1>7. CASE CloseBack
  BY <1>5, <1>7, CloseBackFacts DEF Channels
<1>8. ASSUME NEW d \in Channels, HandleRequest(d) PROVE Goal
  <2> DEFINE rest == [toServer EXCEPT ![d] = Tail(@)]
  <2>1. /\ toServer[d] # <<>>
        /\ \/ toServer' = rest
           \/ \E e \in Calls, n \in Nat : \E m :
                /\ Handed(d, e, n, m)
                /\ \/ \E at \in OutOfMemoryAt : Busy(d, e, rest, at)
                   \/ Serve(d, e, m, rest)
                   \/ \E reason : Refuse(d, e, m, rest, reason)
                   \/ Forward(d, e, m, rest)
    BY <1>8, HandleRequestCases
  <2>2. ServerOK(rest)
    BY <2>1, RestFacts
  <2>3. rest[d] = Tail(toServer[d]) /\ \A e \in Channels : e # d => rest[e] = toServer[e]
    BY <1>1 DEF ServerOK
  <2> HIDE DEF rest
  <2>4. toServer' = rest
    <3>1. ASSUME NEW e \in Calls, NEW m, Forward(d, e, m, rest) PROVE FALSE
      <4>1. transmitId' = [transmitId EXCEPT ![Back] = @ + 1]
        BY <2>2, <3>1, ForwardFacts
      <4>2. transmitId'[Back] = transmitId[Back] + 1 /\ transmitId[Back] \in Nat
        BY <1>1, <4>1 DEF IdsOK, Channels
      <4> QED
        BY <4>2
    <3> QED
      BY <2>1, <2>2, <3>1, HandledHere
  <2>5. CASE ch = d
    <3>1. AskedAs(Tail(toServer[ch]), c, id)
      BY <2>3, <2>4, <2>5
    <3> QED
      BY <1>1, <2>1, <2>5, <3>1, AskedAsLine
  <2>6. CASE ch # d
    BY <1>2, <2>3, <2>4, <2>6
  <2> QED
    BY <2>5, <2>6
<1>9. CASE UNCHANGED toServer
  BY <1>2, <1>9
<1>10. ASSUME NEW d \in Channels, NEW e \in Calls,
              AnswerArrives(d) \/ OneWaySent(d) \/ ServiceRuns(d, e) \/ AfterSendResponse(d, e)
       PROVE  Goal
  BY <1>9, <1>10 DEF AnswerArrives, OneWaySent, ServiceRuns, AfterSendResponse, linkVars
<1>11. CASE Redirect \/ UNCHANGED vars
  BY <1>9, <1>11 DEF Redirect, vars, linkVars
<1> QED
  BY <1>3, <1>4, <1>6, <1>7, <1>8, <1>10, <1>11 DEF Next

(* Who has a closure had it before, or its request was first in its line.  *)
LEMMA HolderSteps ==
  ASSUME TypeInv, LineInv, [Next]_vars, NEW ch \in Channels, NEW c \in Calls, holder'[ch][c] # "none"
  PROVE  holder[ch][c] # "none" \/ Asked(toServer[ch], c)
<1> DEFINE Goal == holder[ch][c] # "none" \/ Asked(toServer[ch], c)
<1>1. ObjectsOK(heap, proto, holder)
  BY DEF TypeInv
<1>2. CASE holder'[ch][c] = holder[ch][c]
  BY <1>2
<1>3. ASSUME NEW d \in Channels, NEW e \in Calls, KeptBut(d, e),
             \/ holder[d][e] # "none"
             \/ Asked(toServer[d], e)
             \/ holder'[d][e] = "none"
      PROVE  Goal
  <2>1. CASE d = ch /\ e = c
    BY <1>3, <2>1
  <2>2. CASE d # ch \/ e # c
    BY <1>2, <1>3, <2>2 DEF KeptBut, Kept
  <2> QED
    BY <2>1, <2>2
<1>4. ASSUME NEW e \in Calls, Call(e) PROVE Goal
  BY <1>2, <1>4 DEF Call, requestVars
<1>5. ASSUME NEW f \in Fronts, CutRequest(f) \/ CloseFront(f) PROVE Goal
  BY <1>2, <1>5 DEF CutRequest, CloseFront, requestVars
<1>6. ASSUME NEW d \in Channels, HandleRequest(d) PROVE Goal
  <2> DEFINE rest == [toServer EXCEPT ![d] = Tail(@)]
  <2>1. /\ toServer[d] # <<>>
        /\ \/ UNCHANGED requestVars
           \/ \E e \in Calls, id \in Nat : \E m :
                /\ Handed(d, e, id, m)
                /\ \/ \E at \in OutOfMemoryAt : Busy(d, e, rest, at)
                   \/ Serve(d, e, m, rest)
                   \/ \E reason : Refuse(d, e, m, rest, reason)
                   \/ Forward(d, e, m, rest)
    BY <1>6, HandleRequestCases
  <2>2. ServerOK(rest) /\ Requests(toServer[d])
    <3>1. ServerOK(toServer) /\ Requests(toServer[d])
      BY DEF TypeInv, ServerOK
    <3> QED
      BY <2>1, <3>1, QueueFacts, LineUpdates
  <2> HIDE DEF rest
  <2>3. ASSUME NEW e \in Calls, NEW id \in Nat, NEW m, Handed(d, e, id, m),
               \/ \E at \in OutOfMemoryAt : Busy(d, e, rest, at)
               \/ Serve(d, e, m, rest)
               \/ \E reason : Refuse(d, e, m, rest, reason)
               \/ Forward(d, e, m, rest)
        PROVE  Goal
    <3>1. KeptBut(d, e)
      BY <2>2, <2>3, HandledHere, ForwardFacts
    <3>2. Asked(toServer[d], e)
      BY <2>1, <2>2, <2>3, HandedAsks, LineTail
    <3> QED
      BY <1>3, <3>1, <3>2
  <2> QED
    BY <1>2, <2>1, <2>3 DEF requestVars
<1>7. ASSUME NEW d \in Channels, NEW m, NEW answers, HandleResponse(d, m, answers) PROVE Goal
  <2> DEFINE e == asyncResult[d][Get(m, "transmit_id")]
  <2>1. \/ UNCHANGED requestVars
        \/ /\ e \in Calls /\ From[e] \in Channels /\ d = Back
           /\ TcpClosureRun(From[e], e, heap[From[e]][e], m, ParseResponse(m), answers)
           /\ Get(m, "transmit_id") \in DOMAIN asyncResult[d]
    BY <1>7, HandleResponseFacts
  <2>2. CASE /\ e \in Calls /\ From[e] \in Channels /\ d = Back
             /\ TcpClosureRun(From[e], e, heap[From[e]][e], m, ParseResponse(m), answers)
             /\ Get(m, "transmit_id") \in DOMAIN asyncResult[d]
    <3>1. KeptBut(From[e], e)
      BY <1>1, <2>2, ClosureRunHolder
    <3>2. e \in Waiting(Back)
      BY <2>1, <2>2 DEF Waiting
    <3>3. holder[From[e]][e] # "none"
      BY <2>2, <3>2 DEF LineInv, Path
    <3> QED
      BY <1>3, <2>2, <3>1, <3>3
  <2> QED
    BY <1>2, <2>1, <2>2 DEF requestVars
<1>8. ASSUME NEW d \in Channels, AnswerArrives(d) PROVE Goal
  BY <1>7, <1>8 DEF AnswerArrives
<1>9. ASSUME NEW d \in Channels, OneWaySent(d) PROVE Goal
  <2>1. PICK id \in DOMAIN asyncResult[d] :
          HandleResponse(d, Request(asyncResult[d][id], id), toClient)
    BY <1>9 DEF OneWaySent
  <2> QED
    BY <1>7, <2>1
<1>10. ASSUME NEW d \in Channels, NEW e \in Calls, ServiceRuns(d, e) PROVE Goal
  <2>1. KeptBut(d, e) /\ holder[d][e] # "none"
    BY <1>1, <1>10, ClosureRunHolder DEF ServiceRuns
  <2> QED
    BY <1>3, <2>1
<1>11. ASSUME NEW d \in Channels, NEW e \in Calls, AfterSendResponse(d, e) PROVE Goal
  <2>1. KeptBut(d, e) /\ Gone(d, e)
    BY <1>1, <1>11, DeleteFacts DEF AfterSendResponse
  <2> QED
    BY <1>3, <2>1 DEF Gone
<1>12. CASE CloseBack
  <2> DEFINE ended == {<<From[e], e>> : e \in Waiting(Back)}
  <2>1. holder' = [d \in Channels |-> [e \in Calls |->
               IF <<d, e>> \in ended THEN "none" ELSE holder[d][e]]]
    BY <1>12, CloseBackFacts
  <2> HIDE DEF ended
  <2> QED
    BY <1>2, <2>1
<1>13. CASE Redirect \/ UNCHANGED vars
  BY <1>2, <1>13 DEF Redirect, vars, requestVars
<1> QED
  BY <1>4, <1>5, <1>6, <1>8, <1>9, <1>10, <1>11, <1>12, <1>13 DEF Next

LEMMA OutcomeSteps ==
  ASSUME TypeInv, [Next]_vars, NEW c \in Calls
  PROVE  \/ outcome'[c] = outcome[c]
         \/ \E ch \in Channels : ServiceRuns(ch, c)
<1>1. CASE UNCHANGED outcome
  BY <1>1
<1>2. ASSUME NEW ch \in Channels, NEW d \in Calls, ServiceRuns(ch, d)
      PROVE  \/ outcome'[c] = outcome[c]
             \/ \E f \in Channels : ServiceRuns(f, c)
  <2>1. CASE d = c
    BY <1>2, <2>1
  <2>2. CASE d # c
    <3>1. \E failed \in BOOLEAN :
            outcome' = [outcome EXCEPT ![d] = IF failed THEN "failed" ELSE "ok"]
      BY <1>2 DEF ServiceRuns
    <3> QED
      BY <2>2, <3>1 DEF TypeInv, SetTypes
  <2> QED
    BY <2>1, <2>2
<1> QED
  BY <1>1, <1>2
     DEF Next, Call, CutRequest, CloseFront, HandleRequest, AnswerArrives, OneWaySent,
         AfterSendResponse, CloseBack, Redirect, vars

(* The message m is in the first answer on f, and c waits for it.          *)
Comes(f, c, m) ==
  /\ toClient[f] # <<>> /\ OnWire(m) /\ Head(toClient[f]) = Frame(m)
  /\ Get(m, "transmit_id") \in DOMAIN asyncResult[f]
  /\ asyncResult[f][Get(m, "transmit_id")] = c

LEMMA ReceivedAnswer ==
  ASSUME NEW ch, NEW m, OnWire(m)
  PROVE  LET r == Received(ch, Frame(m).fields)
         IN /\ Get(r, "transmit_id") = Get(m, "transmit_id") /\ Get(r, "failed") = Get(m, "failed")
            /\ ParseResponse(r) = ParseResponse(m)
<1> DEFINE r == Received(ch, Frame(m).fields)
<1>1. \A f : f # "connection" => (Has(r, f) <=> Has(m, f)) /\ Get(r, f) = Get(m, f)
  BY ReceivedFacts
<1> HIDE DEF r
<1>2. /\ Get(r, "transmit_id") = Get(m, "transmit_id") /\ Get(r, "failed") = Get(m, "failed")
      /\ ParseResponse(r) = ParseResponse(m)
  BY <1>1 DEF ParseResponse
<1> QED
  BY <1>2 DEF r

LEMMA ResultSteps ==
  ASSUME TypeInv, [Next]_vars, NEW c \in Calls
  PROVE  \/ result'[c] = result[c]
         \/ result'[c].state \in {"waiting", "canceled"}
         \/ c \in OneWay /\ result'[c].state = "replied"
         \/ \E f \in Fronts : \E m :
              Comes(f, c, m) /\ result'[c] = Result("replied", Get(m, "failed"), ParseResponse(m))
<1> DEFINE Goal ==
         \/ result'[c] = result[c]
         \/ result'[c].state \in {"waiting", "canceled"}
         \/ c \in OneWay /\ result'[c].state = "replied"
         \/ \E f \in Fronts : \E m :
              Comes(f, c, m) /\ result'[c] = Result("replied", Get(m, "failed"), ParseResponse(m))
<1>1. CASE UNCHANGED result
  BY <1>1
<1>2. ASSUME NEW d \in Calls, Call(d) PROVE Goal
  BY <1>2, CallFacts
<1>3. ASSUME NEW f \in Fronts, CloseFront(f) PROVE Goal
  <2>1. result'[c] = Result("canceled", TRUE, New) \/ result'[c] = result[c]
    BY <1>3 DEF CloseFront
  <2>2. Result("canceled", TRUE, New).state = "canceled"
    BY DEF Result
  <2> QED
    BY <2>1, <2>2
<1>4. ASSUME NEW f \in Channels, AnswerArrives(f) PROVE Goal
  <2> DEFINE r == Received(f, Head(toClient[f]).fields)
             id == Get(r, "transmit_id")
             d == asyncResult[f][id]
  <2>1. toClient[f] # <<>>
    BY <1>4 DEF AnswerArrives
  <2>2. AnswerFrame(Head(toClient[f]))
    BY <2>1, QueueFacts DEF TypeInv, ClientOK
  <2>3. PICK m : OnWire(m) /\ Head(toClient[f]) = Frame(m)
    BY <2>2 DEF AnswerFrame
  <2>4. /\ Get(r, "transmit_id") = Get(m, "transmit_id") /\ Get(r, "failed") = Get(m, "failed")
        /\ ParseResponse(r) = ParseResponse(m)
    BY <2>3, ReceivedAnswer
  <2>5. HandleResponse(f, r, [toClient EXCEPT ![f] = Tail(@)])
    BY <1>4 DEF AnswerArrives
  <2>6. \/ UNCHANGED result
        \/ /\ f # Back /\ id \in DOMAIN asyncResult[f]
           /\ result'[d] = Result("replied", Get(r, "failed"), ParseResponse(r))
           /\ \A e \in Calls : e # d => result'[e] = result[e]
    BY <2>5, HandleResponseFacts
  <2> HIDE DEF r
  <2>7. CASE /\ f # Back /\ id \in DOMAIN asyncResult[f] /\ d = c
             /\ result'[d] = Result("replied", Get(r, "failed"), ParseResponse(r))
    <3>1. Comes(f, c, m)
      BY <2>1, <2>3, <2>4, <2>7 DEF Comes
    <3>2. result'[c] = Result("replied", Get(m, "failed"), ParseResponse(m))
      BY <2>4, <2>7
    <3> QED
      BY <2>7, <3>1, <3>2 DEF Channels
  <2> QED
    BY <2>6, <2>7
<1>5. ASSUME NEW f \in Channels, OneWaySent(f) PROVE Goal
  <2>1. PICK id \in DOMAIN asyncResult[f] :
          /\ asyncResult[f][id] \in OneWay
          /\ HandleResponse(f, Request(asyncResult[f][id], id), toClient)
    BY <1>5 DEF OneWaySent
  <2> DEFINE d == asyncResult[f][id]
             m == Request(d, id)
  <2>2. Get(m, "transmit_id") = id
    BY DEF Request, Get, Has
  <2>3. HandleResponse(f, m, toClient)
    BY <2>1
  <2> HIDE DEF m
  <2>4. \/ UNCHANGED result
        \/ /\ result'[d] = Result("replied", Get(m, "failed"), ParseResponse(m))
           /\ \A e \in Calls : e # d => result'[e] = result[e]
    BY <2>2, <2>3, HandleResponseFacts
  <2>5. Result("replied", Get(m, "failed"), ParseResponse(m)).state = "replied"
    BY DEF Result
  <2> QED
    BY <2>1, <2>4, <2>5
<1> QED
  BY <1>1, <1>2, <1>3, <1>4, <1>5
     DEF Next, CutRequest, HandleRequest, ServiceRuns, AfterSendResponse, CloseBack, Redirect, vars

LEMMA UnsentSteps ==
  ASSUME TypeInv, [Next]_vars, NEW c \in Calls, result'[c].state = "unsent"
  PROVE  result[c].state = "unsent"
<1>1. \A failed, message : Result("replied", failed, message).state = "replied"
  BY DEF Result
<1> QED
  BY <1>1, ResultSteps

LEMMA HandedAsked ==
  ASSUME TypeInv, NEW ch \in Channels, NEW c, NEW id, NEW m, Handed(ch, c, id, m)
  PROVE  /\ c \in Calls /\ id \in Nat /\ toServer[ch] # <<>>
         /\ AskedAs(toServer[ch], c, id) /\ Asked(toServer[ch], c)
<1> DEFINE q == toServer[ch]
<1>1. Requests(q)
  BY DEF TypeInv, ServerOK
<1>2. c \in Calls /\ id \in Nat /\ q # <<>> /\ Head(q) = Frame(Request(c, id))
  BY DEF Handed
<1> HIDE DEF q
<1>3. Len(q) \in Nat \ {0} /\ Head(q) = q[1]
  BY <1>1, <1>2, TailFacts DEF Requests
<1>4. 1 \in 1..Len(q)
  BY <1>3
<1>5. AskedAs(q, c, id)
  BY <1>2, <1>3, <1>4 DEF AskedAs
<1>6. Asked(q, c)
  BY <1>2, <1>5, AskedAsks
<1> QED
  BY <1>2, <1>5, <1>6 DEF q

(* What is settled stays as it is.                                         *)
LEMMA SettledStep ==
  ASSUME TypeInv, LineInv, [Next]_vars, transmitId'[Back] = transmitId[Back],
         NEW c \in Calls, Told(c), Settled(c)
  PROVE  /\ Settled(c)' /\ outcome'[c] = outcome[c]
         /\ \A failed, message : Tells(c, failed, message) => Tells(c, failed, message)'
<1>1. From[c] \in Channels
  BY CallAssumption DEF Channels
<1>2. result'[c].state # "unsent"
  BY UnsentSteps DEF Settled
<1>3. ~Asked(toServer'[From[c]], c)
  <2> SUFFICES ASSUME Asked(toServer'[From[c]], c) PROVE FALSE
    OBVIOUS
  <2>1. PICK id \in Nat : AskedAs(toServer'[From[c]], c, id)
    BY AskedAsks
  <2>2. AskedAs(toServer[From[c]], c, id)
    BY <1>1, <2>1, AskedSteps DEF Settled
  <2> QED
    BY <2>2, AskedAsks DEF Settled
<1>4. holder'[From[c]][c] # "service"
  <2> SUFFICES ASSUME holder'[From[c]][c] = "service" PROVE FALSE
    OBVIOUS
  <2>1. PICK id \in Nat : Handed(From[c], c, id, proto'[From[c]][c])
    BY <1>1, ServiceSteps DEF Settled
  <2>2. Asked(toServer[From[c]], c)
    BY <1>1, <2>1, HandedAsked
  <2> QED
    BY <2>2 DEF Settled
<1>5. outcome'[c] = outcome[c]
  <2>1. ASSUME NEW ch \in Channels, ServiceRuns(ch, c) PROVE FALSE
    <3>1. holder[ch][c] = "service"
      BY <2>1 DEF ServiceRuns
    <3> QED
      BY <3>1 DEF Told, Settled
  <2> QED
    BY <2>1, OutcomeSteps
<1>6. Settled(c)'
  BY <1>2, <1>3, <1>4 DEF Settled
<1> QED
  BY <1>5, <1>6 DEF Tells

LEMMA OutcomeTold ==
  ASSUME TypeInv, LineInv, [Next]_vars, transmitId'[Back] = transmitId[Back],
         NEW c \in Calls, Told(c), outcome'[c] # "none"
  PROVE  Settled(c)'
<1>1. CASE outcome[c] # "none"
  BY <1>1, SettledStep DEF Told
<1>2. ASSUME NEW ch \in Channels, ServiceRuns(ch, c) PROVE Settled(c)'
  <2>1. holder[ch][c] = "service" /\ UNCHANGED <<toServer, result>>
    BY <1>2 DEF ServiceRuns
  <2>2. ch = From[c]
    BY <2>1 DEF Told
  <2>3. holder'[ch][c] \in {"none", "write"}
    BY <1>2, ClosureRunHolder DEF ServiceRuns, TypeInv
  <2>4. result[c].state # "unsent" /\ ~Asked(toServer[ch], c)
    BY <2>1 DEF LineInv, Path
  <2> QED
    BY <2>1, <2>2, <2>3, <2>4 DEF Settled
<1> QED
  BY <1>1, <1>2, OutcomeSteps

LEMMA ResultTold ==
  ASSUME TypeInv, LineInv, [Next]_vars, transmitId'[Back] = transmitId[Back],
         NEW c \in Calls, Told(c), \A f \in Fronts : AnswersTell(f),
         c \notin OneWay, result'[c].state = "replied"
  PROVE  /\ Settled(c)'
         /\ Tells(c, result[c].failed, result[c].message)'
<1>1. \A failed, message :
        Settled(c) /\ Tells(c, failed, message) => Settled(c)' /\ Tells(c, failed, message)'
  BY SettledStep
<1>2. CASE result'[c] = result[c]
  <2>1. Settled(c) /\ Tells(c, result[c].failed, result[c].message)
    BY <1>2 DEF Told
  <2> QED
    BY <1>1, <1>2, <2>1 DEF Tells
<1>3. ASSUME NEW f \in Fronts, NEW m, Comes(f, c, m),
             result'[c] = Result("replied", Get(m, "failed"), ParseResponse(m))
      PROVE  Settled(c)' /\ Tells(c, result[c].failed, result[c].message)'
  <2> DEFINE q == toClient[f]
  <2>1. f \in Channels /\ Answers(q)
    BY DEF TypeInv, ClientOK, Channels
  <2>2. q # <<>> /\ OnWire(m) /\ Head(q) = Frame(m)
    BY <1>3 DEF Comes
  <2> HIDE DEF q
  <2>3. 1 \in 1..Len(q) /\ Head(q) = q[1]
    BY <2>1, <2>2, TailFacts DEF Answers
  <2>4. PICK l : OnWire(l) /\ q[1] = Frame(l) /\ TellsOn(f, l)
    BY <2>3 DEF AnswersTell, q
  <2>5. l = m
    <3>1. /\ Parse(New, Frame(l).fields).message = l
          /\ Parse(New, Frame(m).fields).message = m
      BY <2>2, <2>4, FrameFacts
    <3> QED
      BY <2>2, <2>3, <2>4, <3>1
  <2>6. Settled(c) /\ Tells(c, Get(m, "failed"), ParseResponse(m))
    BY <1>3, <2>4, <2>5 DEF TellsOn, Comes
  <2>7. Settled(c)' /\ Tells(c, Get(m, "failed"), ParseResponse(m))'
    BY <1>1, <2>6
  <2>8. result'[c].failed = Get(m, "failed") /\ result'[c].message = ParseResponse(m)
    BY <1>3 DEF Result
  <2> QED
    BY <2>7, <2>8 DEF Tells
<1>4. result'[c].state \notin {"waiting", "canceled"}
  OBVIOUS
<1> QED
  BY <1>2, <1>3, <1>4, ResultSteps

LEMMA PlaceTold ==
  ASSUME TypeInv, LineInv, [Next]_vars,
         NEW c \in Calls, Told(c), NEW ch \in Channels, holder'[ch][c] # "none"
  PROVE  ch = From[c]
<1>1. CASE holder[ch][c] # "none"
  BY <1>1 DEF Told
<1>2. CASE Asked(toServer[ch], c)
  <2>1. PICK id \in Nat : AskedAs(toServer[ch], c, id)
    BY <1>2, AskedAsks
  <2> QED
    BY <2>1 DEF Told
<1> QED
  BY <1>1, <1>2, HolderSteps

LEMMA ServiceTold ==
  ASSUME TypeInv, LineInv, [Next]_vars,
         NEW c \in Calls, Told(c), NEW ch \in Channels, holder'[ch][c] = "service",
         NEW id, id = Get(proto'[ch][c], "transmit_id")
  PROVE  Mine(ch, c, id)'
<1>1. Grows(ch)
  BY StepGrows
<1>2. CASE /\ holder[ch][c] = "service"
           /\ proto'[ch][c] \in {proto[ch][c], StartCancel(proto[ch][c])}
  <2>1. Get(StartCancel(proto[ch][c]), "transmit_id") = Get(proto[ch][c], "transmit_id")
    <3>1. InController(proto[ch][c])
      BY DEF TypeInv, ObjectsOK, ProtoOK
    <3>2. SameBut(StartCancel(proto[ch][c]), proto[ch][c], {"is_canceled"})
      BY <3>1, InControllerCanceled
    <3> QED
      BY <3>2 DEF SameBut
  <2>2. Mine(ch, c, id)
    BY <1>2, <2>1 DEF Told
  <2> QED
    BY <1>1, <2>2, MineKept
<1>3. ASSUME NEW n \in Nat, Handed(ch, c, n, proto'[ch][c]) PROVE Mine(ch, c, id)'
  <2>1. AskedAs(toServer[ch], c, n)
    BY <1>3, HandedAsked
  <2>2. Mine(ch, c, n)
    BY <2>1 DEF Told
  <2>3. n = id
    <3>1. Request(c, n)["transmit_id"] = n
      BY DEF Request
    <3> QED
      BY <1>3, <3>1 DEF Handed, Brought, RequestFields, Get, Has
  <2> QED
    BY <1>1, <2>2, <2>3, MineKept
<1> QED
  BY <1>2, <1>3, ServiceSteps

LEMMA LineTold ==
  ASSUME TypeInv, LineInv, [Next]_vars, transmitId'[Back] = transmitId[Back],
         NEW c \in Calls, Told(c), NEW ch \in Channels, NEW id \in Nat,
         AskedAs(toServer'[ch], c, id)
  PROVE  ch = From[c] /\ Mine(ch, c, id)'
<1>1. Grows(ch)
  BY StepGrows
<1>2. CASE AskedAs(toServer[ch], c, id)
  <2>1. ch = From[c] /\ Mine(ch, c, id)
    BY <1>2 DEF Told
  <2> QED
    BY <1>1, <2>1, MineKept
<1> QED
  BY <1>2, AskedSteps

LEMMA ToldStep ==
  ASSUME TypeInv, LineInv, [Next]_vars, transmitId'[Back] = transmitId[Back],
         NEW c \in Calls, Told(c), \A f \in Fronts : AnswersTell(f)
  PROVE  Told(c)'
<1>1. outcome'[c] # "none" => Settled(c)'
  BY OutcomeTold
<1>2. c \notin OneWay /\ result'[c].state = "replied" =>
        Settled(c)' /\ Tells(c, result[c].failed, result[c].message)'
  BY ResultTold
<1>3. \A ch \in Channels : holder'[ch][c] # "none" => ch = From[c]
  BY PlaceTold
<1>4. ASSUME NEW ch \in Channels, holder'[ch][c] = "service"
      PROVE  Mine(ch, c, Get(proto[ch][c], "transmit_id"))'
  BY <1>4, ServiceTold DEF Mine
<1>5. \A ch \in Channels, id \in Nat : AskedAs(toServer'[ch], c, id) =>
        ch = From[c] /\ Mine(ch, c, id)'
  BY LineTold
<1> QED
  BY <1>1, <1>2, <1>3, <1>4, <1>5 DEF Told

LEMMA ServiceResponse ==
  ASSUME NEW method \in EchoService \cup HelloService, NEW request
  PROVE  LET response == ServiceCallMethod(method, request)
             bytes == Serialize(ResponsePrototype(method), response)
         IN Parse(New, bytes).message = response
<1> DEFINE response == ServiceCallMethod(method, request)
<1>1. \A text : IsMessage(SetMessage(text)) /\ DOMAIN SetMessage(text) = {"message"}
  BY SetNewFacts DEF SetMessage
<1>2. IsMessage(response) /\ DOMAIN response \subseteq {"message"}
  <2>1. CASE method \in EchoService
    BY <1>1, <2>1 DEF ServiceCallMethod, Echo
  <2>2. CASE method \notin EchoService
    <3>1. response = Hello(method) /\ method \in {"Hello", "HelloRpc", "HelloNotify"}
      BY <2>2 DEF ServiceCallMethod, HelloService
    <3>2. \/ Hello(method) = SetMessage(<<"welcome to libmaid">>)
          \/ Hello(method) = SetMessage(<<"helle rpc">>)
          \/ Hello(method) = New
      BY <3>1 DEF Hello
    <3> QED
      BY <1>1, <3>1, <3>2, NewFacts
  <2> QED
    BY <2>1, <2>2
<1>3. IsClass(ResponsePrototype(method)) /\ ToSet(ResponsePrototype(method)) = {"message"}
  BY PrototypeClasses
<1> HIDE DEF response
<1>4. Parse(New, Serialize(ResponsePrototype(method), response)).message = response
  BY <1>2, <1>3, ReadBack
<1> QED
  BY <1>4 DEF response

(* What TcpClosure::Run adds to the answers on a channel.                  *)
LEMMA RunAnswers ==
  ASSUME TypeInv, NEW ch \in Channels, NEW d \in Channels, NEW c \in Calls,
         NEW objects, NEW p, NEW response,
         TcpClosureRun(d, c, objects, p, response, toClient),
         NEW i \in 1..Len(toClient'[ch])
  PROVE  \/ \E j \in 1..Len(toClient[ch]) : toClient'[ch][i] = toClient[ch][j]
         \/ /\ d = ch /\ toClient'[ch][i] = Frame(Answer(p, response))
            /\ holder'[ch][c] = "write"
<1> DEFINE q == toClient[ch]
<1>1. ObjectsOK(heap, proto, holder) /\ ClientOK(toClient) /\ Answers(q)
  BY DEF TypeInv, ClientOK
<1>2. \/ toClient' = toClient
      \/ /\ holder'[d][c] = "write"
         /\ toClient' = [toClient EXCEPT ![d] = Append(@, Frame(Answer(p, response)))]
  <2>1. toClient' = toClient \/ Answered(d, c, objects, p, response, toClient)
    BY <1>1, ClosureRunFacts
  <2> QED
    BY <2>1 DEF Answered
<1>3. CASE toClient'[ch] = q
  BY <1>3
<1>4. CASE /\ d = ch /\ holder'[d][c] = "write"
           /\ toClient' = [toClient EXCEPT ![d] = Append(@, Frame(Answer(p, response)))]
  <2> DEFINE e == Frame(Answer(p, response))
  <2>1. toClient'[ch] = Append(q, e)
    BY <1>1, <1>4 DEF ClientOK
  <2> HIDE DEF q, e
  <2>2. /\ Len(q) \in Nat /\ Len(Append(q, e)) = Len(q) + 1 /\ Append(q, e)[Len(q) + 1] = e
        /\ \A j \in 1..Len(q) : Append(q, e)[j] = q[j]
    BY <1>1, AppendFacts, SeqFacts DEF Answers
  <2>3. i \in 1..Len(q) \/ i = Len(q) + 1
    BY <2>1, <2>2
  <2>4. (\E j \in 1..Len(q) : toClient'[ch][i] = q[j]) \/ toClient'[ch][i] = e
    BY <2>1, <2>2, <2>3
  <2> QED
    BY <1>4, <2>4 DEF q, e
<1>5. CASE d # ch
  BY <1>1, <1>2, <1>3, <1>5 DEF ClientOK
<1> QED
  BY <1>2, <1>3, <1>4, <1>5

LEMMA TellsKept ==
  ASSUME TypeInv, LineInv, [Next]_vars, transmitId'[Back] = transmitId[Back],
         \A c \in Calls : Told(c), NEW ch \in Channels, NEW m, TellsOn(ch, m)
  PROVE  TellsOn(ch, m)'
<1> DEFINE id == Get(m, "transmit_id")
<1>1. Grows(ch)
  BY StepGrows
<1>2. id \in Nat /\ id < transmitId[ch] /\ transmitId[ch] \in Nat
  BY DEF TellsOn, TypeInv, IdsOK
<1>3. id < transmitId'[ch]
  BY <1>1, <1>2 DEF Grows
<1>4. ASSUME id \in DOMAIN asyncResult'[ch], NEW c, c = asyncResult'[ch][id]
      PROVE  Settled(c)' /\ Tells(c, Get(m, "failed"), ParseResponse(m))'
  <2>1. id \in DOMAIN asyncResult[ch] /\ c = asyncResult[ch][id]
    BY <1>1, <1>2, <1>4 DEF Grows
  <2>2. c \in Calls
    BY <2>1 DEF TypeInv, IdsOK, Ids
  <2>3. Settled(c) /\ Tells(c, Get(m, "failed"), ParseResponse(m))
    BY <2>1 DEF TellsOn
  <2> QED
    BY <2>2, <2>3, SettledStep
<1> QED
  BY <1>2, <1>3, <1>4 DEF TellsOn, Settled, Tells

LEMMA TellsNew ==
  ASSUME NEW ch \in Channels, NEW c \in Calls, NEW m,
         Mine(ch, c, Get(m, "transmit_id"))', Settled(c)',
         Tells(c, Get(m, "failed"), ParseResponse(m))'
  PROVE  TellsOn(ch, m)'
BY DEF TellsOn, Mine, Settled, Tells

LEMMA AnswerKeeps ==
  ASSUME NEW p, InController(p), NEW response
  PROVE  /\ Get(Answer(p, response), "transmit_id") = Get(p, "transmit_id")
         /\ Get(Answer(p, response), "failed") = Get(p, "failed")
<1>1. \A f : f \notin {"stub", "connection", "message"} =>
        Get(Answer(p, response), f) = Get(p, f)
  BY AnswerFacts
<1>2. \A f \in {"transmit_id", "failed"} : f \notin {"stub", "connection", "message"}
  OBVIOUS
<1> QED
  BY <1>1, <1>2

(* A refusal tells the caller that there was no service.                   *)
LEMMA RefusalTells ==
  ASSUME TypeInv, LineInv, [Next]_vars, NEW f \in Channels, NEW c \in Calls, NEW id \in Nat,
         NEW m, NEW reason, Told(c), Handed(f, c, id, m),
         ~Asked(toServer'[f], c), holder'[f][c] = "write", UNCHANGED <<outcome, result>>,
         NEW answer, answer = Answer(SetFailed(m, reason), New)
  PROVE  OnWire(answer) /\ TellsOn(f, answer)'
<1> DEFINE p == SetFailed(m, reason)
<1>1. AskedAs(toServer[f], c, id) /\ Asked(toServer[f], c)
  BY HandedAsked
<1>2. f = From[c] /\ Mine(f, c, id)
  BY <1>1 DEF Told
<1>3. Mine(f, c, id)'
  BY <1>2, StepGrows, MineKept
<1>4. result[c].state # "unsent" /\ outcome[c] = "none"
  BY <1>1, <1>2 DEF LineInv, Path, Told, Settled
<1>5. Settled(c)'
  BY <1>2, <1>4 DEF Settled
<1>6. InController(m) /\ Get(m, "transmit_id") = id
  <2>1. Request(c, id)["transmit_id"] = id
    BY DEF Request
  <2> QED
    BY <2>1 DEF Handed, Brought, RequestFields, Get, Has
<1>7. InController(p) /\ Get(p, "failed") = TRUE /\ Get(p, "transmit_id") = id
  <2>1. SameBut(p, m, {"failed", "error_text"}) /\ InController(p) /\ Get(p, "failed") = TRUE
    BY <1>6, InControllerFailed
  <2> HIDE DEF p
  <2> QED
    BY <1>6, <2>1 DEF SameBut
<1> HIDE DEF p
<1>8. OnWire(answer) /\ Get(answer, "failed") = TRUE /\ Get(answer, "transmit_id") = id
  <2>1. /\ OnWire(Answer(p, New))
        /\ \A e : e \notin {"stub", "connection", "message"} => Get(Answer(p, New), e) = Get(p, e)
    BY <1>7, AnswerFacts
  <2>2. answer = Answer(p, New)
    BY DEF p
  <2> QED
    BY <1>7, <2>1, <2>2
<1>9. Tells(c, Get(answer, "failed"), ParseResponse(answer))'
  BY <1>4, <1>8 DEF Tells
<1>10. TellsOn(f, answer)'
  BY <1>3, <1>5, <1>8, <1>9, TellsNew
<1> QED
  BY <1>8, <1>10

(* The answer of a service tells what the service did.                     *)
LEMMA ServiceAnswerTells ==
  ASSUME TypeInv, LineInv, ServedInv, [Next]_vars, transmitId'[Back] = transmitId[Back],
         NEW f \in Channels, NEW c \in Calls, Told(c), holder[f][c] = "service",
         NEW failed \in BOOLEAN,
         outcome'[c] = IF failed THEN "failed" ELSE "ok",
         NEW p0, p0 = proto[f][c],
         NEW p, p = IF failed THEN SetFailed(p0, "error") ELSE p0,
         NEW response,
         response = ServiceCallMethod(Method[c], Parse(New, Get(p0, "message")).message),
         NEW answer, answer = Answer(p, response)
  PROVE  OnWire(answer) /\ TellsOn(f, answer)'
<1> DEFINE id == Get(p0, "transmit_id")
<1>1. f = From[c] /\ Mine(f, c, id)
  BY DEF Told
<1>2. Mine(f, c, id)'
  BY <1>1, StepGrows, MineKept
<1>3. Settled(c)'
  BY OutcomeTold
<1>4. PICK n \in Nat : ServedAs(f, c, n, p0)
  BY DEF ServedInv
<1>5. /\ Get(p0, "method_name") = Method[c] /\ Get(p0, "failed") = FALSE
      /\ Get(p0, "message") = Serialize(RequestPrototype(Method[c]), RequestOf(c))
  <2>1. /\ Request(c, n)["method_name"] = Method[c]
        /\ Request(c, n)["message"] = Serialize(RequestPrototype(Method[c]), RequestOf(c))
    BY DEF Request
  <2> QED
    BY <1>4, <2>1 DEF ServedAs, RequestFields, Get, Has
<1>6. response = ServiceCallMethod(Method[c], RequestOf(c))
  BY <1>5, RequestOfFacts
<1>7. Parse(New, Serialize(ResponsePrototype(Method[c]), response)).message = response
  <2>1. Method[c] \in EchoService \cup HelloService
    BY CallAssumption
  <2> QED
    BY <2>1, ServiceResponse
<1>8. InController(p0)
  BY DEF TypeInv, ObjectsOK, ProtoOK
<1>9. /\ InController(p) /\ Get(p, "failed") = failed /\ Get(p, "transmit_id") = id
      /\ Get(p, "method_name") = Method[c]
  <2>1. /\ InController(SetFailed(p0, "error")) /\ Get(SetFailed(p0, "error"), "failed") = TRUE
        /\ SameBut(SetFailed(p0, "error"), p0, {"failed", "error_text"})
    BY <1>8, InControllerFailed
  <2>2. CASE failed
    BY <1>5, <2>1, <2>2 DEF SameBut
  <2>3. CASE ~failed
    BY <1>5, <1>8, <2>3
  <2> QED
    BY <2>2, <2>3
<1> HIDE DEF id
<1>10. /\ OnWire(answer) /\ Get(answer, "failed") = failed /\ Get(answer, "transmit_id") = id
       /\ ~failed => /\ Has(answer, "message")
                     /\ Get(answer, "message") = Serialize(ResponsePrototype(Method[c]), response)
  <2>1. OnWire(answer)
    BY <1>9, AnswerFacts
  <2>3. Get(answer, "failed") = Get(p, "failed") /\ Get(answer, "transmit_id") = Get(p, "transmit_id")
    BY <1>9, AnswerKeeps
  <2>2. ~Get(p, "failed") =>
          /\ Has(answer, "message")
          /\ Get(answer, "message") = Serialize(ResponsePrototype(Get(p, "method_name")), response)
    BY <1>9, AnswerFacts
  <2>4. Get(p, "failed") = failed /\ Get(p, "transmit_id") = id /\ Get(p, "method_name") = Method[c]
    BY <1>9
  <2> HIDE DEF id
  <2>5. Get(answer, "failed") = failed /\ Get(answer, "transmit_id") = id
    BY <2>3, <2>4
  <2>6. ~failed => ~Get(p, "failed")
    BY <2>4
  <2>7. ~failed =>
          /\ Has(answer, "message")
          /\ Get(answer, "message") = Serialize(ResponsePrototype(Method[c]), response)
    BY <2>2, <2>4, <2>6
  <2> QED
    BY <2>1, <2>5, <2>7
<1>11. ~failed => ParseResponse(answer) = response
  BY <1>7, <1>10 DEF ParseResponse
<1>12. Tells(c, Get(answer, "failed"), ParseResponse(answer))'
  BY <1>6, <1>10, <1>11 DEF Tells
<1>13. TellsOn(f, answer)'
  BY <1>2, <1>3, <1>10, <1>12, TellsNew
<1> QED
  BY <1>10, <1>13

LEMMA FrameTold ==
  ASSUME TypeInv, LineInv, [Next]_vars, transmitId'[Back] = transmitId[Back],
         \A c \in Calls : Told(c), NEW f \in Fronts, AnswersTell(f),
         NEW i \in 1..Len(toClient'[f]), NEW j \in 1..Len(toClient[f]),
         toClient'[f][i] = toClient[f][j]
  PROVE  \E m : OnWire(m) /\ toClient'[f][i] = Frame(m) /\ TellsOn(f, m)'
<1>1. PICK m : OnWire(m) /\ toClient[f][j] = Frame(m) /\ TellsOn(f, m)
  BY DEF AnswersTell
<1>2. f \in Channels
  BY DEF Channels
<1>3. TellsOn(f, m)'
  BY <1>1, <1>2, TellsKept
<1> QED
  BY <1>1, <1>3

LEMMA SameTold ==
  ASSUME TypeInv, LineInv, [Next]_vars, transmitId'[Back] = transmitId[Back],
         \A c \in Calls : Told(c), NEW f \in Fronts, AnswersTell(f),
         \/ toClient'[f] = toClient[f]
         \/ toClient[f] # <<>> /\ toClient'[f] = Tail(toClient[f])
         \/ toClient'[f] = <<>>
  PROVE  AnswersTell(f)'
<1>1. ASSUME NEW i \in 1..Len(toClient'[f])
      PROVE  \E j \in 1..Len(toClient[f]) : toClient'[f][i] = toClient[f][j]
  <2>1. CASE toClient'[f] = toClient[f]
    BY <1>1, <2>1
  <2>2. CASE toClient[f] # <<>> /\ toClient'[f] = Tail(toClient[f])
    <3>1. Answers(toClient[f])
      BY DEF TypeInv, ClientOK, Channels
    <3>2. PICK q : q = toClient[f]
      OBVIOUS
    <3>3. /\ Len(q) \in Nat \ {0} /\ Len(Tail(q)) = Len(q) - 1
          /\ \A k \in 1..Len(Tail(q)) : Tail(q)[k] = q[k + 1]
      BY <2>2, <3>1, <3>2, TailFacts DEF Answers
    <3>4. i + 1 \in 1..Len(q) /\ toClient'[f][i] = q[i + 1]
      BY <1>1, <2>2, <3>2, <3>3
    <3> QED
      BY <3>2, <3>4
  <2>3. CASE toClient'[f] = <<>>
    <3>1. Len(toClient'[f]) = 0
      BY <2>3, EmptyIsSeq
    <3> QED
      BY <1>1, <3>1
  <2> QED
    BY <2>1, <2>2, <2>3
<1>2. ASSUME NEW i \in 1..Len(toClient'[f])
      PROVE  \E m : OnWire(m) /\ toClient'[f][i] = Frame(m) /\ TellsOn(f, m)'
  BY <1>1, <1>2, FrameTold
<1> QED
  BY <1>2 DEF AnswersTell

LEMMA RunTold ==
  ASSUME TypeInv, LineInv, [Next]_vars, transmitId'[Back] = transmitId[Back],
         \A c \in Calls : Told(c), NEW f \in Fronts, AnswersTell(f),
         NEW d \in Channels, NEW c \in Calls, NEW objects, NEW p, NEW response,
         TcpClosureRun(d, c, objects, p, response, toClient),
         NEW answer, answer = Answer(p, response),
         d = f /\ holder'[f][c] = "write" => OnWire(answer) /\ TellsOn(f, answer)'
  PROVE  AnswersTell(f)'
<1>1. ASSUME NEW i \in 1..Len(toClient'[f])
      PROVE  \E m : OnWire(m) /\ toClient'[f][i] = Frame(m) /\ TellsOn(f, m)'
  <2>1. \/ \E j \in 1..Len(toClient[f]) : toClient'[f][i] = toClient[f][j]
        \/ /\ d = f /\ toClient'[f][i] = Frame(answer)
           /\ holder'[f][c] = "write"
    <3>1. f \in Channels
      BY DEF Channels
    <3> QED
      BY <1>1, <3>1, RunAnswers
  <2>2. CASE \E j \in 1..Len(toClient[f]) : toClient'[f][i] = toClient[f][j]
    BY <1>1, <2>2, FrameTold
  <2>3. CASE d = f /\ toClient'[f][i] = Frame(answer) /\ holder'[f][c] = "write"
    <3>1. OnWire(answer) /\ toClient'[f][i] = Frame(answer) /\ TellsOn(f, answer)'
      BY <2>3
    <3> QED
      BY <3>1
  <2> QED
    BY <2>1, <2>2, <2>3
<1> QED
  BY <1>1 DEF AnswersTell

LEMMA AnswersTold ==
  ASSUME TypeInv, LineInv, ServedInv, [Next]_vars, transmitId[Back] = 0, transmitId'[Back] = 0,
         \A c \in Calls : Told(c), NEW f \in Fronts, AnswersTell(f)
  PROVE  AnswersTell(f)'
<1>1. /\ f \in Channels /\ Back \in Channels /\ ClientOK(toClient)
      /\ transmitId'[Back] = transmitId[Back]
  BY DEF Channels, TypeInv
<1>2. ASSUME \/ toClient'[f] = toClient[f]
             \/ toClient[f] # <<>> /\ toClient'[f] = Tail(toClient[f])
             \/ toClient'[f] = <<>>
      PROVE  AnswersTell(f)'
  BY <1>1, <1>2, SameTold
<1>3. ASSUME NEW c \in Calls, Call(c) PROVE AnswersTell(f)'
  BY <1>2, <1>3, CallFacts
<1>4. ASSUME NEW d \in Fronts, CutRequest(d) PROVE AnswersTell(f)'
  BY <1>2, <1>4 DEF CutRequest
<1>5. ASSUME NEW d \in Channels, toClient' = [toClient EXCEPT ![d] = <<>>] PROVE AnswersTell(f)'
  BY <1>1, <1>2, <1>5 DEF ClientOK
<1>6. ASSUME NEW d \in Fronts, CloseFront(d) PROVE AnswersTell(f)'
  BY <1>5, <1>6 DEF CloseFront, Channels
<1>7. ASSUME CloseBack PROVE AnswersTell(f)'
  BY <1>1, <1>5, <1>7, CloseBackFacts
<1>8. ASSUME NEW d \in Channels, HandleRequest(d) PROVE AnswersTell(f)'
  <2>1. PICK rest : rest = [toServer EXCEPT ![d] = Tail(@)]
    OBVIOUS
  <2>2. /\ toServer[d] # <<>> /\ UNCHANGED <<outcome, result>>
        /\ \/ UNCHANGED toClient
           \/ \E c \in Calls, id \in Nat : \E m :
                /\ Handed(d, c, id, m)
                /\ \/ \E at \in OutOfMemoryAt : Busy(d, c, rest, at)
                   \/ Serve(d, c, m, rest)
                   \/ \E reason : Refuse(d, c, m, rest, reason)
                   \/ Forward(d, c, m, rest)
    BY <1>8, <2>1, HandleRequestCases
  <2>3. /\ ServerOK(rest)
        /\ \A c \in Calls : Asks(Head(toServer[d]), c) => ~Asked(rest[d], c)
    BY <2>1, <2>2, RestFacts
  <2>4. ASSUME NEW c \in Calls, NEW m, NEW at, Busy(d, c, rest, at) \/ Serve(d, c, m, rest)
        PROVE  AnswersTell(f)'
    BY <1>2, <2>4 DEF Busy, Serve
  <2>5. ASSUME NEW c \in Calls, NEW id \in Nat, NEW m, NEW reason,
               Handed(d, c, id, m), Refuse(d, c, m, rest, reason)
        PROVE  AnswersTell(f)'
    <3>1. TcpClosureRun(d, c, Objects, SetFailed(m, reason), New, toClient) /\ toServer' = rest
      BY <2>5 DEF Refuse
    <3>2. ~Asked(toServer'[d], c)
      BY <2>3, <2>5, <3>1, HandedAsks
    <3>3. PICK answer : answer = Answer(SetFailed(m, reason), New)
      OBVIOUS
    <3>4. d = f /\ holder'[f][c] = "write" => OnWire(answer) /\ TellsOn(f, answer)'
      BY <1>1, <2>2, <2>5, <3>2, <3>3, RefusalTells
    <3> QED
      BY <1>1, <3>1, <3>3, <3>4, RunTold
  <2>6. ASSUME NEW c \in Calls, NEW m, Forward(d, c, m, rest) PROVE FALSE
    <3>1. transmitId' = [transmitId EXCEPT ![Back] = @ + 1]
      BY <2>3, <2>6, ForwardFacts
    <3>2. transmitId'[Back] = transmitId[Back] + 1
      BY <1>1, <3>1 DEF TypeInv, IdsOK
    <3> QED
      BY <3>2
  <2> QED
    BY <1>2, <2>2, <2>4, <2>5, <2>6
<1>9. ASSUME NEW d \in Channels, NEW m, NEW answers, HandleResponse(d, m, answers)
       PROVE  toClient' = answers
  <2> DEFINE id == Get(m, "transmit_id")
  <2>1. \/ toClient' = answers
        \/ d = Back /\ id \in DOMAIN asyncResult[d]
    BY <1>9, HandleResponseFacts
  <2> HIDE DEF id
  <2>2. \A n : n \notin DOMAIN asyncResult[Back]
    BY <1>1 DEF TypeInv, IdsOK, Ids
  <2> QED
    BY <2>1, <2>2
<1>10. ASSUME NEW d \in Channels, AnswerArrives(d) PROVE AnswersTell(f)'
  <2>1. toClient[d] # <<>> /\ toClient' = [toClient EXCEPT ![d] = Tail(@)]
    BY <1>9, <1>10 DEF AnswerArrives
  <2> QED
    BY <1>1, <1>2, <2>1 DEF ClientOK
<1>11. ASSUME NEW d \in Channels, OneWaySent(d) PROVE AnswersTell(f)'
  <2>1. toClient' = toClient
    BY <1>9, <1>11 DEF OneWaySent
  <2> QED
    BY <1>2, <2>1
<1>12. ASSUME NEW d \in Channels, NEW c \in Calls, ServiceRuns(d, c) PROVE AnswersTell(f)'
  <2>1. PICK failed \in BOOLEAN :
          /\ outcome' = [outcome EXCEPT ![c] = IF failed THEN "failed" ELSE "ok"]
          /\ TcpClosureRun(d, c, heap[d][c],
                           IF failed THEN SetFailed(proto[d][c], "error") ELSE proto[d][c],
                           ServiceCallMethod(Method[c], Parse(New, Get(proto[d][c], "message")).message),
                           toClient)
    BY <1>12 DEF ServiceRuns
  <2>2. holder[d][c] = "service"
    BY <1>12 DEF ServiceRuns
  <2>3. outcome'[c] = IF failed THEN "failed" ELSE "ok"
    BY <2>1 DEF TypeInv, SetTypes
  <2>4. PICK p0, p, r, answer :
          /\ p0 = proto[d][c]
          /\ p = IF failed THEN SetFailed(p0, "error") ELSE p0
          /\ r = ServiceCallMethod(Method[c], Parse(New, Get(p0, "message")).message)
          /\ answer = Answer(p, r)
    OBVIOUS
  <2>5. TcpClosureRun(d, c, heap[d][c], p, r, toClient)
    BY <2>1, <2>4
  <2>6. d = f => OnWire(answer) /\ TellsOn(f, answer)'
    BY <1>1, <2>2, <2>3, <2>4, ServiceAnswerTells
  <2> QED
    BY <1>1, <2>4, <2>5, <2>6, RunTold
<1>13. ASSUME NEW d \in Channels, NEW c \in Calls, AfterSendResponse(d, c) PROVE AnswersTell(f)'
  BY <1>2, <1>13 DEF AfterSendResponse, linkVars
<1>14. ASSUME Redirect \/ UNCHANGED vars PROVE AnswersTell(f)'
  BY <1>2, <1>14 DEF Redirect, vars, linkVars
<1> QED
  BY <1>3, <1>4, <1>6, <1>7, <1>8, <1>10, <1>11, <1>12, <1>13, <1>14 DEF Next

LEMMA StepTold == TypeInv /\ LineInv /\ ServedInv /\ ToldInv /\ [Next]_vars => ToldInv'
<1> SUFFICES ASSUME TypeInv, LineInv, ServedInv, ToldInv, [Next]_vars, transmitId'[Back] = 0
             PROVE  (\A c \in Calls : Told(c)') /\ (\A f \in Fronts : AnswersTell(f)')
  BY DEF ToldInv
<1>1. transmitId[Back] = 0
  <2>1. Grows(Back)
    BY StepGrows DEF Channels
  <2>2. transmitId[Back] \in Nat
    BY DEF TypeInv, IdsOK, Channels
  <2> QED
    BY <2>1, <2>2 DEF Grows
<1>2. transmitId'[Back] = transmitId[Back]
  BY <1>1
<1>3. (\A c \in Calls : Told(c)) /\ (\A f \in Fronts : AnswersTell(f))
  BY <1>1 DEF ToldInv
<1> QED
  BY <1>1, <1>2, <1>3, ToldStep, AnswersTold

(* As long as nothing has been forwarded, whoever gets an answer is told   *)
(* what its own service did with its own call: whatever other calls and    *)
(* callers there are, whichever requests arrive half or are refused, and   *)
(* whichever ids the calls get (channel.cc:153-197, 263-348,               *)
(* closure.cc:50-115).                                                     *)
THEOREM AnswersAreTrue == Spec => []AnswerTellsOutcome
<1>1. Init => ServedInv
  BY DEF Init, ServedInv
<1>2. (TypeInv /\ LineInv /\ ServedInv /\ ToldInv) /\ [Next]_vars
        => (TypeInv /\ LineInv /\ ServedInv /\ ToldInv)'
  BY StepTypes, StepLines, StepServed, StepTold
<1> QED
  BY <1>1, <1>2, InitTypes, InitLines, InitTold, ToldImplies, PTL DEF Spec
=============================================================================
