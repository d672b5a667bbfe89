--------------------------- MODULE MCCallSequence ---------------------------
(***************************************************************************)
(* A small instance of the call sequence for TLC.  Its calls are those of  *)
(* a generated enum with the methods                                       *)
(*    0 query(String, Int)   1 find(String, String)   2 has(Int, Bool)     *)
(*    3 split(Char, String)                                                *)
(* and its call hashes their encodings.                                    *)
(***************************************************************************)
EXTENDS EncodedCalls

MCSignature == (0 :> <<"String", "Int">>) @@ (1 :> <<"String", "String">>) @@
               (2 :> <<"Int", "Bool">>) @@ (3 :> <<"Char", "String">>)

Str(s) == [type |-> "String", val |-> s]
Int32(v) == [type |-> "Int", val |-> v]
Truth(b) == [type |-> "Bool", val |-> b]
Character(cp) == [type |-> "Char", val |-> cp]

(* The boundaries of the forms of one, two and three bytes *)
Characters == {0, 65, 127, 128, 2047, 2048, 65535}

(* Characters beyond U+FFFF, with the low bits of others *)
Beyond == {65601, 67584, 131071}

Numbers == {-2147483647 - 1, -256, -1, 0, 1, 255, 256, 65536, 2147483647}

Singles(chars) == UNION {[1 .. n -> chars] : n \in 0 .. 1}
Pairs(chars) == [1 .. 2 -> chars] \cup Singles(chars)

(* The calls with strings of up to one of chars, or two of some *)
Variants(chars, some) ==
  {[tag |-> 0, args |-> <<Str(s), Int32(v)>>] : s \in Singles(chars), v \in Numbers} \cup
  {[tag |-> 1, args |-> <<Str(s), Str(t)>>] : s \in Pairs(some), t \in Pairs(some)} \cup
  {[tag |-> 2, args |-> <<Int32(v), Truth(b)>>] : v \in Numbers, b \in BOOLEAN} \cup
  {[tag |-> 3, args |-> <<Character(cp), Str(s)>>] :
     cp \in Characters \cup Beyond, s \in Singles(chars)}

MCGenerated == Variants(Characters, {65, 255, 2048, 65535})

(* The calls of the instance *)
Recordable ==
  << [tag |-> 1, args |-> <<Str(<<>>), Str(<<65>>)>>],
     [tag |-> 1, args |-> <<Str(<<65535, 65>>), Str(<<2048>>)>>],
     [tag |-> 0, args |-> <<Str(<<2047>>), Int32(-1)>>],
     [tag |-> 3, args |-> <<Character(67584), Str(<<255>>)>>] >>

MCCalls == 1 .. 4
RecordableHashes == {[of |-> c, hash |-> CallBytes(Recordable[c])] : c \in MCCalls}
MCHash == [c \in MCCalls |-> (CHOOSE h \in RecordableHashes : h.of = c).hash]

(* The instance in which strings have any character *)
AstralGenerated == Variants(Characters \cup Beyond, {65, 2048, 67584})

AstralRecordable ==
  [Recordable EXCEPT ![2] = [tag |-> 1, args |-> <<Str(<<67584, 65>>), Str(<<2048>>)>>],
                     ![3] = [tag |-> 0, args |-> <<Str(<<65601>>), Int32(-1)>>]]

AstralHashes == {[of |-> c, hash |-> CallBytes(AstralRecordable[c])] : c \in MCCalls}
AstralHash == [c \in MCCalls |-> (CHOOSE h \in AstralHashes : h.of = c).hash]
=============================================================================
