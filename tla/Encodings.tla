----------------------------- MODULE Encodings ------------------------------
(***************************************************************************)
(* The bytes that a generated call enum streams into its hash: write_rust  *)
(* of src/lib/hash.mbt and the write_rust that gen/gen.py generates.       *)
(*                                                                         *)
(* A string is a sequence of code points, a call [tag, args] the position  *)
(* of a method and its arguments [type, val].  The hash over the bytes is  *)
(* taken to be injective.                                                  *)
(***************************************************************************)
EXTENDS Integers, Sequences, SequencesExt

(* UTF-8, with no form of four bytes: the third drops what is above its 16 *)
CharBytes(cp) ==
  CASE cp <= 127  -> <<cp>>
    [] cp > 127 /\ cp <= 2047 -> <<192 + ((cp \div 64) % 32), 128 + (cp % 64)>>
    [] OTHER -> <<224 + ((cp \div 4096) % 16), 128 + ((cp \div 64) % 64), 128 + (cp % 64)>>

Chars(s) == FlattenSeq([n \in DOMAIN s |-> CharBytes(s[n])])

(* A faulty StringBytes: nothing tells where the string ends *)
StringBytesOpen(s) == Chars(s)

StringBytes(s) == Append(Chars(s), 255)

(* An integer of at most 32 bits as 8 bytes, the lowest first *)
Places == <<1, 256, 65536, 16777216>>

ByteAt(v, n) == (v \div Places[n]) % 256

WordBytes(v) ==
  [n \in 1 .. 8 |-> IF n <= 4 THEN ByteAt(v, n) ELSE IF v < 0 THEN 255 ELSE 0]

ArgBytes(arg) ==
  CASE arg.type = "String" -> StringBytes(arg.val)
    [] arg.type = "Int"    -> WordBytes(arg.val)
    [] arg.type = "Char"   -> [n \in 1 .. 4 |-> ByteAt(arg.val, n)]
    [] arg.type = "Bool"   -> <<IF arg.val THEN 1 ELSE 0>>

(* The discriminant and the arguments, in order *)
CallBytes(call) ==
  WordBytes(call.tag) \o FlattenSeq([n \in DOMAIN call.args |-> ArgBytes(call.args[n])])

-----------------------------------------------------------------------------
(* What the comments of hash.mbt say the bytes are: those of Rust's Hash   *)
(* for str, which has the form of four bytes.                              *)

RustCharBytes(cp) ==
  IF cp <= 65535 THEN CharBytes(cp)
  ELSE <<240 + (cp \div 262144), 128 + ((cp \div 4096) % 64),
         128 + ((cp \div 64) % 64), 128 + (cp % 64)>>

RustStringBytes(s) == Append(FlattenSeq([n \in DOMAIN s |-> RustCharBytes(s[n])]), 255)

RustArgBytes(arg) ==
  IF arg.type = "String" THEN RustStringBytes(arg.val) ELSE ArgBytes(arg)

RustCallBytes(call) ==
  WordBytes(call.tag) \o FlattenSeq([n \in DOMAIN call.args |-> RustArgBytes(call.args[n])])

-----------------------------------------------------------------------------

LargestWord == 2147483647
Words == -LargestWord - 1 .. LargestWord
LastCodePoint == 1114111
CodePoints == 0 .. LastCodePoint

Types == {"String", "Int", "Char", "Bool"}

(* The arguments that a parameter of a type takes *)
ArgsOf(type) ==
  CASE type = "String" -> [type : {"String"}, val : Seq(CodePoints)]
    [] type = "Int"    -> [type : {"Int"}, val : Words]
    [] type = "Char"   -> [type : {"Char"}, val : CodePoints]
    [] type = "Bool"   -> [type : {"Bool"}, val : BOOLEAN]

(* The generated enum has a variant for each method, whose fields have the *)
(* types of its parameters.                                                *)
IsVariant(call, signature) ==
  /\ call.tag \in DOMAIN signature
  /\ call.args \in Seq(Range(call.args))
  /\ Len(call.args) = Len(signature[call.tag])
  /\ \A n \in DOMAIN call.args : call.args[n] \in ArgsOf(signature[call.tag][n])
=============================================================================
