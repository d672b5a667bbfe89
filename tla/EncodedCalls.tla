---------------------------- MODULE EncodedCalls ----------------------------
(***************************************************************************)
(* The call sequence of a tracked value whose methods the generator found: *)
(* the calls are those of its enum, and known by the bytes they write into *)
(* their hashes.                                                           *)
(***************************************************************************)
EXTENDS CallSequence, Encodings

CONSTANTS
  Signature,   \* method |-> the types of its parameters
  Encoded,     \* call |-> the variant of the enum that it is
  Generated    \* the variants that are looked up

ASSUME SignatureAssumption ==
  \A m \in DOMAIN Signature :
    m \in Words /\ m >= 0 /\ Signature[m] \in Seq(Types)

ASSUME EncodedAssumption ==
  /\ \A g \in Generated : IsVariant(g, Signature)
  /\ \A c \in Calls : IsVariant(Encoded[c], Signature)
  /\ \A c \in Calls : CallHash[c] = CallBytes(Encoded[c])

Hashed == {[call |-> g, hash |-> CallBytes(g)] : g \in Generated}

(* No string has a character beyond U+FFFF *)
Basic(call) ==
  \A n \in DOMAIN call.args : call.args[n].type = "String" =>
    \A i \in DOMAIN call.args[n].val : call.args[n].val[i] <= 65535

BasicPlane == (\A g \in Generated : Basic(g)) /\ (\A c \in Calls : Basic(Encoded[c]))

(* insert and extract take a generated call for one recorded before just   *)
(* if it is the same: no argument runs into the next and no method is      *)
(* taken for another (write_rust of hash.mbt, and the one gen.py writes).  *)
LooksUpTheSame ==
  \A g \in Hashed :
    g.hash \in DOMAIN map
      <=> \E c \in Calls : /\ CallHash[c] \in DOMAIN map
                         /\ g.call.tag = Encoded[c].tag /\ g.call.args = Encoded[c].args

(* They take a call for one recorded before just if Rust's hash does: the  *)
(* bytes are said to be those of Rust comemo (hash.mbt).                   *)
FoundAsInRust ==
  \A g \in Hashed :
    g.hash \in DOMAIN map
      <=> \E c \in Calls : /\ CallHash[c] \in DOMAIN map
                         /\ RustCallBytes(g.call) = RustCallBytes(Encoded[c])
=============================================================================
