------------------------------- MODULE Codec -------------------------------
(***************************************************************************)
(* How a delivery is identified and judged: MintedCodec and PullCodec of   *)
(* crates/wire/src/codec.rs, over the stamps of crates/wire/src/postage.rs *)
(* and the bit vectors of crates/wire/src/pb.rs.                           *)
(*                                                                         *)
(* Hashes and signatures are free constructors: two inputs never collide   *)
(* and nobody signs for somebody else.  Recovery from a digest other than  *)
(* the one that was signed yields an address, but nobody's.                *)
(***************************************************************************)
EXTENDS Integers, Sequences, FiniteSets

CONSTANTS
  Nobody,     \* the address a mismatched signature recovers to
  None,       \* the absent value
  Garbled,    \* a wire Chunk with a field of the wrong length
  ByteBits    \* bits in a byte: 8

ASSUME CodecConstants == ByteBits \in Nat \ {0}

-----------------------------------------------------------------------------
(* Content and payment.                                                    *)

ChunkAddress(payload) == [bmt |-> payload]

Keccak(stamp) == [hash |-> stamp]

ToSignDigest(address, batch_id, index, timestamp) ==
  [digest |-> <<address, batch_id, index, timestamp>>]

Sign(secret, digest) == [by |-> secret, over |-> digest]

\* A malformed signature recovers to nothing.
RecoverFrom(digest, sig) ==
  IF sig = None THEN None ELSE IF sig.over = digest THEN sig.by ELSE Nobody

\* Stamp::parse: bytes of any other length than a stamp's are no stamp.
Parses(stamp) == stamp # None

RecoverOwner(address, stamp) ==
  RecoverFrom(ToSignDigest(address, stamp.batch_id, stamp.index, stamp.timestamp), stamp.sig)

\* AUTHORISED, the one conjunct of stamp validity that is checked.
Valid(address, stamp, owner) == RecoverOwner(address, stamp) = owner

Triple(address, batch_id, stamp_hash) ==
  [address |-> address, batch_id |-> batch_id, stamp_hash |-> stamp_hash]

-----------------------------------------------------------------------------
(* The codecs: a minting codec with one batch and one owner, and the       *)
(* puller's codec, which matches no fixed owner.                           *)

MintedCodec(owner, batch_id) == [kind |-> "minted", owner |-> owner, batch_id |-> batch_id]

PullCodec == [kind |-> "pull"]

\* The entry mint adds to the store: the triple, its payload and its stamp.
Mint(codec, payload, index, timestamp) ==
  LET address == ChunkAddress(payload)
      digest == ToSignDigest(address, codec.batch_id, index, timestamp)
      stamp == [batch_id |-> codec.batch_id, index |-> index, timestamp |-> timestamp,
                sig |-> Sign(codec.owner, digest)]
  IN [triple |-> Triple(address, codec.batch_id, Keccak(stamp)),
      data |-> payload, stamp |-> stamp]

\* The triple a wire Chunk names; fields of any other length name none.
TripleOf(chunk) == IF chunk = Garbled THEN None ELSE chunk

\* The triple that a delivery is an answer for, by the bytes of its stamp; a
\* delivery without a stamp answers for none.
TripleOfDelivery(d) ==
  IF ~Parses(d.stamp) THEN None
  ELSE Triple(d.address, d.stamp.batch_id, Keccak(d.stamp))

\* The owner a codec accepts: its own, or whoever signed.
Paid(codec, address, stamp) ==
  IF codec.kind = "minted" THEN Valid(address, stamp, codec.owner)
  ELSE RecoverOwner(address, stamp) # None

\* Content first, a fault of the peer; then payment, a fault of the entry.
Validate(codec, c, d) ==
  IF ChunkAddress(d.data) # c.address THEN "Missed"
  ELSE IF Parses(d.stamp) /\ Paid(codec, c.address, d.stamp) THEN "Delivered"
  ELSE "Rejected"

-----------------------------------------------------------------------------
(* Bit vectors: positions count from 0, a byte is the set of its set bits. *)

\* One byte more than full bytes are needed, as bee has it.
BitvectorNew(len) == [k \in 1 .. len \div ByteBits + 1 |-> {}]

\* Mutant of BitvectorSet: the first position is the highest bit of its byte.
BitvectorSetMsb(bv, i) ==
  [bv EXCEPT ![i \div ByteBits + 1] = @ \cup {ByteBits - 1 - (i % ByteBits)}]

BitvectorSet(bv, i) == [bv EXCEPT ![i \div ByteBits + 1] = @ \cup {i % ByteBits}]

\* Reading past the end is reading an unset bit.
BitvectorGet(bv, i) ==
  /\ i \div ByteBits + 1 \in DOMAIN bv
  /\ i % ByteBits \in bv[i \div ByteBits + 1]

\* The bit vector over an offer of len entries with the given positions set, one
\* after the other.
WantBits(positions, len) ==
  LET upto[i \in 0 .. len] ==
        IF i = 0 THEN BitvectorNew(IF len = 0 THEN 1 ELSE len)
        ELSE IF i - 1 \in positions THEN BitvectorSet(upto[i - 1], i - 1) ELSE upto[i - 1]
  IN upto[len]
=============================================================================
