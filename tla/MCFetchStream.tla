--------------------------- MODULE MCFetchStream ---------------------------
(* Streams for TLC: four entries of three contents, two bytes of wants. *)
EXTENDS FetchStream

CONSTANTS own, other, batch1, batch2, p1, p2, p3

Own == MintedCodec(own, batch1)
Foreign == MintedCodec(other, batch2)

\* An entry, the same content stamped again by its owner, a chunk of another
\* owner, and one whose signature is malformed.
First == Mint(Own, p1, 0, 0)
Restamped == Mint(Own, p1, 0, 1)
Theirs == Mint(Foreign, p2, 0, 0)
Malformed ==
  LET stamp == [Mint(Own, p3, 1, 0).stamp EXCEPT !.sig = None]
  IN [triple |-> Triple(ChunkAddress(p3), batch1, Keccak(stamp)), data |-> p3, stamp |-> stamp]

AllEntries == {First, Restamped, Theirs, Malformed}

TheCodecs == {Own, PullCodec}

AllWants == SUBSET Triples \ {{}}

\* From nothing to one more than a page of three.
SomeReserves ==
  {<<>>, <<First.triple>>, <<Theirs.triple, First.triple>>,
   <<Malformed.triple, Restamped.triple, First.triple>>,
   <<First.triple, Restamped.triple, Theirs.triple, Malformed.triple>>}

OddOffers ==
  {<<>>, <<First.triple, First.triple>>, <<Garbled, Garbled, Restamped.triple>>}

\* Every mixture of one address with two payloads and every stamp, and a frame
\* that says the entry is gone.
Mixtures ==
  {Delivery(First.triple.address, data, stamp) :
     data \in {p1, p2}, stamp \in {None} \cup {e.stamp : e \in AllEntries}}
  \cup {Delivery(Theirs.triple.address, p2, Theirs.stamp), Delivery(Zero, None, None)}
=============================================================================
