------------------------------ MODULE Dnsaddr ------------------------------
(***************************************************************************)
(* The resolution of /dnsaddr/ names, crates/net/src/dnsaddr.rs: breadth   *)
(* first along the records of a zone, with a visited set and a depth cap.  *)
(*                                                                         *)
(* A name is a domain and a suffix (the /p2p/ part, say): names are        *)
(* visited by both, records are looked up by the domain.  A record is a    *)
(* name, a concrete address, or text without the dnsaddr= prefix.  The     *)
(* lookup is the one thing awaited, and may fail.                          *)
(***************************************************************************)
EXTENDS Integers, Sequences, FiniteSets, SequencesExt

CONSTANTS
  Apex,         \* the name of the network's bootnodes
  Zones,        \* the zones that may be: functions from domains to records
  NoDomain,     \* the domain of a name that has none
  Unparseable,  \* concrete addresses that are no multiaddr
  WebSocket,    \* concrete addresses that need /ws or /tls
  MaxDepth      \* MAX_DEPTH

ASSUME DnsConstants ==
  /\ MaxDepth \in Nat \ {0}
  /\ \A z \in Zones :
       /\ NoDomain \notin DOMAIN z
       /\ \A d \in DOMAIN z : z[d] \in Seq(ToSet(z[d])) \* a sequence of records

VARIABLES
  zone,     \* the records of each domain
  queue,    \* names to resolve, each with its depth
  visited,  \* names seen
  out,      \* concrete addresses, in the order found
  resolved  \* "no" while resolving, then "ok", "Lookup" or "NoAddresses"

dnsVars == <<zone, queue, visited, out, resolved>>

Nested(domain, suffix) == [kind |-> "dnsaddr", name |-> <<domain, suffix>>]
Concrete(a) == [kind |-> "concrete", addr |-> a]
Text == [kind |-> "text"]

DomainOf(name) == name[1]

DnsInit ==
  /\ zone \in Zones
  /\ queue = <<[name |-> Apex, depth |-> 0]>>
  /\ visited = {}
  /\ out = <<>>
  /\ resolved = "no"

\* Too deep, seen before, or no domain: nothing is looked up.
Skipped(q) == q.depth >= MaxDepth \/ q.name \in visited \/ DomainOf(q.name) = NoDomain

ResolveSkip ==
  /\ resolved = "no" /\ queue # <<>>
  /\ Skipped(Head(queue))
  /\ queue' = Tail(queue)
  /\ visited' = IF Head(queue).depth >= MaxDepth THEN visited
                ELSE visited \cup {Head(queue).name}
  /\ UNCHANGED <<zone, out, resolved>>

\* The names among the records join the queue at the next depth.
NamesIn(records, depth) ==
  LET upto[i \in 0 .. Len(records)] ==
        IF i = 0 THEN <<>>
        ELSE IF records[i].kind = "dnsaddr"
             THEN Append(upto[i - 1], [name |-> records[i].name, depth |-> depth])
             ELSE upto[i - 1]
  IN upto[Len(records)]

\* out with the concrete addresses among the records that are not in it yet.
NewIn(records) ==
  LET upto[i \in 0 .. Len(records)] ==
        IF i = 0 THEN out
        ELSE IF records[i].kind = "concrete"
             THEN IF records[i].addr \in ToSet(upto[i - 1]) THEN upto[i - 1]
                  ELSE Append(upto[i - 1], records[i].addr)
             ELSE upto[i - 1]
  IN upto[Len(records)]

\* Mutant of ResolveLookup: the names are put in front, so a name may first be
\* reached along a path that leaves no depth for what follows it.
ResolveLookupDepthFirst ==
  /\ resolved = "no" /\ queue # <<>>
  /\ ~Skipped(Head(queue)) /\ DomainOf(Head(queue).name) \in DOMAIN zone
  /\ LET q == Head(queue)
         records == zone[DomainOf(q.name)]
     IN /\ queue' = NamesIn(records, q.depth + 1) \o Tail(queue)
        /\ out' = NewIn(records)
        /\ visited' = visited \cup {q.name}
  /\ UNCHANGED <<zone, resolved>>

ResolveLookup ==
  /\ resolved = "no" /\ queue # <<>>
  /\ ~Skipped(Head(queue)) /\ DomainOf(Head(queue).name) \in DOMAIN zone
  /\ LET q == Head(queue)
         records == zone[DomainOf(q.name)]
     IN /\ queue' = Tail(queue) \o NamesIn(records, q.depth + 1)
        /\ out' = NewIn(records)
        /\ visited' = visited \cup {q.name}
  /\ UNCHANGED <<zone, resolved>>

\* One failed lookup fails the resolution; what is out already is dropped.
ResolveLookupFails ==
  /\ resolved = "no" /\ queue # <<>>
  /\ ~Skipped(Head(queue))
  /\ resolved' = "Lookup"
  /\ UNCHANGED <<zone, queue, visited, out>>

\* The addresses a raw TCP transport can dial, in order.
TcpBootnodes(addrs) == SelectSeq(addrs, LAMBDA a : a \notin Unparseable \cup WebSocket)

ResolveDone ==
  /\ resolved = "no" /\ queue = <<>>
  /\ resolved' = IF TcpBootnodes(out) = <<>> THEN "NoAddresses" ELSE "ok"
  /\ UNCHANGED <<zone, queue, visited, out>>

DnsNext == ResolveSkip \/ ResolveLookup \/ ResolveLookupFails \/ ResolveDone

-----------------------------------------------------------------------------
(* Properties.                                                             *)

Records(names) == UNION {ToSet(zone[DomainOf(n)]) : n \in {m \in names : DomainOf(m) \in DOMAIN zone}}

\* The names at each distance from the apex.
Levels ==
  LET level[n \in 0 .. MaxDepth - 1] ==
        IF n = 0 THEN {Apex}
        ELSE {r.name : r \in {r \in Records(level[n - 1]) : r.kind = "dnsaddr"}}
  IN level

\* A resolution that succeeds has found exactly the addresses that some chain
\* of fewer than MaxDepth indirections leads to, each once, whatever cycles and
\* shortcuts the zone has and in whatever order its records come.
ResolvesReachable ==
  resolved \in {"ok", "NoAddresses"} =>
    /\ ToSet(out) = {r.addr : r \in {r \in Records(UNION {Levels[n] : n \in DOMAIN Levels}) :
                                       r.kind = "concrete"}}
    /\ Len(out) = Cardinality(ToSet(out))
=============================================================================
