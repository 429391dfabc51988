---------------------------- MODULE ClientAddress ----------------------------
(***************************************************************************)
(* IPResolver: the key that the limits per address count a request under.  *)
(* The request comes from a sender, with whatever X-Forwarded-For it likes *)
(* to write, through proxies that each append the address they were        *)
(* reached from.  The proxies are not part of the program: they do what    *)
(* whoever lists them in TRUSTED_PROXIES takes them to do.                 *)
(***************************************************************************)
EXTENDS Integers, Sequences, FiniteSetsExt

CONSTANTS
  Addresses,    \* unmapped
  Trusted,      \* those in a trusted prefix
  Blocks,
  Block,        \* of an IPv4 address itself, of an IPv6 one its /64
  Unknown,      \* neither an address nor a key of one
  Forged,       \* the headers a sender may write
  MaxHops       \* bound: elements of the header up to which proxies pass it on

\* An element of the header; an IPv4 address may be written as an IPv6 one.
Hops == [address : Addresses \cup {Unknown}, mapped : BOOLEAN]

ASSUME AddressAssumption ==
  /\ Trusted \subseteq Addresses
  /\ Block \in [Addresses -> Blocks]
  /\ Unknown \notin Addresses \cup Blocks
  /\ Forged \subseteq Seq(Hops)
  /\ MaxHops \in Nat

VARIABLES
  sender,
  peer,       \* whom the request comes from now
  header,     \* the elements of all X-Forwarded-For lines, in order
  key         \* what Key returned, <<>> before

addressVars == <<sender, peer, header, key>>

-----------------------------------------------------------------------------
\* The walk goes on at trusted hops, whose addresses are unmapped before.
StopsAtMapped(hop) == hop.mapped \/ hop.address \notin Trusted
StopsAt(hop) == hop.address \notin Trusted

Stops(hops) == {i \in 1 .. Len(hops) : StopsAt(hops[i])}

\* An untrusted peer speaks for itself, and so does one whose address cannot be read;
\* behind a trusted one it is the last untrusted hop, which may be unreadable, too, or
\* the peer when every hop is trusted.
ClientIP(from, hops) ==
  IF from \notin Trusted \/ Stops(hops) = {}
    THEN from ELSE hops[Max(Stops(hops))].address

BlockKey(a) == IF a = Unknown THEN Unknown ELSE Block[a]

\* A trusted proxy passes the request on.
PassOn(proxy) ==
  /\ key = <<>> /\ Len(header) < MaxHops
  /\ \E m \in BOOLEAN : header' = Append(header, [address |-> peer, mapped |-> m])
  /\ peer' = proxy
  /\ UNCHANGED <<sender, key>>

Resolve ==
  /\ key = <<>>
  /\ key' = <<BlockKey(ClientIP(peer, header))>>
  /\ UNCHANGED <<sender, peer, header>>

AddressInit ==
  /\ sender \in Addresses \cup {Unknown} /\ peer = sender
  /\ header \in Forged
  /\ key = <<>>

AddressNext == (\E proxy \in Trusted : PassOn(proxy)) \/ Resolve

AddressSpec == AddressInit /\ [][AddressNext]_addressVars

-----------------------------------------------------------------------------
\* Whoever is no proxy is counted under its own block, through however many proxies it
\* came and whatever it wrote into the header (ip_test.go:40), and whose address cannot
\* be read under the one key of all of those.
CountsTheSender == sender \notin Trusted /\ key # <<>> => key = <<BlockKey(sender)>>
=============================================================================
