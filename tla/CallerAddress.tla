---------------------------- MODULE CallerAddress ----------------------------
(***************************************************************************)
(* Whose request it is for the rate limit by caller                        *)
(* (internal/api/caller_ip.go): the peer of the connection or, if that is  *)
(* a trusted proxy, whom the proxy names.                                  *)
(*                                                                         *)
(* An address is a host and whether it is written as an IPv4-mapped one;   *)
(* NoAddress is any text that is none.  A trusted proxy's hosts are those  *)
(* that its address or its prefix covers, mapped or not.                   *)
(***************************************************************************)
EXTENDS Integers, Sequences

NoAddress == [host |-> "no address", mapped |-> FALSE]

(* Seeded fault: a mapped address is left as it is written. *)
NormalizeAddrNot(address) == address

NormalizeAddr(address) == [address EXCEPT !.mapped = FALSE]

(* parseIPFromAddress, with or without a port: the empty set is not ok. *)
ParseIPFromAddress(address) == {NormalizeAddr(a) : a \in {address} \ {NoAddress}}

(* firstHeaderIP: an entry after the first does not count. *)
FirstHeaderIP(forwarded) == UNION {ParseIPFromAddress(forwarded[i]) : i \in {1} \cap DOMAIN forwarded}

(* trustedProxySet.contains: no prefix contains a mapped address. *)
Trusts(proxies, address) ==
  LET a == NormalizeAddr(address)
  IN \E proxy \in proxies : ~a.mapped /\ a.host \in proxy.hosts

(* callerIPResolver.resolve: X-Forwarded-For goes before X-Real-IP. *)
CallerIP(proxies, peer, headers) ==
  LET remote    == ParseIPFromAddress(peer)
      trusted   == \E a \in remote : Trusts(proxies, a)
      forwarded == FirstHeaderIP(headers.forwarded)
      real      == ParseIPFromAddress(headers.real)
      one       == CASE trusted /\ forwarded # {}               -> forwarded
                     [] trusted /\ forwarded = {} /\ real # {} -> real
                     [] ~trusted \/ forwarded \cup real = {}    -> remote \cup {a \in {peer} : remote = {}}
  IN CHOOSE a \in one : TRUE
=============================================================================
