---------------------------- MODULE MCConnection ----------------------------
(* Connections on small instances.                                         *)
EXTENDS Connection

\* An HTTP/2 client with an IPv6 address is known by what precedes the first
\* colon of "[2001:db8::1]:443".
ClientHosts ==
  [hcm |-> [x1 |-> "2001:db8::1", x2 |-> "2001:db8::2"],
   h2 |-> [x1 |-> "[2001", x2 |-> "[2001"]]

Rule(prefix, cluster, strip, rewrite, retries) ==
  [prefix |-> prefix, cluster |-> cluster, strip |-> strip, rewrite |-> rewrite, retries |-> retries]

\* Rules that overlap.  The options of the first one give a retry that its
\* cluster does not have.
OverlappingRules ==
  <<Rule(<<"/", "a">>, "A", TRUE, <<>>, 1), Rule(<<"/", "a", "/">>, "B", FALSE, <<>>, 0)>>

Policies ==
  [A |-> [retries |-> 0, idempotentOnly |-> FALSE], B |-> [retries |-> 0, idempotentOnly |-> TRUE]]

\* One connection speaks HTTP/1.1 or HTTP/2, or fails to agree on either; the
\* other one asks for a name.
TwoHandshakes ==
  [c1 |-> {[tls |-> FALSE, alpn |-> "", sni |-> "", ok |-> TRUE],
           [tls |-> TRUE, alpn |-> "h2", sni |-> "b", ok |-> TRUE],
           [tls |-> TRUE, alpn |-> "", sni |-> "", ok |-> FALSE]},
   c2 |-> {[tls |-> TRUE, alpn |-> "http/1.1", sni |-> "b", ok |-> TRUE]}]

TwoChains ==
  <<[sni |-> {}, filters |-> <<"hcm">>], [sni |-> {"b"}, filters |-> <<"logging", "hcm">>]>>

\* The first connection forwards one request, with or without a body; on the
\* second one requests without a route leave their bodies in the reader.
TwoKinds ==
  [c1 |-> {[method |-> "GET", path |-> <<"/", "a", "/">>, body |-> FALSE, close |-> TRUE],
           [method |-> "POST", path |-> <<"/", "a", "/">>, body |-> TRUE, close |-> TRUE]},
   c2 |-> {[method |-> "POST", path |-> <<"*">>, body |-> TRUE, close |-> FALSE]}]
OneAndTwo == [c1 |-> 1, c2 |-> 2]
OneEach == [c1 |-> 1, c2 |-> 1]

\* One connection with two requests that have a route.
PlainOnly == [c1 |-> {[tls |-> FALSE, alpn |-> "", sni |-> "", ok |-> TRUE]}]
GetOnly == [c1 |-> {[method |-> "GET", path |-> <<"/", "a", "/">>, body |-> FALSE, close |-> FALSE]}]
Two == [c1 |-> 2]
=============================================================================
