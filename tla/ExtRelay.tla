------------------------------ MODULE ExtRelay ------------------------------
(***************************************************************************)
(* The relay protocol of the browser extension (src/extension/lib/relay.js):*)
(* a request or a response is a four byte header and a list of features,   *)
(* each a type, a length of two bytes and a payload.                       *)
(*                                                                         *)
(* A byte is a number below 256 and text is a sequence of bytes.  A host is *)
(* a record of what parseIPv4 and parseIPv6 find in it: its kind and its   *)
(* bytes.  A decoder gives <<value>>, or <<>> for the exception it throws. *)
(***************************************************************************)
EXTENDS Naturals, Sequences

FeatureUserAuth == 1
FeatureAddr == 2
FeatureTunnel == 3
FeatureNetwork == 4
FeatureMetadata == 5
CmdBind == 2
Version1 == 1
StatusOK == 0

\* the address types on the wire
AddrType == [ip4 |-> 1, domain |-> 3, ip6 |-> 4]
IPv4Host(bytes) == [kind |-> "ip4", bytes |-> bytes]
IPv6Host(bytes) == [kind |-> "ip6", bytes |-> bytes]
DomainHost(text) == [kind |-> "domain", bytes |-> text]

U16(n) == <<n \div 256, n % 256>>
FromU16(b, i) == b[i] * 256 + b[i + 1]
From(b, i) == SubSeq(b, i, Len(b))

---------------------------------------------------------------------------
EncodeUserAuth(user, password) ==
  <<Len(user)>> \o user \o <<Len(password)>> \o password

DecodeUserAuth(b) ==
  IF Len(b) < 2 \/ Len(b) < b[1] + 2 \/ Len(b) < b[1] + 2 + b[b[1] + 2] THEN <<>>
  ELSE <<[user |-> SubSeq(b, 2, b[1] + 1), password |-> SubSeq(b, b[1] + 3, b[1] + 2 + b[b[1] + 2])]>>

EncodeAddr(host, port) ==
  <<AddrType[host.kind]>>
    \o (IF host.kind = "domain" THEN <<Len(host.bytes)>> ELSE <<>>)
    \o host.bytes \o U16(port % 65536)

DecodeAddr(b) ==
  IF Len(b) < 4 THEN <<>>
  ELSE LET kinds == {k \in DOMAIN AddrType : AddrType[k] = b[1]}
           named == kinds = {"domain"}
           size == IF named THEN b[2] ELSE IF kinds = {"ip4"} THEN 4 ELSE 16
           first == IF named THEN 3 ELSE 2
       IN IF kinds = {} \/ Len(b) < first + size + 1 THEN <<>>
          ELSE <<[host |-> [kind |-> CHOOSE k \in kinds : TRUE, bytes |-> SubSeq(b, first, first + size - 1)],
                  port |-> FromU16(b, first + size)]>>

EncodeTunnel(id) == id
DecodeTunnel(b) == IF Len(b) < 20 THEN <<>> ELSE <<SubSeq(b, 1, 20)>>

EncodeNetwork(n) == U16(n)
DecodeNetwork(b) == IF Len(b) < 2 THEN <<>> ELSE <<FromU16(b, 1)>>

\* metadata: a count, then keys and values, each with its length
EncodeMetadata(kvs) ==
  LET body[i \in 0..Len(kvs)] ==
        IF i = 0 THEN <<>>
        ELSE body[i - 1] \o U16(Len(kvs[i].key)) \o kvs[i].key \o U16(Len(kvs[i].value)) \o kvs[i].value
  IN U16(Len(kvs)) \o body[Len(kvs)]

DecodeMetadata(b) ==
  IF Len(b) < 2 THEN <<>>
  ELSE LET n == FromU16(b, 1)
           Text(i) == SubSeq(b, i + 2, i + 1 + FromU16(b, i))
           After(i) == IF i + 1 > Len(b) THEN i + 2 ELSE i + 2 + FromU16(b, i)
           at[i \in 1..(n + 1)] == IF i = 1 THEN 3 ELSE After(After(at[i - 1]))
       IN IF at[n + 1] > Len(b) + 1 THEN <<>>
          ELSE <<[i \in 1..n |-> [key |-> Text(at[i]), value |-> Text(After(at[i]))]]>>

---------------------------------------------------------------------------
EncodeTLV(type, raw) == <<type>> \o U16(Len(raw)) \o raw

\* a type without a handler is passed through
DecodeValue(type, raw) ==
  CASE type = FeatureUserAuth -> DecodeUserAuth(raw)
    [] type = FeatureAddr     -> DecodeAddr(raw)
    [] type = FeatureTunnel   -> DecodeTunnel(raw)
    [] type = FeatureNetwork  -> DecodeNetwork(raw)
    [] type = FeatureMetadata -> DecodeMetadata(raw)
    [] OTHER -> <<raw>>

\* the feature that starts at index i of b
DecodeFeature(b, i) ==
  IF Len(b) < i + 2 \/ Len(b) < i + 2 + FromU16(b, i + 1) THEN <<>>
  ELSE LET value == DecodeValue(b[i], SubSeq(b, i + 3, i + 2 + FromU16(b, i + 1)))
       IN IF value = <<>> THEN <<>>
          ELSE <<[type |-> b[i], value |-> value[1], next |-> i + 3 + FromU16(b, i + 1)]>>

\* a header of version, command or status, and the length of what follows
Frame(code, features) ==
  LET all[i \in 0..Len(features)] == IF i = 0 THEN <<>> ELSE all[i - 1] \o features[i]
  IN <<Version1, code>> \o U16(Len(all[Len(features)])) \o all[Len(features)]

\* features are read until the length of the header is used up; one that cannot
\* be read throws for the whole frame
ParseFrame(b) ==
  IF Len(b) < 4 \/ b[1] # Version1 THEN <<>>
  ELSE LET end == 4 + FromU16(b, 3)
           from[i \in 5..(end + Len(b) + 5)] ==
             IF i > end THEN <<[code |-> b[2], features |-> <<>>]>>
             ELSE LET f == DecodeFeature(b, i)
                      rest == from[f[1].next]
                  IN IF f = <<>> \/ rest = <<>> THEN <<>>
                     ELSE <<[code |-> b[2], features |-> f \o rest[1].features]>>
       IN from[5]

\* the first feature of a type, as <<value>>, or <<>>
FindFeature(features, type) ==
  LET at == {i \in 1..Len(features) : features[i].type = type}
  IN IF at = {} THEN <<>> ELSE <<features[CHOOSE i \in at : \A j \in at : i <= j].value>>

---------------------------------------------------------------------------
AnyHost == IPv4Host(<<0, 0, 0, 0>>)

\* _sendBind: the wish for a prefix is the host of the second address
BindRequest(id, target, prefix, mode) ==
  Frame(CmdBind,
    << EncodeTLV(FeatureTunnel, EncodeTunnel(id)),
       EncodeTLV(FeatureUserAuth, EncodeUserAuth(<<>>, <<>>)),
       EncodeTLV(FeatureAddr, EncodeAddr(target, 80)),
       EncodeTLV(FeatureAddr, EncodeAddr(IF prefix = <<>> THEN AnyHost ELSE DomainHost(prefix), 80)),
       EncodeTLV(FeatureNetwork, EncodeNetwork(0)),
       EncodeTLV(FeatureMetadata, EncodeMetadata(<<[key |-> <<114>>, value |-> mode]>>)) >>)

\* 20 bytes out of a tunnel's uuid
TunnelIdBytes(uuid) == uuid \o [i \in 1..(20 - Len(uuid)) |-> 0]

---------------------------------------------------------------------------
(* The relay (external): it gives the prefix that was asked for when it is  *)
(* free and well formed, and the hash of the id otherwise.                  *)
RelayAnswer(request, hash, free) ==
  LET p == ParseFrame(request)
      addrs == {i \in 1..Len(p[1].features) : p[1].features[i].type = FeatureAddr}
      bind == p[1].features[CHOOSE i \in addrs : \A j \in addrs : j <= i].value.host
      given == IF bind.kind = "domain" /\ free THEN bind ELSE DomainHost(hash)
  IN IF p = <<>> THEN Frame(1, <<>>)
     ELSE Frame(StatusOK, <<EncodeTLV(FeatureTunnel, FindFeature(p[1].features, FeatureTunnel)[1]),
                            EncodeTLV(FeatureAddr, EncodeAddr(given, 80))>>)

\* the public host that the extension reads out of the answer
BoundHost(response, hash) ==
  LET addr == FindFeature(ParseFrame(response)[1].features, FeatureAddr)
  IN IF addr = <<>> \/ addr[1].host = AnyHost THEN hash ELSE addr[1].host.bytes
=============================================================================
