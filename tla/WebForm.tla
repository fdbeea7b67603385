-------------------------------- MODULE WebForm --------------------------------
(***************************************************************************)
(* What a tunnel or an entrypoint is to the web interface, and what a save *)
(* of it sends (src/web-src/src/api/types.ts, the two detail pages): which *)
(* options each type has, which of them its form shows, which the request  *)
(* names, and what the daemon makes of the ones it does not name           *)
(* (src/api/tunnel_handler.go, entrypoint_handler.go).                     *)
(*                                                                         *)
(* A class is a kind of item and its type.  An option holds a number, 0    *)
(* when it is not set.                                                     *)
(***************************************************************************)
EXTENDS Naturals

Class(kind, type) == [kind |-> kind, type |-> type]
TunnelClasses == {Class("tunnel", type) : type \in {"file", "http", "tcp", "udp", "p2p", "tun"}}
EntrypointClasses == {Class("entrypoint", type) : type \in {"tcp", "udp", "p2p", "tun"}}

\* the types whose inbound side is an allowlist (_isP2P)
IsP2P(class) == class.type \in {"p2p", "tun"}
HoldsDevice(class) == class = Class("entrypoint", "tun")

When(condition, fields) == IF condition THEN fields ELSE {}
DeviceFields == {"net", "mtu", "device_name", "share_lan", "share_mode"}

\* the options of a stored tunnel that mean anything for its type
TunnelOptions(type) ==
  {"name"} \union When(type # "tun", {"endpoint"}) \union When(type = "tun", DeviceFields)
  \union When(type \in {"http", "file"}, {"prefix", "username", "password"})
  \union When(type = "http", {"hostname", "enableTLS", "rewriteHost"})
  \union When(type = "file", {"file_upload"}) \union When(type = "udp", {"keepalive", "ttl"})
  \union When(type \notin {"p2p", "tun"}, {"record_mode"})
  \union When(type \in {"p2p", "tun"}, {"peers"})
  \union When(type = "tun", {"lan_allow", "lan_routes"})

EntrypointOptions(type) ==
  {"name"} \union When(type # "tun", {"endpoint"})
  \union When(type = "tun", DeviceFields \union {"routes", "dns", "direct", "blocked_peers"})
  \union When(type \in {"p2p", "tun"}, {"peer"}) \union When(type = "p2p", {"protocol"})
  \union When(type \in {"udp", "p2p"}, {"keepalive", "ttl"})

Options(class) ==
  IF class.kind = "tunnel" THEN TunnelOptions(class.type) ELSE EntrypointOptions(class.type)

\* the inputs of the form, in edit and in create mode
TunnelForm(type) ==
  {"name"} \union When(type # "tun", {"endpoint"}) \union When(type = "tun", DeviceFields)
  \union When(type \in {"http", "file"}, {"prefix", "username", "password"})
  \union When(type = "http", {"hostname", "enableTLS"}) \union When(type = "file", {"file_upload"})
  \union When(type \notin {"p2p", "tun"}, {"record_mode"})

EntrypointForm(type) ==
  {"name"} \union When(type # "tun", {"endpoint"})
  \union When(type = "tun", DeviceFields \union {"peer", "routes", "dns", "direct"})
  \union When(type = "p2p", {"peer", "protocol", "keepalive"})

Inputs(class) == IF class.kind = "tunnel" THEN TunnelForm(class.type) ELSE EntrypointForm(class.type)

\* The fields of the page, shown or not: one that has no input keeps what the
\* form was populated with.
TunnelFields(type) == (TunnelForm(type) \union {"rewriteHost"}) \intersect TunnelOptions(type)
EntrypointFields(type) == EntrypointForm(type)
FormFields(class) ==
  IF class.kind = "tunnel" THEN TunnelFields(class.type) ELSE EntrypointFields(class.type)

Empty(class) == [f \in Options(class) |-> 0]

\* toTunnelResponse: the password is never told to anybody
Told(opts) == [f \in DOMAIN opts |-> IF f = "password" THEN 0 ELSE opts[f]]

\* _populateForm, _resetForm
PopulateForm(class, opts) == [f \in FormFields(class) |-> opts[f]]
ResetForm(class) == [f \in FormFields(class) |-> 0]

\* An option set to nothing is left out, so that it does not differ from one that
\* is not mentioned; a switch is always told.
Mentioned(fields, values) == {f \in fields : values[f] # 0 \/ f = "direct"}

(* Mutant: an edit does not carry the allowlist along *)
CarriedWithoutPeers(class, editing) == When(class = Class("tunnel", "tun"), {"lan_allow", "lan_routes"})

\* the body of a save: the fields of the form, and what an edit carries along from
\* the tunnel the page holds (cur; its options are all 0 when it holds none)
Carried(class, editing) ==
  When(class = Class("tunnel", "tun"), {"lan_allow", "lan_routes"})
  \union When(class.kind = "tunnel" /\ IsP2P(class) /\ editing, {"peers"})

TunnelBody(class, form, cur, editing) ==
  LET value == [f \in Options(class) |-> IF f \in DOMAIN form THEN form[f] ELSE cur[f]]
  IN  [f \in Mentioned(DOMAIN form \union Carried(class, editing), value) |-> value[f]]

\* keepalive is told for a p2p entrypoint with an inner udp (protocol 2) only
EntrypointBody(class, form) ==
  LET fields == DOMAIN form \ When(class.type = "p2p" /\ form["protocol"] # 2, {"keepalive"})
  IN  [f \in Mentioned(fields, form) |-> form[f]]

Body(class, form, cur, editing) ==
  IF class.kind = "tunnel" THEN TunnelBody(class, form, cur, editing) ELSE EntrypointBody(class, form)

\* What the user types: nothing, something else, or a prefix that is no host name label
\* of 8 to 63 characters.
Malformed == 3
TypedValues(f) == {0, 2} \union When(f = "prefix", {Malformed})

\* _handleSave refuses a form without a name, with a malformed prefix and, where there is
\* one to dial, without a peer
Complete(class, form) ==
  /\ form["name"] # 0 /\ ("peer" \in DOMAIN form => form["peer"] # 0)
  /\ "prefix" \in DOMAIN form => form["prefix"] # Malformed

\* handleUpdateTunnel, handleUpdateEntrypoint: the daemon replaces the whole
\* configuration.  Absent means unchanged for these.
KeptByTunnel == {"password", "lan_allow", "lan_routes"}
KeptByEntrypoint == {"blocked_peers", "direct"}
Kept(class) == IF class.kind = "tunnel" THEN KeptByTunnel ELSE KeptByEntrypoint

Replaced(class, opts, body) ==
  [f \in Options(class) |->
     IF f \in DOMAIN body THEN body[f] ELSE IF f \in Kept(class) THEN opts[f] ELSE 0]
=============================================================================
