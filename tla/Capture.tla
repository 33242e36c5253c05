------------------------------ MODULE Capture -------------------------------
(***************************************************************************)
(* A packet capture (internal/ingest/pcap.go): what one frame tells the    *)
(* learning pass, and what it does to the state of the second pass and to  *)
(* the inventory.                                                          *)
(*                                                                         *)
(* A frame is [kind, mac, ...]: "arp" with the ip announced, "lldp" with   *)
(* name, text and bridge, "ip" with src, dst, transport, sport, dport,     *)
(* flag ("", "syn" or "synack"), payload (pieces) and server, the header   *)
(* of an HTTP response; and "other" with src, an IP packet of neither TCP  *)
(* nor UDP, an ICMP message for one.                                       *)
(***************************************************************************)
EXTENDS Decoders

CONSTANTS
  Groups,           \* the addresses that name no single device
  IPv6Addresses,    \* the addresses that are IPv6
  MaxTrackedFlows,
  MaxDecodeAttempt, \* maxDecodeAttemptBytes, in pieces
  MaxFlowBuffer,    \* Options.MaxFlowBufferBytes, in pieces
  VendorNamed,      \* the vendor each word of the alias table names
  Readings,         \* the readings [vendor, confidence] of each candidate order code
  Letters           \* how many characters each word has

Usable(address) == address # NoAddress /\ address \notin Groups

AddressesFor(ip) ==
  IF ip \in IPv6Addresses THEN [Hardware(NoAddress) EXCEPT !.v6 = ip]
  ELSE [Hardware(NoAddress) EXCEPT !.v4 = ip]

-----------------------------------------------------------------------------
(* The learning pass.  arp and observed are sets of <<mac, ip>>.            *)
Learn(tables, frame) ==
  CASE frame.kind = "arp" ->
         [tables EXCEPT !.arp = @ \cup {<<frame.mac, frame.ip>>}]
    [] frame.kind \in {"ip", "other"} /\ Usable(frame.mac) ->
         [tables EXCEPT !.observed = @ \cup {<<frame.mac, frame.src>>}]
    [] OTHER -> tables

IPsOf(table, mac) == {p[2] : p \in {q \in table : q[1] = mac}}

Macs(table) == {p[1] : p \in table}

Sole_Any(table, mac) == Usable(mac)

(* A hardware address seen with more than one IP is dropped.                *)
Sole(table, mac) == Usable(mac) /\ Cardinality(IPsOf(table, mac)) = 1

Announced(table) ==
  {pair \in table : Sole(table, pair[1]) /\ Usable(pair[2])}

(* What the device announced goes before what was seen of its frames; of    *)
(* two hardware addresses of one IP either may come first.                  *)
MacToIP(tables) ==
  LET said == Announced(tables.arp)
      seen == {p \in Announced(tables.observed) : p[1] \notin Macs(said)}
  IN  said \cup seen

Bindings(tables) ==
  LET macToIP == MacToIP(tables)
      Claimants(ip) == {p[1] : p \in {q \in macToIP : q[2] = ip}}
      First(ip) == LET saying == Claimants(ip) \cap Macs(Announced(tables.arp))
                   IN  IF saying # {} THEN saying ELSE Claimants(ip)
      ips == {p[2] : p \in macToIP}
  IN  {[macToIP |-> macToIP, ipToMAC |-> chosen] :
         chosen \in {c \in [ips -> Macs(macToIP)] : \A ip \in ips : c[ip] \in First(ip)}}

MacFor(bindings, ip) ==
  IF ip \in DOMAIN bindings.ipToMAC THEN bindings.ipToMAC[ip] ELSE NoAddress

IPFor(bindings, mac) ==
  LET ips == IPsOf(bindings.macToIP, mac) IN IF ips = {} THEN NoAddress ELSE CHOOSE ip \in ips : TRUE

(* capturePass.addressesFor. *)
BoundAddresses(bindings, ip) == [AddressesFor(ip) EXCEPT !.mac = MacFor(bindings, ip)]

-----------------------------------------------------------------------------
(* Free text.  A text is a sequence of clauses, a clause of words.          *)
Width(words) == FoldLeft(LAMBDA n, w : n + Letters[w] + 1, -1, words)

(* catalogCandidates: long words, and neighbours within a clause.           *)
CatalogCandidates(text) ==
  LET At(clause, i) ==
        (IF Letters[clause[i]] >= 6 THEN << <<clause[i]>> >> ELSE <<>>)
        \o (IF i < Len(clause) THEN << SubSeq(clause, i, i + 1) >> ELSE <<>>)
  IN  FlattenSeq([c \in DOMAIN text |-> FlattenSeq([i \in DOMAIN text[c] |-> At(text[c], i)])])

VendorIn(text) ==
  LET named == SelectSeq(FlattenSeq(text), LAMBDA w : w \in DOMAIN VendorNamed)
  IN  IF named = <<>> THEN Unsaid ELSE VendorNamed[named[1]]

(* parseCatalogCandidate: a reading the named vendor stands behind, or a    *)
(* strong one where no vendor is named.  Confidence in hundredths.          *)
Confidence(candidate, vendor) ==
  LET readings == IF candidate \in DOMAIN Readings THEN Readings[candidate] ELSE {}
      trusted == {r \in readings : IF vendor = Unsaid THEN r.confidence >= 80 ELSE r.vendor = vendor}
  IN  Max({0} \cup {r.confidence : r \in trusted})

(* sniffText: the strongest reading, of equal ones the shortest.            *)
SniffText(text) ==
  LET vendor == VendorIn(text)
      Better(best, c) ==
        \/ Confidence(c, vendor) > Confidence(best, vendor)
        \/ /\ Confidence(c, vendor) = Confidence(best, vendor)
           /\ best # Unsaid /\ Width(c) < Width(best)
  IN  [vendor |-> vendor,
       catalog |-> FoldLeft(LAMBDA best, c : IF Better(best, c) THEN c ELSE best,
                            Unsaid, CatalogCandidates(text))]

-----------------------------------------------------------------------------
(* The second pass.  A service is <<address, port, transport>>.             *)
NewPass ==
  [flows |-> <<>>, buffers |-> <<>>, identified |-> <<>>, open |-> {}, services |-> <<>>]

With(f, x, v) == [y \in DOMAIN f \cup {x} |-> IF y = x THEN v ELSE f[y]]

Without(f, x) == [y \in DOMAIN f \ {x} |-> f[y]]

At(f, x, none) == IF x \in DOMAIN f THEN f[x] ELSE none

(* dstIsServer: a port somebody knows, else the lower one.                  *)
DstIsServer(sport, dport) ==
  LET srcKnown == ProtocolForPort(sport) # ""
      dstKnown == ProtocolForPort(dport) # ""
  IN  IF srcKnown # dstKnown THEN dstKnown ELSE dport <= sport

ServerIsDst(frame) ==
  CASE frame.flag = "syn" -> TRUE
    [] frame.flag = "synack" -> FALSE
    [] OTHER -> DstIsServer(frame.sport, frame.dport)

Symmetric(frame) ==
  frame.transport = "udp" /\ frame.sport = frame.dport /\ ProtocolForPort(frame.sport) # ""

Server(frame) ==
  IF ServerIsDst(frame) THEN <<frame.dst, frame.dport, frame.transport>>
  ELSE <<frame.src, frame.sport, frame.transport>>

Client(frame) == IF ServerIsDst(frame) THEN frame.src ELSE frame.dst

Sender(frame) == <<frame.src, frame.sport, frame.transport>>

AddFlow(pass, frame) ==
  LET key == <<Client(frame)>> \o Server(frame)
  IN  IF ~ Usable(Client(frame)) \/ ~ Usable(Server(frame)[1]) THEN pass
      ELSE IF key \in DOMAIN pass.flows THEN [pass EXCEPT !.flows[key] = @ + 1]
      ELSE IF Cardinality(DOMAIN pass.flows) >= MaxTrackedFlows THEN pass
      ELSE [pass EXCEPT !.flows = With(@, key, 1)]

Answers_Asked(frame) == frame.flag = "" \/ frame.flag = "synack"

(* The listening end has answered. *)
Answers(frame) ==
  \/ frame.flag = "synack"
  \/ ~ ServerIsDst(frame) /\ (frame.payload # <<>> \/ frame.transport = "udp")

MarkOpen(pass, frame) ==
  [pass EXCEPT !.open = @
     \cup (IF Usable(Server(frame)[1]) /\ Answers(frame) THEN {Server(frame)} ELSE {})
     \cup (IF frame.payload # <<>> /\ Symmetric(frame) /\ Usable(frame.src) THEN {Sender(frame)} ELSE {})]

(* The service whose answer the payload is; none for a request.             *)
FromListener(frame) ==
  /\ frame.payload # <<>> /\ Usable(frame.src)
  /\ Symmetric(frame) \/ ~ ServerIsDst(frame)

Responder(frame) == IF Symmetric(frame) THEN Sender(frame) ELSE Server(frame)

(* recordsSomethingNew: the names of the fields not said by the service     *)
(* before; an identity counts once.                                         *)
Contribution(decoded) ==
  decoded.fields \cup (IF decoded.identity # <<>> THEN {"identity was recorded"} ELSE {})

New_FirstAnswer(pass, service, decoded) ==
  IF service \in DOMAIN pass.identified THEN {} ELSE Contribution(decoded)

New(pass, service, decoded) == Contribution(decoded) \ At(pass.identified, service, {})

Evidence(source, protocol, endpoint, fields) ==
  [source |-> source, protocol |-> protocol, endpoint |-> endpoint, fields |-> fields]

RecordObservation(state, bindings, service, decoded) ==
  LET Change(asset) ==
        AddEvidence(SetRole(Identify(asset, decoded.identity), decoded.role),
                    Evidence("pcap", decoded.protocol, service, decoded.fields))
  IN  [pass |-> [state.pass EXCEPT
                   !.buffers = Without(@, service),
                   !.identified = With(@, service, At(@, service, {}) \cup Contribution(decoded)),
                   !.open = @ \cup {service},
                   !.services = Append(@, [service |-> service, protocol |-> decoded.protocol,
                                           banner |-> Unsaid])],
       assets |-> Update(state.assets, BoundAddresses(bindings, service[1]), Change)]

(* tryDecode.  An answer that says nothing new leaves what is held alone.   *)
TryDecode(state, bindings, service, payload) ==
  LET pass == state.pass
      all == At(pass.buffers, service, <<>>) \o payload
      bytes == SubSeq(all, 1, Min({Len(all), MaxDecodeAttempt}))
      decoded == [d \in DOMAIN DecodersFor(service[2]) |-> Decoder(DecodersFor(service[2])[d], bytes)]
      hit == SelectInSeq(decoded, IsObservation)
      early == \E d \in DOMAIN decoded : decoded[d] = Truncated
  IN  IF hit # 0 /\ New(pass, service, decoded[hit]) # {}
      THEN RecordObservation(state, bindings, service, decoded[hit])
      ELSE IF hit # 0 THEN state
      ELSE IF early /\ Len(bytes) < MaxFlowBuffer
      THEN [state EXCEPT !.pass.buffers = With(@, service, bytes)]
      ELSE [state EXCEPT !.pass.buffers = Without(@, service)]

(* tryHTTPBanner: the Server header of a response, as a banner only.        *)
TryHTTPBanner(state, service, server) ==
  IF server = Unsaid THEN state
  ELSE [state EXCEPT !.pass.open = @ \cup {service},
                     !.pass.services =
                        Append(@, [service |-> service, protocol |-> "http", banner |-> server])]

HandleIP(state, bindings, frame) ==
  LET seen == [state EXCEPT !.pass = MarkOpen(AddFlow(@, frame), frame)]
      service == Responder(frame)
  IN  IF ~ FromListener(frame) THEN seen
      ELSE TryHTTPBanner(TryDecode(seen, bindings, service, frame.payload), service, frame.server)

(* handleARP: a binding the learning pass has kept.                         *)
HandleARP(state, bindings, frame) ==
  LET addr == [Hardware(frame.mac) EXCEPT !.v4 = frame.ip]
      Change(asset) == AddEvidence(asset, Evidence("pcap", "arp", <<frame.ip>>, {"arp_announced_ip"}))
  IN  IF /\ Usable(frame.mac) /\ Usable(frame.ip)
         /\ MacFor(bindings, frame.ip) = frame.mac
      THEN [state EXCEPT !.assets = Update(@, addr, Change)]
      ELSE state

(* handleLLDP: whatever IP the hardware address is bound to goes in the     *)
(* IPv4 field.                                                              *)
HandleLLDP(state, bindings, frame) ==
  LET addr == [Hardware(frame.mac) EXCEPT !.v4 = IPFor(bindings, frame.mac), !.name = frame.name]
      told == SniffText(frame.text)
      identity == [vendor |-> told.vendor, catalog |-> told.catalog]
      Change(asset) ==
        AddEvidence(SetRole(Identify(asset, identity), IF frame.bridge THEN "network-device" ELSE ""),
                    Evidence("pcap", "lldp", <<frame.mac>>,
                             (IF frame.name = Unsaid THEN {} ELSE {"lldp_system_name"})
                             \cup (IF frame.text = <<>> THEN {} ELSE {"lldp_system_description"})))
  IN  IF Usable(frame.mac) THEN [state EXCEPT !.assets = Update(@, addr, Change)] ELSE state

Handle(state, bindings, frame) ==
  CASE frame.kind = "arp" -> HandleARP(state, bindings, frame)
    [] frame.kind = "lldp" -> HandleLLDP(state, bindings, frame)
    [] frame.kind = "ip" -> HandleIP(state, bindings, frame)
    [] OTHER -> state

-----------------------------------------------------------------------------
(* flush: an asset for each end of a conversation, then the services, then  *)
(* the conversations, which are kept by key.                                *)
FlowBefore(a, b) ==
  LET differ == SelectInSeq(<<1, 2, 3>>, LAMBDA i : a[i] # b[i])
  IN  IF differ = 0 THEN a[4] = "tcp" /\ b[4] = "udp" ELSE a[differ] < b[differ]

SortedFlows(pass) == InOrder(DOMAIN pass.flows, FlowBefore)

AddEnds_Listeners(assets, bindings, pass) ==
  FoldLeft(LAMBDA known, key : Device(known, BoundAddresses(bindings, key[2])), assets, SortedFlows(pass))

AddEnds(assets, bindings, pass) ==
  FoldLeft(LAMBDA known, key :
             Device(Device(known, BoundAddresses(bindings, key[1])), BoundAddresses(bindings, key[2])),
           assets, SortedFlows(pass))

(* What was said on a service, the first to say it first.                   *)
ServiceSeen(pass, service) ==
  LET said == SelectSeq(pass.services, LAMBDA s : s.service = service)
  IN  [port |-> service[2], transport |-> service[3], source |-> "pcap",
       protocol |-> IF said = <<>> THEN ProtocolForPort(service[2]) ELSE said[1].protocol,
       banner |-> FoldLeft(LAMBDA b, s : KeepName(b, s.banner), Unsaid, said)]

Flow(src, dst, port, transport, protocol, packets, source) ==
  [src |-> src, dst |-> dst, port |-> port, transport |-> transport, protocol |-> protocol,
   packets |-> packets, source |-> source, srcAsset |-> Unsaid, dstAsset |-> Unsaid]

FlowsSeen(pass) ==
  LET Seen(key) == Flow(key[1], key[2], key[3], key[4], ProtocolForPort(key[3]), pass.flows[key], "pcap")
  IN  [i \in DOMAIN SortedFlows(pass) |-> Seen(SortedFlows(pass)[i])]
=============================================================================
