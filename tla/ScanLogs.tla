------------------------------ MODULE ScanLogs ------------------------------
(***************************************************************************)
(* Nmap output and Zeek logs (internal/ingest/nmap.go, zeek.go): what one  *)
(* host of a scan and one record of a log do to the inventory.             *)
(*                                                                         *)
(* The state is [assets, flows].  A scanned host is [state, v4, v6, mac,   *)
(* name, scripts, ports]; a script is [id, values] and a port [port,       *)
(* transport, open, name, banner, scripts].  A record has its kind and the *)
(* fields its handler reads.                                               *)
(***************************************************************************)
EXTENDS Capture

(* nmapScriptIdentity: the keys of each script that feed the identity, in   *)
(* the order they are read.                                                 *)
ScriptFields ==
  [s7_info |-> << <<"Module", "catalog">>, <<"Module Type", "product">>, <<"Version", "firmware">>,
                  <<"Serial Number", "serial">> >>,
   enip_info |-> << <<"Vendor", "vendor">>, <<"Product Name", "product">>,
                    <<"Revision", "firmware">>, <<"Serial Number", "serial">> >>,
   modbus_discover |-> << <<"Vendor", "vendor">> >>,
   bacnet_info |-> << <<"Vendor Name", "vendor">>, <<"Model Name", "product">>,
                      <<"Firmware", "firmware">>, <<"Application Software", "firmware">>,
                      <<"Serial Number", "serial">> >>]

(* applyNmapScript: a script that is not known says nothing. *)
ApplyEntry(id, script, entry) ==
  IF entry[1] \in DOMAIN script.values
  THEN MergeIdentity(id, [f \in {entry[2]} |-> script.values[entry[1]]]) ELSE id

ApplyScript(id, script) ==
  IF script.id \notin DOMAIN ScriptFields THEN id
  ELSE FoldLeft(LAMBDA known, entry : ApplyEntry(known, script, entry), id, ScriptFields[script.id])

ScriptKeys(script) ==
  IF script.id \in DOMAIN ScriptFields THEN {<<script.id, key>> : key \in DOMAIN script.values} ELSE {}

(* applyTextIdentity: only what the device has not said. *)
ApplyText(id, text) ==
  LET told == SniffText(text)
  IN  MergeIdentity(id, [vendor |-> told.vendor, catalog |-> told.catalog])

OpenPorts(host) == SelectSeq(host.ports, LAMBDA p : p.open)

(* The scripts of the host, then those of each open port.                   *)
ApplyPort(id, port) == IF port.open THEN FoldLeft(ApplyScript, id, port.scripts) ELSE id

NmapIdentity(id, host) ==
  LET scripted == FoldLeft(ApplyPort, FoldLeft(ApplyScript, id, host.scripts), host.ports)
      banners == SelectSeq([i \in DOMAIN OpenPorts(host) |-> OpenPorts(host)[i].banner],
                           LAMBDA b : b # Unsaid)
  IN  ApplyText(ApplyText(scripted, <<scripted.product>>), banners)

NmapService(port) ==
  [port |-> port.port, transport |-> port.transport, source |-> "nmap", banner |-> port.banner,
   protocol |-> IF ProtocolForPort(port.port) # "" THEN ProtocolForPort(port.port) ELSE port.name]

ServePort(asset, port) == IF port.open THEN AddService(asset, NmapService(port)) ELSE asset

(* ingestNmapHost. *)
IngestNmapHost(state, host) ==
  LET addr == [v4 |-> host.v4, v6 |-> host.v6, mac |-> host.mac, name |-> host.name]
      fields == UNION {ScriptKeys(s) : s \in ToSet(host.scripts)
                         \cup UNION {ToSet(p.scripts) : p \in ToSet(OpenPorts(host))}}
      Change(asset) ==
        LET served == FoldLeft(ServePort, asset, host.ports)
        IN  AddEvidence([served EXCEPT !.identity = NmapIdentity(@, host)],
                        Evidence("nmap", "", <<Primary(addr)>>, fields))
  IN  IF host.state \notin {"", "up"} \/ (Primary(addr) = NoAddress /\ host.name = Unsaid) THEN state
      ELSE [state EXCEPT !.assets = Update(@, addr, Change)]

-----------------------------------------------------------------------------
(* Zeek. *)
Seen(assets, ip) == Device(assets, AddressesFor(ip))

(* zeekResponderAnswered.  An absent counter is -1. *)
Answered(record) ==
  IF record.state \in {"S0", "REJ", "SH"} THEN FALSE
  ELSE IF record.packets >= 0 THEN record.packets > 0
  ELSE IF record.bytes >= 0 THEN record.bytes > 0
  ELSE record.state \in {"SF", "S1", "S2", "S3", "RSTO", "RSTR", "RSTOS0", "RSTRH", "SHR", "OTH"}

ZeekProtocol(record) ==
  IF record.service # "" THEN record.service ELSE ProtocolForPort(record.port)

ZeekService(record) ==
  [port |-> record.port, transport |-> record.transport, source |-> "zeek", banner |-> Unsaid,
   protocol |-> ZeekProtocol(record)]

Serve(assets, ip, service) ==
  LET Change(asset) == AddService(asset, service)
  IN  Update(assets, AddressesFor(ip), Change)

ApplyConn(state, record) ==
  LET both == Seen(Seen(state.assets, record.orig), record.resp)
      flow == Flow(record.orig, record.resp, record.port, record.transport, ZeekProtocol(record),
                   record.sent + Max({0, record.packets}), "zeek")
  IN  IF ~ Usable(record.orig) \/ ~ Usable(record.resp) THEN state
      ELSE [flows |-> Append(state.flows, flow),
            assets |-> IF Answered(record) THEN Serve(both, record.resp, ZeekService(record)) ELSE both]

ApplyKnownHost(state, record) ==
  IF Usable(record.host) THEN [state EXCEPT !.assets = Seen(@, record.host)] ELSE state

ApplyKnownService(state, record) ==
  IF Usable(record.host) THEN [state EXCEPT !.assets = Serve(@, record.host, ZeekService(record))]
  ELSE state

(* A lease ties the three together; the address goes in the IPv4 field.     *)
ApplyDHCP(state, record) ==
  LET addr == [Hardware(IF Usable(record.mac) THEN record.mac ELSE NoAddress) EXCEPT
                 !.v4 = record.host, !.name = record.name]
      Change(asset) == AddEvidence(asset, Evidence("zeek", "dhcp", <<record.host>>,
                                            IF record.name = Unsaid THEN {} ELSE {"dhcp_host_name"}))
  IN  IF Usable(record.host) THEN [state EXCEPT !.assets = Update(@, addr, Change)] ELSE state

(* The answers of a lookup, which a record of another kind has none of.     *)
Named(assets, ip, name) ==
  LET Change(asset) == [asset EXCEPT !.addr.name = KeepName(@, name)]
  IN  IF Usable(ip) THEN Update(assets, AddressesFor(ip), Change) ELSE assets

AllNamed(assets, ips, name) == FoldLeft(LAMBDA known, ip : Named(known, ip, name), assets, ips)

ApplyDNS(state, record) ==
  IF ~ record.forward \/ record.name = Unsaid THEN state
  ELSE [state EXCEPT !.assets = AllNamed(@, At(record, "answers", <<>>), record.name)]

ApplySoftware(state, record) ==
  LET Change(asset) == AddEvidence(asset, Evidence("zeek", "software", <<record.host>>, {"zeek_software"}))
  IN  IF Usable(record.host) /\ record.banner # Unsaid
      THEN [state EXCEPT !.assets = Update(@, AddressesFor(record.host), Change)]
      ELSE state

(* applyZeekICSIdentity.  said is a set of [name, field, value]: where two  *)
(* names feed one field, which value is taken is up to the map.             *)
Readouts(record) ==
  LET fields == {s.field : s \in record.said}
  IN  {r \in [fields -> {s.value : s \in record.said}] :
         \A f \in fields : \E s \in record.said : s.field = f /\ s.value = r[f]}

SenderOf(record) == IF record.isOrig THEN record.orig ELSE record.resp

PeerOf(record) == IF record.isOrig THEN record.resp ELSE record.orig

ApplyICS(state, record, readout) ==
  LET met == IF Usable(PeerOf(record)) THEN Seen(state.assets, PeerOf(record)) ELSE state.assets
      Change(asset) ==
        AddEvidence(Identify(asset, readout),
                    Evidence("zeek", record.kind, <<SenderOf(record)>>, DOMAIN readout))
  IN  IF ~ Usable(SenderOf(record)) THEN state
      ELSE IF record.said = {} THEN [state EXCEPT !.assets = met]
      ELSE [state EXCEPT !.assets = Update(met, AddressesFor(SenderOf(record)), Change)]

ICSKinds == {"s7comm", "bacnet", "enip", "cip_identity", "modbus_detailed"}

(* applyZeekRecord: a record of a kind that is not read changes nothing.    *)
ApplyRecord(state, record) ==
  CASE record.kind = "conn" -> {ApplyConn(state, record)}
    [] record.kind = "known_hosts" -> {ApplyKnownHost(state, record)}
    [] record.kind = "known_services" -> {ApplyKnownService(state, record)}
    [] record.kind = "dhcp" -> {ApplyDHCP(state, record)}
    [] record.kind = "dns" -> {ApplyDNS(state, record)}
    [] record.kind = "software" -> {ApplySoftware(state, record)}
    [] record.kind \in ICSKinds -> {ApplyICS(state, record, r) : r \in Readouts(record)}
    [] OTHER -> {state}
=============================================================================
