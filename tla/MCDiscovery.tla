---------------------------- MODULE MCDiscovery -----------------------------
(***************************************************************************)
(* A plant for TLC: a PLC, a workstation, two controllers behind a router, *)
(* the router, two hosts that speak IPv6, and a panel that has an IPv4 and *)
(* an IPv6 address and is given another IPv4 address from one capture to   *)
(* the next; what they say on the wire, and what a scan and the Zeek logs  *)
(* say of them.                                                            *)
(***************************************************************************)
EXTENDS Discovery

PLC == 11
Station == 12
Remote1 == 13
Remote2 == 14
RouterIP == 15
Panel == 16
PanelMoved == 17
Everyone == 90
Unspecified == 92
Drive == 101
Console == 102
Panel6 == 103

PLCMac == 31
StationMac == 32
RouterMac == 33
DriveMac == 34
ConsoleMac == 35
PanelMac == 36

MCOwner ==
  (PLC :> "plc") @@ (PLCMac :> "plc") @@ (Station :> "station") @@ (StationMac :> "station")
  @@ (Remote1 :> "remote1") @@ (Remote2 :> "remote2") @@ (RouterIP :> "router") @@ (RouterMac :> "router")
  @@ (Drive :> "drive") @@ (DriveMac :> "drive") @@ (Console :> "console") @@ (ConsoleMac :> "console")
  @@ (Panel :> "panel") @@ (PanelMoved :> "panel") @@ (Panel6 :> "panel") @@ (PanelMac :> "panel")
  @@ (Everyone :> "nobody") @@ (Unspecified :> "nobody")

MCGroups == {Everyone, Unspecified}
MCIPv6Addresses == {Drive, Console, Panel6}

Siemens == <<"Siemens">>
Order == <<"6ES7", "214-1AG40-0XB0">>
Scalance == <<"6GK5", "208-0BA10-2AA3">>

MCTruthOf ==
  [plc |-> {Siemens, <<"Siemens", "AG">>, Order, <<"CPU", "1214C">>, <<"V4.2">>, <<"4.2">>, <<"S1">>},
   station |-> {},
   remote1 |-> {<<"Schneider">>, <<"M580">>},
   remote2 |-> {<<"Delta">>, <<"DSC">>},
   router |-> {Siemens, Scalance},
   drive |-> {<<"Rockwell">>, <<"PowerFlex">>, <<"V7">>},
   console |-> {},
   panel |-> {Siemens, <<"Siemens", "AG">>, <<"MTP700">>}]

Message(protocol, length, begins, refusal, fields, identity, role) ==
  [protocol |-> protocol, length |-> length, header |-> begins, refusal |-> refusal,
   fields |-> fields, identity |-> identity, role |-> role]

MCMessages ==
  [module |-> Message("s7comm", 2, 1, FALSE, {"szl_id", "module_order_number"},
                      [vendor |-> Siemens, catalog |-> Order], "plc"),
   parts |-> Message("s7comm", 1, 1, FALSE, {"szl_id", "module_name"},
                     [vendor |-> Siemens, product |-> <<"CPU", "1214C">>], "plc"),
   confirm |-> Message("s7comm", 1, 1, FALSE, {"cotp_response"}, <<>>, ""),
   refusal |-> Message("s7comm", 1, 1, TRUE, {}, <<>>, ""),
   request |-> Message("s7comm", 1, 1, FALSE, {"rosctr"}, <<>>, ""),
   devid |-> Message("modbus", 2, 1, FALSE, {"unit_id", "VendorName"},
                     [vendor |-> <<"Schneider">>, product |-> <<"M580">>], ""),
   poll |-> Message("modbus", 1, 1, FALSE, {"unit_id", "function_code"}, <<>>, ""),
   iam |-> Message("bacnet", 1, 1, FALSE, {"device_instance"}, [vendor |-> <<"Delta">>], "building-controller"),
   model |-> Message("bacnet", 1, 1, FALSE, {"model_name"}, [product |-> <<"DSC">>], "building-controller"),
   listed |-> Message("enip", 3, 2, FALSE, {"vendor_id", "product_name"},
                      [vendor |-> <<"Rockwell">>, product |-> <<"PowerFlex">>], ""),
   dump |-> Message("enip", 4, 2, FALSE, {"attributes"}, [firmware |-> <<"V7">>], ""),
   screen |-> Message("s7comm", 1, 1, FALSE, {"szl_id", "module_name"},
                      [vendor |-> Siemens, product |-> <<"MTP700">>], "hmi"),
   screen6 |-> Message("s7comm", 1, 1, FALSE, {"szl_id", "module_name"},
                       [vendor |-> <<"Siemens", "AG">>, product |-> <<"MTP700">>], "hmi"),
   page |-> Message("http", 1, 1, FALSE, {}, <<>>, "")]

MCSignatures ==
  (102 :> [role |-> "plc", protocol |-> "s7comm", weight |-> 85])
  @@ (502 :> [role |-> "plc", protocol |-> "modbus", weight |-> 90])
  @@ (44818 :> [role |-> "plc", protocol |-> "enip", weight |-> 90])
  @@ (47808 :> [role |-> "building-controller", protocol |-> "bacnet", weight |-> 80])
  @@ (445 :> [role |-> "workstation", protocol |-> "smb", weight |-> 15])
  @@ (80 :> [role |-> "server", protocol |-> "http", weight |-> 10])

MCLetters ==
  ("Siemens" :> 7) @@ ("SCALANCE" :> 8) @@ ("6GK5" :> 4) @@ ("208-0BA10-2AA3" :> 14)
  @@ ("6ES7" :> 4) @@ ("214-1AG40-0XB0" :> 14) @@ ("CPU" :> 3) @@ ("1214C" :> 5) @@ ("nginx" :> 5)
  @@ ("AG" :> 2) @@ ("V4.2" :> 4) @@ ("4.2" :> 3) @@ ("S1" :> 2) @@ ("Schneider" :> 9) @@ ("M580" :> 4)
  @@ ("Delta" :> 5) @@ ("DSC" :> 3) @@ ("Rockwell" :> 8) @@ ("PowerFlex" :> 9) @@ ("V7" :> 2)
  @@ ("MTP700" :> 6) @@ ("garbled" :> 7)

MCVendorNamed == "Siemens" :> Siemens

MCReadings ==
  (Scalance :> {[vendor |-> Siemens, confidence |-> 95]})
  @@ (Order :> {[vendor |-> Siemens, confidence |-> 95]})
  @@ (<<"208-0BA10-2AA3">> :> {[vendor |-> <<"Rockwell">>, confidence |-> 70]})

-----------------------------------------------------------------------------
(* Frames. *)
MacOf(ip) ==
  CASE ip = PLC -> PLCMac [] ip = Station -> StationMac [] ip = Drive -> DriveMac
    [] ip = Console -> ConsoleMac [] ip \in {Panel, PanelMoved, Panel6} -> PanelMac [] OTHER -> RouterMac

ARP(mac, ip) == [kind |-> "arp", mac |-> mac, ip |-> ip]

LLDP(mac, name, text, bridge) ==
  [kind |-> "lldp", mac |-> mac, name |-> name, text |-> text, bridge |-> bridge]

Packet(src, sport, dst, dport, transport, flag, payload) ==
  [kind |-> "ip", mac |-> MacOf(src), src |-> src, dst |-> dst, transport |-> transport,
   sport |-> sport, dport |-> dport, flag |-> flag, payload |-> payload, server |-> Unsaid]

Whole(m) == Pieces(m, 1, MCMessages[m].length)

FromPLC(payload) == Packet(PLC, 102, Station, 50000, "tcp", "", payload)

Module1 == FromPLC(Pieces("module", 1, 1))
Module2 == FromPLC(Pieces("module", 2, 2))
Module == FromPLC(Whole("module"))
Parts == FromPLC(Whole("parts"))
Refusal == FromPLC(Whole("refusal"))
Request == Packet(Station, 50000, PLC, 102, "tcp", "", Whole("request"))
Syn == Packet(Station, 50000, PLC, 102, "tcp", "syn", <<>>)
SynAck == Packet(PLC, 102, Station, 50000, "tcp", "synack", <<>>)
Knock == Packet(Station, 50001, PLC, 502, "tcp", "", <<>>)
Page == [Packet(PLC, 80, Station, 50002, "tcp", "", Whole("page")) EXCEPT !.server = <<"nginx">>]
Push == Packet(Station, 1025, PLC, 20000, "tcp", "", Whole("request"))
DevID == Packet(Remote1, 502, Station, 50003, "tcp", "", Whole("devid"))
Poll == Packet(Remote1, 502, Station, 50003, "tcp", "", Whole("poll"))
Gateway == Packet(Remote1, 1502, Station, 50004, "tcp", "", Whole("devid"))
IAm == Packet(Remote2, 47808, Everyone, 47808, "udp", "", Whole("iam"))
Model == Packet(Remote2, 47808, Station, 47808, "udp", "", Whole("model"))
Listed1 == Packet(Drive, 44818, Console, 50000, "tcp", "", Pieces("listed", 1, 2))
Listed2 == Packet(Drive, 44818, Console, 50000, "tcp", "", Pieces("listed", 3, 3))
Listed == Packet(Drive, 44818, Console, 50000, "tcp", "", Whole("listed"))
Dump == Packet(Drive, 44818, Console, 50000, "tcp", "", Whole("dump"))
Ask6 == Packet(Console, 50000, Drive, 44818, "tcp", "syn", <<>>)
RouterFrame == Packet(RouterIP, 50000, Station, 445, "tcp", "syn", <<>>)
Switch == LLDP(RouterMac, <<"router">>, << <<"Siemens", "SCALANCE">>, Scalance >>, TRUE)
Plain == LLDP(DriveMac, Unsaid, << <<"208-0BA10-2AA3">> >>, FALSE)
Lone == LLDP(PLCMac, <<"plc1">>, <<>>, FALSE)
Ping == [kind |-> "other", mac |-> RouterMac, src |-> Remote1]
Shown(ip) ==
  Packet(ip, 102, Station, 50000, "tcp", "", Whole(IF ip = Panel6 THEN "screen6" ELSE "screen"))
Browse(ip) == Packet(ip, 50000, PLC, 102, "tcp", "syn", <<>>)

Some == {ARP(PLCMac, PLC), ARP(PLCMac, Unspecified), ARP(StationMac, Station), Module1, Module2, Module,
         Parts, Refusal, Request, Syn, SynAck, Knock, Page, Push, DevID, Poll, Gateway, IAm, Model,
         Listed1, Listed2, Listed, Dump, Ask6, RouterFrame, Switch, Plain, Lone, Ping,
         Shown(Panel), Shown(Panel6), ARP(PanelMac, PanelMoved)}

Pairs == UNION {[1 .. n -> Some] : n \in 0 .. 2}

Reads == {Module1, Module2, Module, Parts}

Core == {Module1, Module2, Module, Parts, Request, Push, DevID, IAm, Model, RouterFrame, Switch,
         ARP(PLCMac, Unspecified)}

Exchanges == [1 .. 3 -> Core] \cup UNION {[1 .. n -> Reads] : n \in 3 .. 4} \cup [1 .. 3 -> {IAm, Model}]
             \cup [1 .. 3 -> {Listed1, Listed2, Dump}]

Handshake == <<ARP(PLCMac, PLC), Syn, SynAck, Request, Module1, Module2, Parts>>
Routed == <<DevID, Model, RouterFrame, Switch, IAm, Knock>>
Mixed == <<Module, DevID, Model, Listed>>
Sixth == <<Ask6, Listed1, Listed2, Plain, Lone>>

(* The PLC seen through the router and, apart from that, by its hardware    *)
(* address, which is then found to be its own.                              *)
Aside == <<Lone, [Parts EXCEPT !.mac = RouterMac], RouterFrame>>
Joined == <<ARP(PLCMac, PLC)>>

(* The panel with the address it had and with the one it is given, by the   *)
(* one protocol and by the other.                                           *)
Before1 == <<ARP(PanelMac, Panel), Shown(Panel), Browse(Panel)>>
After1 == <<ARP(PanelMac, PanelMoved), Shown(PanelMoved), Browse(PanelMoved)>>
Dual == <<ARP(PanelMac, Panel), Shown(Panel6), Browse(Panel), Browse(Panel6)>>
Only6 == <<Shown(Panel6), Browse(Panel6)>>

Moves == {Before1, After1, Dual, Only6}

Stories == {Handshake, Routed, Mixed, Sixth, <<Parts>>, <<Switch, DevID, RouterFrame>>}

-----------------------------------------------------------------------------
(* Scans and logs. *)
Host(state, v4, v6, mac, name, scripts, ports) ==
  [state |-> state, v4 |-> v4, v6 |-> v6, mac |-> mac, name |-> name, scripts |-> scripts, ports |-> ports]

Port(port, open, name, banner, scripts) ==
  [port |-> port, transport |-> "tcp", open |-> open, name |-> name, banner |-> banner, scripts |-> scripts]

S7Info ==
  [id |-> "s7_info",
   values |-> ("Module" :> Order) @@ ("Module Type" :> <<"CPU", "1214C">>) @@ ("Version" :> <<"V4.2">>)]

Discover == [id |-> "modbus_discover", values |-> ("Vendor" :> <<"Siemens", "AG">>)]

Unknown == [id |-> "other", values |-> ("Vendor" :> <<"Nobody">>)]

ScannedPLC ==
  Host("up", PLC, NoAddress, PLCMac, Unsaid, <<Unknown>>,
       <<Port(102, TRUE, "iso-tsap", <<"Siemens">>, <<S7Info>>), Port(502, TRUE, "", Unsaid, <<Discover>>),
         Port(80, FALSE, "http", Unsaid, <<>>)>>)
ScannedStation ==
  Host("", Station, NoAddress, NoAddress, <<"ws">>, <<>>, <<Port(445, TRUE, "", Unsaid, <<>>)>>)
Down == Host("down", Remote1, NoAddress, NoAddress, Unsaid, <<>>, <<>>)
Nameless == Host("up", NoAddress, NoAddress, NoAddress, Unsaid, <<>>, <<>>)

ScannedPanel ==
  Host("up", Panel, Panel6, PanelMac, Unsaid, <<>>, <<Port(502, TRUE, "", Unsaid, <<>>)>>)

Scans == {<<>>, <<ScannedPLC, ScannedStation>>, <<Nameless, ScannedStation, Down>>, <<ScannedPanel>>}

JSON(record) == [line |-> "json", record |-> record]
TSV(record) == [line |-> "tsv", record |-> record]
Directive(line, kind) == [line |-> line, kind |-> kind]
Broken == [line |-> "broken"]
Log(kind, lines) == [kind |-> kind, lines |-> lines]

Conn(orig, resp, port, state, packets, bytes) ==
  [kind |-> "conn", orig |-> orig, resp |-> resp, port |-> port, transport |-> "tcp", service |-> "",
   state |-> state, sent |-> 1, packets |-> packets, bytes |-> bytes]

Lease == [kind |-> "dhcp", host |-> Station, mac |-> StationMac, name |-> <<"ws">>]
Lookup == [kind |-> "dns", forward |-> TRUE, name |-> <<"plc">>, answers |-> <<PLC, Everyone>>]
Software == [kind |-> "software", host |-> PLC, banner |-> <<"nginx">>]
Host6 == [kind |-> "known_hosts", host |-> Drive]
Service(host, port) ==
  [kind |-> "known_services", host |-> host, port |-> port, transport |-> "tcp", service |-> ""]

Field(name, field, value) == [name |-> name, field |-> field, value |-> value]

ICS(orig, resp, isOrig, said) ==
  [kind |-> "s7comm", orig |-> orig, resp |-> resp, isOrig |-> isOrig, said |-> said]

FromReply ==
  ICS(Station, PLC, FALSE,
      {Field("firmware_version", "firmware", <<"V4.2">>), Field("revision", "firmware", <<"4.2">>),
       Field("serial_number", "serial", <<"S1">>), Field("vendor", "vendor", <<"Siemens", "AG">>)})
FromOriginator == ICS(PLC, Station, TRUE, {Field("serial_number", "serial", <<"S1">>)})
Nothing == ICS(Station, PLC, FALSE, {})

Logs ==
  {<<>>,
   <<Log("conn", <<Directive("fields", ""), TSV(Conn(Station, PLC, 102, "SF", 3, -1)),
                   TSV(Conn(Station, Remote1, 502, "REJ", 1, -1)),
                   TSV(Conn(Everyone, PLC, 80, "SF", 1, -1))>>),
     Log("s7comm", <<JSON(FromReply), Broken, JSON(FromOriginator)>>)>>,
   <<Log("s7comm", <<JSON(FromOriginator), JSON(FromReply), JSON(Nothing)>>),
     Log("dhcp", <<JSON(Lease)>>), Log("unread", <<JSON(Host6)>>)>>,
   <<Log("renamed", <<Directive("path", "known_services"), JSON(Service(Drive, 44818)),
                      TSV(Service(Remote1, 502))>>),
     Log("known_hosts", <<JSON(Host6)>>), Log("dns", <<JSON(Lookup)>>),
     Log("software", <<JSON(Software)>>),
     Log("conn", <<JSON(Conn(Console, Drive, 44818, "S0", -1, -1)),
                   JSON(Conn(Station, PLC, 102, "", -1, 0)),
                   JSON(Conn(Station, PLC, 80, "S1", -1, -1))>>)>>}

-----------------------------------------------------------------------------
Ingest(captures, hosts, logs) == [captures |-> captures, hosts |-> hosts, logs |-> logs, merge |-> FALSE]

Merging(c) == [c EXCEPT !.merge = TRUE]

MCCommands ==
  {<<Ingest(<<c>>, <<>>, <<>>)>> : c \in Pairs \cup Exchanges}
  \cup {<<Ingest(<<c, d>>, <<>>, <<>>)>> : c, d \in Stories}
  \cup {<<Ingest(<<Aside, Joined>>, <<>>, <<>>)>>, <<Ingest(<<Joined, Aside>>, <<>>, <<>>)>>}
  \cup {<<Ingest(<<c>>, <<>>, <<>>), Merging(Ingest(<<d>>, <<>>, <<>>))>> : c, d \in Stories}
  \cup {<<Ingest(<<c, d>>, <<>>, <<>>)>> : c, d \in Moves}
  \cup {<<Ingest(<<c>>, s, <<>>), Merging(Ingest(<<d>>, t, <<>>))>> :
          c, d \in Moves \cup {Handshake}, s, t \in {<<>>, <<ScannedPanel>>}}
  \cup {<<Ingest(c, s, l)>> : c \in {<<>>, <<Handshake>>, <<Mixed>>}, s \in Scans, l \in Logs}
  \cup {<<Ingest(<<>>, s, l), Merging(Ingest(<<Handshake>>, <<>>, <<>>))>> : s \in Scans, l \in Logs}

One(ip) == [form |-> "one", from |-> ip, to |-> ip, bits |-> 0]
Span(from, to) == [form |-> "range", from |-> from, to |-> to, bits |-> 0]
Prefix(from, bits) == [form |-> "prefix", from |-> from, to |-> from, bits |-> bits]

MCTemplates ==
  <<[id |-> "s7", protocol |-> "s7comm", port |-> 102, transport |-> "tcp"],
    [id |-> "modbus", protocol |-> "modbus", port |-> 502, transport |-> "tcp"],
    [id |-> "http", protocol |-> "modbus", port |-> 80, transport |-> "tcp"]>>

MCPlanRequests ==
  {[targets |-> <<Prefix(10, 2), One(Drive), One(PLC)>>, port |-> 0, onlyKnown |-> TRUE],
   [targets |-> <<Span(PLC, Remote2)>>, port |-> 502, onlyKnown |-> TRUE],
   [targets |-> <<Prefix(8, 3), One(PLC)>>, port |-> 0, onlyKnown |-> TRUE],
   [targets |-> <<Span(Panel, PanelMoved)>>, port |-> 0, onlyKnown |-> TRUE]}

MCReplies ==
  (<<PLC, 102>> :> "parts") @@ (<<PLC, 80>> :> "page") @@ (<<Remote1, 502>> :> "devid")
=============================================================================
