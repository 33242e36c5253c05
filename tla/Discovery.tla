----------------------------- MODULE Discovery ------------------------------
(***************************************************************************)
(* Discovery: the ingest commands an operator gives one after another, the *)
(* file they write the inventory to, the scan planned from that file and   *)
(* the inventory of the answers (internal/ingest, internal/asset,          *)
(* internal/probe, cmd ingest and probe).                                  *)
(*                                                                         *)
(* A command is [captures, hosts, logs, merge]; a log is [kind, lines] and *)
(* a line "path", "fields", "json", "tsv" or "broken".  One command reads  *)
(* its captures, then the scans, then the logs; of a capture the first     *)
(* pass learns which hardware address has which IP, the second goes frame  *)
(* by frame, and what it has gathered is written service by service, in    *)
(* the order of a map.                                                     *)
(***************************************************************************)
EXTENDS ProbePlan

CONSTANTS
  Commands,           \* the sequences of commands to run
  PlanRequests,       \* the scans to plan, as [targets, port, onlyKnown]
  Templates,
  Replies,            \* the message that answers at each <<host, port>>
  MaxPacketsPerFile,
  Owner,              \* the device each address really is of
  TruthOf             \* the identity values really true of each device

ASSUME LimitsAssumption ==
  /\ {MaxTargets, MaxTrackedFlows, MaxDecodeAttempt, MaxFlowBuffer, MaxPacketsPerFile} \subseteq Nat \ {0}
  /\ MaxDecodeAttempt < MaxFlowBuffer

(* What the readers of files and arguments deliver: lists where there are   *)
(* lists, addresses that are numbers, and logs with nothing but their kind  *)
(* and their lines.                                                         *)
IsList(s) == s \in Seq(ToSet(s))

IsHost(host) ==
  /\ IsList(host.ports) /\ IsList(host.scripts)
  /\ \A i \in DOMAIN host.ports : IsList(host.ports[i].scripts)

IsScan(hosts) == IsList(hosts) /\ \A i \in DOMAIN hosts : IsHost(hosts[i])

IsLine(l) ==
  (l.line \in {"json", "tsv"} /\ "answers" \in DOMAIN l.record) => IsList(l.record.answers)

IsLog(log) ==
  /\ log = [kind |-> log.kind, lines |-> log.lines]
  /\ IsList(log.lines) /\ \A i \in DOMAIN log.lines : IsLine(log.lines[i])

AreLogs(logs) == IsList(logs) /\ \A i \in DOMAIN logs : IsLog(logs[i])

IsTarget(t) == t.from \in Int /\ t.to \in Int /\ t.bits \in Nat

ASSUME InputsAssumption ==
  /\ \A list \in Commands :
       /\ IsList(list) /\ list # <<>>
       /\ \A i \in DOMAIN list :
            /\ IsList(list[i].captures) /\ \A c \in ToSet(list[i].captures) : IsList(c)
            /\ IsScan(list[i].hosts) /\ AreLogs(list[i].logs)
  /\ \A request \in PlanRequests :
       IsList(request.targets) /\ \A i \in DOMAIN request.targets : IsTarget(request.targets[i])
  /\ IsList(Templates)

VARIABLES
  commands,  \* the commands there are
  command,   \* the number of the one that runs
  stage,     \* "read", "replay" and "write" of a capture, "plan", "probe", "done"
  left,      \* what the command has left to read
  at,        \* the frame replayed last
  bindings,  \* what the first pass over the capture has learned
  pass,      \* the second pass
  assets,    \* the inventory being built
  flows,
  header,    \* of the log being read: its kind and whether its columns have names
  saved,     \* the inventory file
  plan,
  probed     \* the inventory of the scan

vars == <<commands, command, stage, left, at, bindings, pass, assets, flows, header, saved, plan, probed>>

ingesting == <<commands, command, header, saved, plan, probed>>

Unbound == [macToIP |-> {}, ipToMAC |-> <<>>]

NoHeader == [kind |-> "", named |-> FALSE]

HeaderOf(logs) == IF logs = <<>> THEN NoHeader ELSE [NoHeader EXCEPT !.kind = Head(logs).kind]

Scheduled(c) == [captures |-> c.captures, hosts |-> c.hosts, logs |-> c.logs]

Init ==
  /\ commands \in Commands
  /\ command = 1
  /\ stage = "read"
  /\ left = Scheduled(commands[1])
  /\ at = 0
  /\ bindings = Unbound
  /\ pass = NewPass
  /\ assets = <<>>
  /\ flows = <<>>
  /\ header = HeaderOf(commands[1].logs)
  /\ saved = [assets |-> <<>>, flows |-> <<>>]
  /\ plan = <<>>
  /\ probed = <<>>

-----------------------------------------------------------------------------
(* Captures. *)
Frames(capture) == SubSeq(capture, 1, Min({Len(capture), MaxPacketsPerFile}))

Learned(capture) == FoldLeft(Learn, [arp |-> {}, observed |-> {}], Frames(capture))

(* scanBindings, the first pass; the maps it goes through have no order.    *)
ScanBindings ==
  /\ stage = "read" /\ left.captures # <<>>
  /\ bindings' \in Bindings(Learned(Head(left.captures)))
  /\ stage' = "replay"
  /\ at' = 0
  /\ pass' = NewPass
  /\ UNCHANGED <<ingesting, left, assets, flows>>

HandleFrame ==
  /\ stage = "replay" /\ at < Len(Frames(Head(left.captures)))
  /\ LET after == Handle([pass |-> pass, assets |-> assets], bindings, Head(left.captures)[at + 1])
     IN  pass' = after.pass /\ assets' = after.assets
  /\ at' = at + 1
  /\ UNCHANGED <<ingesting, stage, left, bindings, flows>>

WriteEnds ==
  /\ stage = "replay" /\ at = Len(Frames(Head(left.captures)))
  /\ assets' = AddEnds(assets, bindings, pass)
  /\ stage' = "write"
  /\ UNCHANGED <<ingesting, left, at, bindings, pass, flows>>

WriteService(service) ==
  /\ stage = "write" /\ service \in pass.open
  /\ LET Change(asset) == AddService(asset, ServiceSeen(pass, service))
     IN  assets' = Update(assets, BoundAddresses(bindings, service[1]), Change)
  /\ pass' = [pass EXCEPT !.open = @ \ {service}]
  /\ UNCHANGED <<ingesting, stage, left, at, bindings, flows>>

WriteFlows ==
  /\ stage = "write" /\ pass.open = {}
  /\ flows' = flows \o FlowsSeen(pass)
  /\ stage' = "read"
  /\ left' = [left EXCEPT !.captures = Tail(@)]
  /\ at' = 0 /\ bindings' = Unbound /\ pass' = NewPass
  /\ UNCHANGED <<ingesting, assets>>

-----------------------------------------------------------------------------
(* Scans and logs. *)
Idle == stage = "read" /\ left.captures = <<>>

reading == <<commands, command, stage, at, bindings, pass, saved, plan, probed>>

ScanHost ==
  /\ Idle /\ left.hosts # <<>>
  /\ LET after == IngestNmapHost([assets |-> assets, flows |-> flows], Head(left.hosts))
     IN  assets' = after.assets /\ flows' = after.flows
  /\ left' = [left EXCEPT !.hosts = Tail(@)]
  /\ UNCHANGED <<reading, header>>

InLog == Idle /\ left.hosts = <<>> /\ left.logs # <<>>

Lines == Head(left.logs).lines

NextLine == left' = [left EXCEPT !.logs[1].lines = Tail(@)]

NextLog ==
  /\ left' = [left EXCEPT !.logs = Tail(@)]
  /\ header' = HeaderOf(Tail(left.logs))

(* parseZeekStream, by the kinds of lines.  A record of columns with no     *)
(* names ends the log.                                                      *)
ReadDirective ==
  /\ InLog /\ Lines # <<>> /\ Head(Lines).line \in {"path", "fields"}
  /\ NextLine
  /\ header' = IF Head(Lines).line = "fields" THEN [header EXCEPT !.named = TRUE]
               ELSE [header EXCEPT !.kind = Head(Lines).kind]
  /\ UNCHANGED <<reading, assets, flows>>

ReadRecord ==
  /\ InLog /\ Lines # <<>>
  /\ Head(Lines).line = "json" \/ (Head(Lines).line = "tsv" /\ header.named)
  /\ \E after \in ApplyRecord([assets |-> assets, flows |-> flows],
                              [Head(Lines).record EXCEPT !.kind = header.kind]) :
       assets' = after.assets /\ flows' = after.flows
  /\ NextLine
  /\ UNCHANGED <<reading, header>>

SkipLine ==
  /\ InLog /\ Lines # <<>> /\ Head(Lines).line = "broken"
  /\ NextLine
  /\ UNCHANGED <<reading, header, assets, flows>>

LeaveLog ==
  /\ InLog
  /\ Lines # <<>> => Head(Lines).line = "tsv" /\ ~ header.named
  /\ NextLog
  /\ UNCHANGED <<reading, assets, flows>>

-----------------------------------------------------------------------------
(* finish: each address means the last asset that has it.                   *)
AssetOf(inventory, address) ==
  LET last == SelectLastInSeq(inventory, LAMBDA a :
                address \in {a.addr.v4, a.addr.v6, a.addr.mac})
  IN  IF last = 0 THEN Unsaid ELSE inventory[last].id

Resolved(flow) ==
  [flow EXCEPT !.srcAsset = AssetOf(assets, flow.src), !.dstAsset = AssetOf(assets, flow.dst)]

(* Run ends, and the command writes the file: what it has read, or that     *)
(* merged into what the file held.  Save finalizes again.                   *)
Finish ==
  /\ Idle /\ left.hosts = <<>> /\ left.logs = <<>>
  /\ LET run == Finalize(assets, [i \in DOMAIN flows |-> Resolved(flows[i])])
     IN  saved' = IF commands[command].merge
                  THEN Finalize(Merge(saved.assets, run.assets), saved.flows \o run.flows)
                  ELSE Finalize(run.assets, run.flows)
  /\ assets' = <<>> /\ flows' = <<>>
  /\ IF command < Len(commands)
     THEN /\ command' = command + 1
          /\ stage' = "read"
          /\ left' = Scheduled(commands[command + 1])
          /\ header' = HeaderOf(commands[command + 1].logs)
     ELSE /\ stage' = "plan"
          /\ UNCHANGED <<command, left, header>>
  /\ UNCHANGED <<commands, at, bindings, pass, plan, probed>>

-----------------------------------------------------------------------------
(* The probe command: the plan, of which nothing comes where the targets    *)
(* are refused or no port is known, and the answers of any of the hosts.    *)
(* netConn.read stops where the decoder asks for no more or the time is up, *)
(* so that a reply may be any beginning of the message.                     *)
planning == <<commands, command, left, at, bindings, pass, assets, flows, header, saved>>

MakePlan(request) ==
  /\ stage = "plan"
  /\ plan' = BuildPlan(ExpandTargets(request.targets), Templates, request.port,
                       request.onlyKnown, saved.assets)
  /\ stage' = IF plan' = <<>> THEN "done" ELSE "probe"
  /\ UNCHANGED <<planning, probed>>

Reply(exchange) == Replies[<<exchange.host, exchange.template.port>>]

Answer(exchange, pieces) ==
  [host |-> exchange.host, template |-> exchange.template,
   reply |-> Interpret(exchange.template, Pieces(Reply(exchange), 1, pieces))]

Probe ==
  /\ stage = "probe"
  /\ \E answering \in SUBSET {i \in DOMAIN plan :
         <<plan[i].host, plan[i].template.port>> \in DOMAIN Replies} :
     \E read \in [answering -> 1 .. MaxDecodeAttempt] :
       /\ \A i \in answering : read[i] <= Messages[Reply(plan[i])].length
       /\ LET order == InOrder(answering, <)
          IN  probed' = BuildInventory([i \in DOMAIN order |-> Answer(plan[order[i]], read[order[i]])])
  /\ stage' = "done"
  /\ UNCHANGED <<planning, plan>>

Next ==
  \/ ScanBindings \/ HandleFrame \/ WriteEnds
  \/ \E service \in pass.open : WriteService(service)
  \/ WriteFlows
  \/ ScanHost
  \/ ReadDirective \/ ReadRecord \/ SkipLine \/ LeaveLog
  \/ Finish
  \/ \E request \in PlanRequests : MakePlan(request)
  \/ Probe

Spec == Init /\ [][Next]_vars

-----------------------------------------------------------------------------
(* What the properties say of the inputs. *)
ReadSoFar == UNION {ToSet(commands[i].captures) : i \in 1 .. command}

Wire == UNION {ToSet(Frames(capture)) : capture \in ReadSoFar}

Packets == {frame \in Wire : frame.kind = "ip"}

(* A capture that shows a hardware address with one IP only shows it with   *)
(* an IP it has: a router that forwards for one host in all the capture is  *)
(* taken for that host.                                                     *)
Honest(capture) ==
  LET tables == Learned(capture)
  IN  \A table \in {tables.arp, tables.observed} : \A pair \in table :
        \/ Cardinality(IPsOf(table, pair[1])) > 1
        \/ pair[2] \in Groups
        \/ Owner[pair[1]] = Owner[pair[2]]

Sound == \A capture \in ReadSoFar : Honest(capture)

(* What the plant is: the devices there are, and that each tells the truth  *)
(* of itself and the scans and logs of it, as far as the readers look.      *)
Known(address) == Owner[address] \in DOMAIN TruthOf

Tells(identity, device) == \A f \in DOMAIN identity : identity[f] \in TruthOf[device] \cup {Unsaid}

Told(pieces, device) == \A i \in DOMAIN pieces : Tells(Messages[pieces[i].message].identity, device)

IsTrueFrame(frame) ==
  \/ frame.kind = "arp" /\ \A a \in {frame.mac, frame.ip} : Usable(a) => Known(a)
  \/ /\ frame.kind = "lldp"
     /\ Usable(frame.mac) => Known(frame.mac) /\ Tells(SniffText(frame.text), Owner[frame.mac])
  \/ /\ frame.kind = "ip" /\ frame.transport \in {"tcp", "udp"}
     /\ {frame.src, frame.dst, frame.sport, frame.dport} \subseteq Int
     /\ \A a \in {frame.src, frame.dst} : Usable(a) => Known(a)
     /\ IsList(frame.payload)
     /\ FromListener(frame) => Told(frame.payload, Owner[frame.src])
  \/ frame.kind = "other" /\ (Usable(frame.src) => Known(frame.src))

(* A host that a scan names anything of has an IP, as Nmap's all have.      *)
IsTrueHost(host) ==
  LET addresses == {host.v4, host.v6, host.mac} \ {NoAddress}
      open == {p \in ToSet(host.ports) : p.open}
      scripts == ToSet(host.scripts) \cup UNION {ToSet(p.scripts) : p \in open}
      read == {s \in scripts : s.id \in DOMAIN ScriptFields}
      banners == SelectSeq([i \in DOMAIN OpenPorts(host) |-> OpenPorts(host)[i].banner],
                           LAMBDA b : b # Unsaid)
  IN  \/ host.state \notin {"", "up"}
      \/ addresses = {} /\ host.name = Unsaid
      \/ /\ {host.v4, host.v6} # {NoAddress}
         /\ \E device \in DOMAIN TruthOf :
              /\ \A a \in addresses : Owner[a] = device
              /\ \A s \in read : Tells(s.values, device)
              /\ Tells(SniffText(banners), device)

IsTrueRecord(r) ==
  CASE r.kind = "conn" -> \A a \in {r.orig, r.resp} : Usable(a) => Known(a)
    [] r.kind \in {"known_hosts", "known_services", "software"} -> Usable(r.host) => Known(r.host)
    [] r.kind = "dhcp" ->
         Usable(r.host) => Known(r.host) /\ (Usable(r.mac) => Owner[r.mac] = Owner[r.host])
    [] r.kind = "dns" -> \A i \in DOMAIN r.answers : Usable(r.answers[i]) => Known(r.answers[i])
    [] r.kind \in ICSKinds ->
         /\ \A a \in {r.orig, r.resp} : Usable(a) => Known(a)
         /\ Usable(SenderOf(r)) =>
              \A s \in r.said : s.value \in TruthOf[Owner[SenderOf(r)]] \cup {Unsaid}
    [] OTHER -> TRUE

(* Whatever kind its lines may be taken for: the log's, or one a line names. *)
IsTrueLog(log) ==
  \A i, j \in DOMAIN log.lines :
    LET kinds == {log.kind} \cup (IF log.lines[j].line = "path" THEN {log.lines[j].kind} ELSE {})
    IN  log.lines[i].line \in {"json", "tsv"} =>
          \A kind \in kinds : IsTrueRecord([log.lines[i].record EXCEPT !.kind = kind])

ASSUME PlantAssumption ==
  /\ \A list \in Commands : \A c \in ToSet(list) :
       /\ \A capture \in ToSet(c.captures) : \A frame \in ToSet(capture) : IsTrueFrame(frame)
       /\ \A host \in ToSet(c.hosts) : IsTrueHost(host)
       /\ \A log \in ToSet(c.logs) : IsTrueLog(log)
  /\ \A e \in DOMAIN Replies :
       e[1] # NoAddress /\ Known(e[1]) /\ Tells(Messages[Replies[e]].identity, Owner[e[1]])
  /\ \A device \in DOMAIN TruthOf : \A value \in TruthOf[device] \cup {Unsaid, Garbled} :
       Tells(SniffText(<<value>>), device)

(* The answers of a service, and those that came each in one segment.       *)
AnswersOf(capture, service) ==
  {frame \in ToSet(Frames(capture)) :
     frame.kind = "ip" /\ FromListener(frame) /\ Responder(frame) = service}

IsWhole(frame, service) ==
  \E m \in DOMAIN Messages :
    /\ frame.payload = Pieces(m, 1, Messages[m].length)
    /\ Messages[m].protocol \in ToSet(DecodersFor(service[2]))
    /\ Messages[m].length <= MaxDecodeAttempt

MessageOf(frame) == Messages[frame.payload[1].message]

Prompt(capture, service) == \A frame \in AnswersOf(capture, service) : IsWhole(frame, service)

AddressesOf(asset) == {asset.addr.v4, asset.addr.v6, asset.addr.mac} \ {NoAddress}

Hosts == UNION {ToSet(commands[i].hosts) : i \in 1 .. command}

(* The records of a log, of whatever kind its lines may be taken for: the   *)
(* log's, or one a line names.                                              *)
RecordsOf(log) ==
  LET lines == ToSet(log.lines)
      kinds == {log.kind} \cup {l.kind : l \in {k \in lines : k.line = "path"}}
  IN  {[l.record EXCEPT !.kind = kind] : l \in {k \in lines : k.line \in {"json", "tsv"}}, kind \in kinds}

Records == UNION {UNION {RecordsOf(log) : log \in ToSet(commands[i].logs)} : i \in 1 .. command}

(* Where something was sent from, or a scan or a log says it is open.       *)
SpokenOpen ==
  {<<f.src, f.sport, f.transport>> :
     f \in {g \in Packets : g.flag = "synack" \/ g.payload # <<>> \/ g.transport = "udp"}}

OpenPortsOf(host) ==
  {<<ip, p.port, p.transport>> :
     p \in {q \in ToSet(host.ports) : q.open}, ip \in {host.v4, host.v6} \ {NoAddress}}

ScannedOpen == UNION {OpenPortsOf(host) : host \in Hosts}

ConnectedOpen ==
  {<<r.resp, r.port, r.transport>> :
     r \in {q \in Records : q.kind = "conn" /\ q.packets # 0 /\ q.state \notin {"S0", "REJ", "SH"}}}

ServedOpen == {<<r.host, r.port, r.transport>> : r \in {q \in Records : q.kind = "known_services"}}

SeenOpen == SpokenOpen \cup ScannedOpen \cup ConnectedOpen \cup ServedOpen

(* The IP addresses and the hardware addresses that are read for a device,  *)
(* in any of the commands.                                                  *)
FrameIPs(frame) ==
  CASE frame.kind = "arp" -> {frame.ip}
    [] frame.kind = "ip" -> {frame.src, frame.dst}
    [] frame.kind = "other" -> {frame.src}
    [] OTHER -> {}

HostIPs(host) == IF host.state \in {"", "up"} THEN {host.v4, host.v6} ELSE {}

RecordIPs(r) ==
  CASE r.kind \in {"conn"} \cup ICSKinds -> {r.orig, r.resp}
    [] r.kind \in {"known_hosts", "known_services", "software", "dhcp"} -> {r.host}
    [] r.kind = "dns" -> ToSet(r.answers)
    [] OTHER -> {}

AllCommands == UNION {ToSet(list) : list \in Commands}

AllFrames == UNION {UNION {ToSet(capture) : capture \in ToSet(c.captures)} : c \in AllCommands}

AllHosts == UNION {ToSet(c.hosts) : c \in AllCommands}

AllRecords == UNION {UNION {RecordsOf(log) : log \in ToSet(c.logs)} : c \in AllCommands}

IPsRead ==
  (UNION ({FrameIPs(frame) : frame \in AllFrames} \cup {HostIPs(host) : host \in AllHosts}
            \cup {RecordIPs(r) : r \in AllRecords})) \ {NoAddress}

MacsRead ==
  {frame.mac : frame \in AllFrames}
    \cup {host.mac : host \in {h \in AllHosts : h.state \in {"", "up"}}}
    \cup {r.mac : r \in {q \in AllRecords : q.kind = "dhcp"}}

(* IPs and hardware addresses are numbers of their own. *)
ASSUME AddressesAssumption == IPsRead \cap MacsRead = {}

(* The devices that are read with one IP, whatever the number of captures,  *)
(* scans and logs.  An asset keeps the first IPv4 and the first IPv6        *)
(* address it is given: where one of two IPs leads to it by way of the      *)
(* hardware address, the asset may never show the other.                    *)
OneIP == {d \in DOMAIN TruthOf : \A a, b \in IPsRead : Owner[a] = d /\ Owner[b] = d => a = b}

(* A template as it is read: its protocol has a decoder (template.go:179).  *)
IsTemplate(t) ==
  /\ t = [id |-> t.id, protocol |-> t.protocol, port |-> t.port, transport |-> t.transport]
  /\ t.protocol \in ToSet(AllDecoders)

(* No target is NoAddress, and a reply is a message of one piece at least.  *)
ASSUME ProbingAssumption ==
  /\ \A request \in PlanRequests : \A i \in DOMAIN request.targets :
       request.targets[i].from \in Nat \ {0}
  /\ \A i \in DOMAIN Templates : IsTemplate(Templates[i])
  /\ \A e \in DOMAIN Replies : Messages[Replies[e]].length \in Nat \ {0}

(* The entries about a service, each at <<asset, place>> of its evidence;   *)
(* and those that say nothing that none before them says.                   *)
Entry(known, p) == known[p[1]].evidence[p[2]]

EntryPlaces(known) == UNION {{i} \X DOMAIN known[i].evidence : i \in DOMAIN known}

EntriesOf(known, service) ==
  {p \in EntryPlaces(known) : Entry(known, p).source = "pcap" /\ Entry(known, p).endpoint = service}

FieldsOf(known, entries) == UNION {Entry(known, p).fields : p \in entries}

IsEarlier(p, q) == p[1] < q[1] \/ (p[1] = q[1] /\ p[2] < q[2])

Repeats(known, service, p) ==
  Entry(known, p).fields \subseteq FieldsOf(known, {q \in EntriesOf(known, service) : IsEarlier(q, p)})

(* What the captures of the command say of a device, in answers and in      *)
(* announcements, and what its scans say.                                   *)
Captures == ToSet(commands[command].captures)

ServicesOf(device) == {<<f.src, f.sport, f.transport>> : f \in {g \in Packets : Owner[g.src] = device}}

AllPrompt(device) == \A capture \in Captures : \A service \in ServicesOf(device) : Prompt(capture, service)

Values(statements, field) ==
  {said[field] : said \in {a \in statements : field \in DOMAIN a}} \ {Unsaid}

SaidInAnswers(device, field) ==
  Values({MessageOf(frame).identity :
            frame \in UNION {AnswersOf(capture, service) :
                               capture \in Captures, service \in ServicesOf(device)}},
         field)

SaidInLLDP(device, field) ==
  Values({SniffText(frame.text) :
            frame \in {g \in Wire : g.kind = "lldp" /\ Owner[g.mac] = device}}, field)

(* There is no other asset of the device.                                   *)
IsAllOf(asset, device) ==
  \A other \in ToSet(assets) : (\E a \in AddressesOf(other) : Owner[a] = device) => other = asset

NmapSaid(device, field) ==
  {NmapIdentity(Nobody, host)[field] :
     host \in {h \in ToSet(commands[command].hosts) :
                 \E ip \in HostIPs(h) \ {NoAddress} : Owner[ip] = device}} \ {Unsaid}

-----------------------------------------------------------------------------
(* Properties. *)

(* The stages fit what is left, and an asset is in the inventory once.      *)
TypeOK ==
  /\ stage \in {"read", "replay", "write", "plan", "probe", "done"}
  /\ command \in 1 .. Len(commands)
  /\ stage \in {"replay", "write"} => left.captures # <<>>
  /\ stage = "read" => pass = NewPass
  /\ \A known \in {assets, saved.assets, probed} : \A i, j \in DOMAIN known :
       known[i].id = known[j].id => i = j
  /\ \A service \in DOMAIN pass.buffers : Len(pass.buffers[service]) < MaxFlowBuffer
  /\ Cardinality(DOMAIN pass.flows) <= MaxTrackedFlows

(* The addresses of an asset are of one device, and what the inventory says *)
(* of it is true of that device, or the bytes of two answers read as one:   *)
(* "attaching it to an asset would merge devices that are not the same      *)
(* device" (pcap.go:221), "puts a PLC identity on the workstation that      *)
(* asked" (pcap.go:400).                                                    *)
NothingMisattributed ==
  Sound => \A known \in {assets, saved.assets, probed} : \A asset \in ToSet(known) :
    \E device \in DOMAIN TruthOf :
      /\ \A address \in AddressesOf(asset) : Owner[address] = device
      /\ {asset.identity[f] : f \in IdentityFields} \subseteq TruthOf[device] \cup {Unsaid, Garbled}

(* A port is of the device of these addresses: it was seen open at an IP of *)
(* the device, and at one of the addresses if the device has no other.      *)
WasSeen(port, transport, addresses) ==
  \E seen \in SeenOpen : \E a \in addresses :
    /\ seen[2] = port /\ seen[3] = transport
    /\ Owner[a] = Owner[seen[1]]
    /\ Owner[a] \in OneIP => a = seen[1]

(* A service is in the inventory only where the device sent from the port,  *)
(* or a scan or log says so, at the very address the asset shows if that is *)
(* the device's only one; a scan held to known ports knocks nowhere else,   *)
(* and one port asked for speaks for no other protocol than the one the     *)
(* device answers in: "would put ports in the inventory that are not open"  *)
(* (pcap.go:383), "only when the device answered in a protocol the decoder  *)
(* recognised" (plan.go:169).                                               *)
OpenIsAnswered ==
  Sound =>
    /\ \A asset \in ToSet(assets) \cup ToSet(saved.assets) : \A s \in ToSet(asset.services) :
         WasSeen(s.port, s.transport, AddressesOf(asset))
    /\ stage = "probe" /\ (\A request \in PlanRequests : request.onlyKnown) =>
         \A i \in DOMAIN plan :
           WasSeen(plan[i].template.port, plan[i].template.transport, {plan[i].host})
    /\ \A asset \in ToSet(probed) : \A s \in ToSet(asset.services) :
         \E ip \in AddressesOf(asset) : Messages[Replies[<<ip, s.port>>]].protocol = s.protocol

(* In the file both ends of a conversation of two devices of one IP each    *)
(* are assets that have those addresses, so that a crossing of two placed   *)
(* levels is always graded.                                                 *)
CrossingsAreGraded ==
  Sound => \A flow \in ToSet(saved.flows) : {Owner[flow.src], Owner[flow.dst]} \subseteq OneIP =>
    \E src, dst \in ToSet(saved.assets) :
      /\ src.id = flow.srcAsset /\ flow.src \in AddressesOf(src)
      /\ dst.id = flow.dstAsset /\ flow.dst \in AddressesOf(dst)
      /\ src.purdue \in Enterprise /\ dst.purdue \in Control =>
           flow \in AnalyzeSegmentation(saved.assets, saved.flows)

(* Once a capture has been replayed, each thing a service said is in its    *)
(* evidence, and an entry that adds no field stands only for the first      *)
(* identity: "contributes each thing it has to say once rather than once    *)
(* per packet" (pcap.go:264).                                               *)
SaidOnceWrittenOnce ==
  (stage = "write" /\ command = 1 /\ left.captures = commands[1].captures) =>
    \A service \in pass.open : Prompt(Head(left.captures), service) =>
      /\ FieldsOf(assets, EntriesOf(assets, service))
           = UNION {MessageOf(frame).fields : frame \in AnswersOf(Head(left.captures), service)}
      /\ \A p, q \in EntriesOf(assets, service) :
           Repeats(assets, service, p) /\ Repeats(assets, service, q) => p = q

(* Once captures and scans have been read, a field of an identity is what   *)
(* the strongest source that knew it said, whatever is read later: "a       *)
(* stronger source is never overwritten by a weaker one" (ingest.go:93).    *)
(* That is where the device is one asset: one that was first seen apart by  *)
(* hardware address and by IP is two for good, what was said on the one.    *)
StrongestSpeaks ==
  (Sound /\ Idle /\ left.hosts = <<>>) =>
    \A asset \in ToSet(assets) : \A device \in {Owner[a] : a \in AddressesOf(asset)} :
    \A field \in IdentityFields :
      LET strongest == IF SaidInAnswers(device, field) # {} THEN SaidInAnswers(device, field)
                       ELSE NmapSaid(device, field)
      IN  IsAllOf(asset, device) /\ AllPrompt(device) /\ strongest # {} =>
            asset.identity[field] \in strongest \cup SaidInLLDP(device, field)
=============================================================================
