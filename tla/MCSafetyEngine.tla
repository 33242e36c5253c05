--------------------------- MODULE MCSafetyEngine ---------------------------
(***************************************************************************)
(* Instances of SafetyEngine for TLC: two hosts, one a safety controller   *)
(* that no active probe may reach, one a CPU that must not be spoken s7    *)
(* to once it is recognised.                                               *)
(***************************************************************************)
EXTENDS SafetyEngine

MCIdentity(v, p) == [vendor |-> v, product |-> p]

MCDevice == [rtu |-> MCIdentity("none", "none"),
             plc |-> MCIdentity("siemens", "s7-300"),
             sis |-> MCIdentity("yokogawa", "prosafe")]

MCRules == {[want |-> MCIdentity("siemens", "s7-300"), templates |-> {}, protocols |-> {"s7"}],
            [want |-> MCIdentity("none", "prosafe"), templates |-> {}, protocols |-> {}]}

MCDisclosures == {{}, {"vendor"}, {"vendor", "product"}}

Ask(host, protocol, risk, steps) ==
  [host |-> host, template |-> "t", protocol |-> protocol,
   transport |-> IF protocol = "bacnet" THEN "udp" ELSE "tcp",
   risk |-> risk, steps |-> steps]

Nothing == [h \in {"plc", "sis", "rtu"} |-> MCIdentity("none", "none")]

Given(exchanges, inventory, dry) ==
  [exchanges |-> exchanges, known |-> inventory, dryRun |-> dry]

(* The caller's order mixes the hosts, and each is asked twice. *)
Mixed == <<Ask("sis", "modbus", "safe", 2), Ask("plc", "s7", "safe", 1),
           Ask("sis", "bacnet", "safe", 1), Ask("plc", "s7", "safe", 2)>>

(* Enough packets for one failure to stay at the threshold. *)
Long == <<Ask("rtu", "modbus", "safe", 2), Ask("rtu", "bacnet", "safe", 2),
          Ask("rtu", "modbus", "caution", 1), Ask("rtu", "modbus", "safe", 2),
          Ask("rtu", "modbus", "safe", 1)>>

MCInputs == {Given(Long, Nothing, FALSE),
             Given(Mixed, Nothing, FALSE),
             Given(Mixed, [Nothing EXCEPT !["sis"] = MCDevice["sis"]], FALSE),
             Given(Mixed, [Nothing EXCEPT !["plc"] = MCIdentity("siemens", "none")], TRUE)}

-----------------------------------------------------------------------------
(* One host, the CPU, asked s7 twice; what the inventory says of it varies. *)
AskCPU(inventory, steps) ==
  Given(<<Ask("plc", "s7", "safe", steps), Ask("plc", "s7", "safe", 1)>>,
        [Nothing EXCEPT !["plc"] = inventory], FALSE)

(* The address held another CPU when the inventory was taken. *)
MCStaleInputs == {AskCPU(MCIdentity("siemens", "s7-1500"), 2)}

(* The fields the decoders fill in from a reply leave out the family, the *)
(* only one the shipped rule for this CPU names besides the vendor.       *)
WithFamily(v, f, p) == [vendor |-> v, family |-> f, product |-> p]

MCFamilyDevice == [plc |-> WithFamily("siemens", "s7-300", "cpu 315")]

MCFamilyRules ==
  {[want |-> WithFamily("siemens", "s7-300", "none"), templates |-> {}, protocols |-> {"s7"}]}

MCFamilyInputs ==
  {Given(<<Ask("plc", "s7", "safe", 2), Ask("plc", "s7", "safe", 2)>>,
         [plc |-> WithFamily("none", "none", "none")], FALSE)}

MCDecoded == {{}, {"vendor", "product"}}
=============================================================================
