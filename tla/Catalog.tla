------------------------------ MODULE Catalog -------------------------------
(***************************************************************************)
(* Order codes (internal/normalize/catalog*.go): what the parsers of the   *)
(* vendors' schemes recover from a code.                                   *)
(*                                                                         *)
(* A code is the sequence of the parts its scheme gives it, separators     *)
(* dropped, as CatalogKey drops them: 6ES7 214-1AG40-0XB0 is <<"6ES7",     *)
(* "214", "1AG40", "0XB0">> and 1756-L71 is <<"1756", "L7", "1">>.  The    *)
(* tables hold one row for each case the parsers tell apart.  A name is a  *)
(* sequence of words.                                                      *)
(***************************************************************************)
EXTENDS Integers, SequencesExt

NoCode == <<>>
NoName == <<>>

Part(code, i) == IF i \in DOMAIN code THEN code[i] ELSE "none"

(* Confidence in hundredths. *)
CatalogResult(vendor, family, model, normalized, confidence) ==
  [vendor |-> vendor, family |-> family, model |-> model,
   normalized |-> normalized, confidence |-> confidence]

Unrecognised == CatalogResult(NoName, NoName, NoName, NoCode, 0)

-----------------------------------------------------------------------------
(* Siemens: the product group, then a type group that names the model of an *)
(* S7 controller.                                                           *)
SiemensGroups ==
  ("6ES7" :> <<"simatic", "s7">>) @@ ("6AV2" :> <<"simatic", "hmi">>) @@
  ("6GK5" :> <<"scalance">>) @@ ("6GK6" :> <<"ruggedcom">>)

S7TypeGroups ==
  ("214" :> [family |-> <<"simatic", "s7", "1200">>, model |-> <<"cpu", "1214c">>]) @@
  ("215" :> [family |-> <<"simatic", "s7", "1200">>, model |-> <<"cpu", "1215c">>]) @@
  ("516" :> [family |-> <<"simatic", "s7", "1500">>, model |-> <<"cpu", "1516">>]) @@
  ("288" :> [family |-> <<"simatic", "s7", "200", "smart">>, model |-> NoName])

ParseMLFB(code) ==
  LET group == Part(code, 1)
      type == Part(code, 2)
      vendor == IF group = "6GK6" THEN <<"ruggedcom">> ELSE <<"siemens">>
  IN  CASE group \notin DOMAIN SiemensGroups -> Unrecognised
        [] group = "6ES7" /\ type \in DOMAIN S7TypeGroups ->
             CatalogResult(vendor, S7TypeGroups[type].family, S7TypeGroups[type].model, code, 90)
        [] OTHER -> CatalogResult(vendor, SiemensGroups[group], NoName, code, 60)

(* Rockwell: a platform, its letter part of it when the table has the two,  *)
(* and a suffix that starts with L for a controller.                        *)
RockwellPlatforms ==
  (<<"1756">> :> <<"controllogix">>) @@ (<<"2711">> :> <<"panelview">>) @@
  (<<"2711", "P">> :> <<"panelview", "plus">>) @@ (<<"2080">> :> <<"micro800">>)

RockwellSeries == {<<"1756", "L7">>, <<"1756", "L8">>}

Controllers == {"L3", "L7", "L8"}

ParseRockwell(code) ==
  LET platform == IF Len(code) > 2 /\ SubSeq(code, 1, 2) \in DOMAIN RockwellPlatforms
                  THEN SubSeq(code, 1, 2) ELSE SubSeq(code, 1, 1)
      suffix == SubSeq(code, Len(platform) + 1, Len(code))
      controller == Part(suffix, 1) \in Controllers
      series == platform \o SubSeq(suffix, 1, 1) \in RockwellSeries
  IN  IF Len(code) < 2 \/ platform \notin DOMAIN RockwellPlatforms THEN Unrecognised
      ELSE CatalogResult(<<"rockwell", "automation">>, RockwellPlatforms[platform],
                         IF controller THEN suffix ELSE NoName, code,
                         IF controller /\ series THEN 90 ELSE 70)

(* Mitsubishi: FX first, then the rack series, whose model drops what       *)
(* follows CPU.                                                             *)
MelsecSeries == [R |-> <<"melsec", "iq", "r">>, Q |-> <<"melsec", "q">>]

ParseMelsec(code) ==
  LET model == SubSeq(code, 1, 3)
      family == CASE code[1] = "FX" -> IF code[2] = "5" THEN <<"melsec", "iq", "f">>
                                       ELSE <<"melsec", "f">>
                  [] OTHER -> MelsecSeries[code[1]]
  IN  IF Len(code) < 3 \/ ~ (code[1] = "FX" \/ (code[1] \in DOMAIN MelsecSeries /\ code[3] = "CPU"))
      THEN Unrecognised
      ELSE CatalogResult(<<"mitsubishi", "electric">>, family, model, model, 85)

-----------------------------------------------------------------------------
(* ParseCatalog: every parser in the order of the names, the first of the   *)
(* most confident wins.                                                     *)
ParseCatalog(code) ==
  FoldLeft(LAMBDA best, r : IF r.confidence > best.confidence THEN r ELSE best,
           Unrecognised,
           <<ParseMelsec(code), ParseRockwell(code), ParseMLFB(code)>>)
=============================================================================
