--------------------------- MODULE ImportEvidence ---------------------------
(* What the import concludes from the firmware columns of one row: the      *)
(* running version, the platform, and whether a model supports it           *)
(* (importer-v2-firmware.ts, importer-v2-observed-platform.ts and           *)
(* importer-v2-firmware-verification-policy.ts).  Texts are opaque; tables  *)
(* say what the patterns of the code find in them.                          *)
EXTENDS Integers, FiniteSets, Sequences, Tables

CONSTANTS
  Reading,     \* per firmware text, [kind, release, family] its version patterns find
  Words,       \* per text of a row, the vendors, platforms and deployments it mentions
  CanonicalPlatform,   \* per text of a platform or type, its canonical platform
  Placeholders    \* firmware texts that stand for no value

\* Evidence: [provider, vendor, model, family, platform, type, firmware, software].
Said(x) == IF x = None THEN {} ELSE Words[x]
Meant(x) == IF x = None THEN None ELSE CanonicalPlatform[x]
Given(x) == x # None /\ x \notin Placeholders
OfVendor(e, names) == (Said(e.vendor) \cup Said(e.provider)) \cap names # {}
Mentions(e) == UNION {Said(e[f]) : f \in {"vendor", "platform", "type", "firmware", "software"}}

\* Versions as the Meraki dashboard writes them are read for its vendors only.
Version(e, x) ==
  IF ~Given(x) \/ (Reading[x].kind = "SLUG" /\ ~OfVendor(e, {"meraki", "cisco"}))
  THEN None ELSE Reading[x].release
VersionKind(e, x) == IF Version(e, x) = None THEN "NONE" ELSE Reading[x].kind

\* What the patterns find in the texts of a row.
Facts(e) ==
  [firmware |-> Version(e, e.firmware), software |-> Version(e, e.software),
   firmwareKind |-> VersionKind(e, e.firmware), softwareKind |-> VersionKind(e, e.software),
   vendors |-> Said(e.vendor) \cup Said(e.provider), mentions |-> Mentions(e)]

IsBoot(x) == "cisco" \in x.vendors \cup x.mentions /\ x.firmwareKind = "ROMMON"
CodesDiffer(x) ==
  /\ x.vendors \cap {"aruba", "hewlett packard"} # {} \/ "aruba" \in x.mentions
  /\ {x.firmwareKind, x.softwareKind} \subseteq {"CODE", "CODE16"}
  /\ x.firmware # x.software

\* The first pattern of the interpreter that fits.
Pattern(x) ==
  IF IsBoot(x) THEN "BOOT"
  ELSE IF CodesDiffer(x) THEN "BOOT_CODE"
  ELSE IF x.firmware = None /\ x.software = None THEN "UNKNOWN"
  ELSE IF x.firmware = None THEN "SOFTWARE_ONLY"
  ELSE IF x.software = None THEN "FIRMWARE_ONLY"
  ELSE IF x.firmware = x.software THEN "SAME" ELSE "CONFLICT"

RunningVersion(x, pattern) ==
  CASE pattern \in {"BOOT", "BOOT_CODE", "SAME", "SOFTWARE_ONLY"} -> x.software
    [] pattern = "FIRMWARE_ONLY" -> x.firmware
    [] OTHER -> None

FirmwareConfidence(pattern, running) ==
  CASE pattern \in {"BOOT_CODE", "SAME"} \/ (pattern = "BOOT" /\ running # None) -> "HIGH"
    [] pattern \in {"SOFTWARE_ONLY", "FIRMWARE_ONLY"} -> "MEDIUM"
    [] OTHER -> "LOW"
-----------------------------------------------------------------------------
(* The platform.                                                            *)

NamedPlatforms == <<"IOS-XE", "IOS", "FortiOS", "FortiSwitch", "FortiAP", "AOS-CX", "AOS-S">>

\* What the texts and the version say, whatever the platform column says.
Inferred(e, x, running) ==
  LET named == {i \in DOMAIN NamedPlatforms : NamedPlatforms[i] \in x.mentions}
      kind == IF running = None THEN "NONE" ELSE IF running = x.software THEN x.softwareKind ELSE x.firmwareKind
      aruba == x.vendors \cap {"aruba", "hewlett packard", "hpe"} # {}
      wlan == "wireless" \in Said(e.type) \/ "controller" \in x.mentions
  IN IF aruba /\ wlan /\ kind \in {"8", "10"} THEN IF kind = "8" THEN "AOS-8" ELSE "AOS-10"
     ELSE IF aruba /\ kind = "CODE16" THEN "AOS-S"
     ELSE IF named = {} THEN None ELSE NamedPlatforms[CHOOSE i \in named : \A j \in named : i <= j]

Platform(e, inferred) ==
  IF inferred # None THEN inferred
  ELSE IF Meant(e.platform) # None THEN Meant(e.platform)
  ELSE IF Meant(e.type) \in {"FortiOS", "FortiSwitch", "FortiAP"} THEN Meant(e.type) ELSE None

\* The family a Meraki version names, or classic IOS, for rows of the vendor
\* whose platform column is empty.
Observed(e) ==
  LET context == Said(e.vendor) \cup Said(e.model) \cup Said(e.family)
      family(t) == IF t = None THEN None ELSE Reading[t].family
      classic(t) == t # None /\ Reading[t].kind = "CLASSIC"
      meraki == IF family(e.software) # None THEN family(e.software) ELSE family(e.firmware)
  IN IF e.platform # None THEN None
     ELSE IF meraki # None /\ context \cap {"meraki", "cisco"} # {} THEN meraki
     ELSE IF (classic(e.software) \/ classic(e.firmware)) /\ "cisco" \in context /\ "meraki" \notin context
     THEN "IOS" ELSE None
-----------------------------------------------------------------------------
(* Compatibility.  Rules: [vendor, model, platforms].                       *)

RulesFor(e, rules) ==
  {r \in rules : r.model = e.model /\ (r.vendor = None \/ e.vendor = None \/ r.vendor = e.vendor)}

Compatibility(e, platform, rules) ==
  IF platform = None THEN "NOT_APPLICABLE"
  ELSE IF e.model = None \/ RulesFor(e, rules) = {} THEN "UNKNOWN"
  ELSE IF platform \in UNION {r.platforms : r \in RulesFor(e, rules)} THEN "COMPATIBLE" ELSE "INCOMPATIBLE"

Unread(text, version) == Given(text) /\ version = None
VersionWarnings(e, x, pattern) ==
  {w \in {"BOOT_FIRMWARE_IGNORED"} : pattern \in {"BOOT", "BOOT_CODE"}}
  \cup {w \in {"PLACEHOLDER_FIRMWARE_IGNORED"} : e.firmware \in Placeholders}
  \cup {w \in {"FIRMWARE_EVIDENCE_CONFLICT"} : pattern = "CONFLICT"}
  \cup {w \in {"UNPARSEABLE_VERSION"} :
          \/ pattern \in {"FIRMWARE_ONLY", "UNKNOWN"} /\ Unread(e.software, x.software)
          \/ pattern = "UNKNOWN" /\ Unread(e.firmware, x.firmware)}

Interpret(e, rules) ==
  LET x == Facts(e)
      pattern == Pattern(x)
      running == RunningVersion(x, pattern)
      inferred == Inferred(e, x, running)
      platform == Platform(e, inferred)
      disagree == inferred # None /\ Meant(e.platform) \notin {None, inferred}
      status == Compatibility(e, platform, rules)
  IN [running |-> running, platform |-> platform, pattern |-> pattern, status |-> status,
      confidence |-> IF status = "INCOMPATIBLE" \/ disagree THEN "LOW" ELSE FirmwareConfidence(pattern, running),
      warnings |-> VersionWarnings(e, x, pattern)
        \cup {w \in {"PLATFORM_EVIDENCE_CONFLICT"} : disagree}
        \cup {w \in {"PLATFORM_INCOMPATIBLE"} : status = "INCOMPATIBLE"}
        \cup {w \in {"UNKNOWN_RUNNING_FIRMWARE"} : running = None}]

\* An observed platform stands in for the column, and for the rules of a model
\* that has none.
InterpretObserved(e, rules) ==
  LET seen == Observed(e)
      own == {[vendor |-> e.vendor, model |-> e.model, platforms |-> {seen}] :
                x \in {s \in {seen} : s # None /\ e.model # None /\ RulesFor(e, rules) = {}}}
  IN Interpret(IF seen = None THEN e ELSE [e EXCEPT !.platform = seen], rules \cup own)

\* Whether one click may verify what was observed.
BulkBlocking == {"FIRMWARE_EVIDENCE_CONFLICT", "PLATFORM_EVIDENCE_CONFLICT", "PLATFORM_INCOMPATIBLE",
                 "UNKNOWN_RUNNING_FIRMWARE", "UNPARSEABLE_VERSION"}
VerificationOf(e, reading) ==
  IF reading.running = None
  THEN IF e.firmware = None /\ e.software = None THEN "NOT_APPLICABLE" ELSE "MANUAL_REVIEW"
  ELSE IF reading.platform = None \/ reading.warnings \cap BulkBlocking # {} \/ reading.status = "INCOMPATIBLE"
  THEN "MANUAL_REVIEW"
  ELSE IF reading.status = "COMPATIBLE" THEN "ALREADY_TRUSTED" ELSE "VERIFY"
=============================================================================
