-------------------------------- MODULE Posture --------------------------------
(***************************************************************************)
(* What the security tab and the assistant make of the machine's answers   *)
(* on Windows: the readings of utils/security_info.py and the cards it     *)
(* computes from them, and the assessment of utils/security_snapshot.py.   *)
(*                                                                         *)
(* Functions without state; SecurityTab has the steps.  What a control is  *)
(* asked is "on", "off", or "unknown" if it was not answered: a query that *)
(* fails, times out or raises.  Names, versions and sentences are left out.*)
(***************************************************************************)
EXTENDS Integers, FiniteSets

Answers == {"on", "off", "unknown"}

------------------------------------------------------------------------------
(* The two controls Security Center lists products for: "on" if one of the  *)
(* product states has the bit 0x1000, "unknown" if there is no product.     *)
Enabled(state) == (state \div 4096) % 2 = 1

Listed(products) ==
    IF \E state \in products : Enabled(state) THEN "on"
    ELSE IF products # {} THEN "off" ELSE "unknown"

(* What remains when nothing says on: a product that is off, or else a guess *)
(* that depends on the rights the program runs with.                         *)
Remaining(listed, admin) ==
    IF listed # "unknown" THEN listed ELSE IF admin THEN "off" ELSE "needs admin"

(* get_windows_defender_status: Defender is asked if no product is on; it may *)
(* be silent, or not know, which is what a query that raises leaves too.      *)
Antivirus(listed, defender, admin) ==
    IF listed = "on" THEN "on"
    ELSE IF defender # "silent" THEN defender ELSE Remaining(listed, admin)

(* get_firewall_status: the service counts before the profiles do. *)
Firewall(listed, serviceRuns, activeProfiles, admin) ==
    IF listed = "on" \/ serviceRuns \/ activeProfiles # {} THEN "on"
    ELSE Remaining(listed, admin)

------------------------------------------------------------------------------
(* get_windows_update_status: a search that fails has found 0. *)
UpdateStatus(restart, pending, installed) ==
    IF restart THEN "RestartRequired"
    ELSE IF pending > 0 THEN "PendingUpdates"
    ELSE IF installed THEN "UpToDate" ELSE "Unknown"

(* The readings of the device and of remote access.  get_disk_encryption_status *)
(* asks for the volume only with an administrator's rights; get_tpm_status asks *)
(* the registry only if the tool fails, and it knows no "off"; a registry value *)
(* that is not there reads off for Remote Desktop and unknown for SmartScreen.  *)
DiskEncryption(device, admin, volume) ==
    IF device = "on" THEN "on" ELSE IF admin THEN volume ELSE "unknown"

Tpm(tool, service) ==
    IF tool # "fails" THEN tool ELSE IF service = "on" THEN "on" ELSE "unknown"

RemoteDesktop(answered, deny) ==
    IF ~answered THEN "unknown" ELSE IF deny = 0 THEN "on" ELSE "off"

SmartScreen(value) ==
    IF value \in {"on", "requireadmin", "warn", "1", "2"} THEN "on"
    ELSE IF value \in {"off", "0"} THEN "off" ELSE "unknown"

(* get_uac_level, of the registry's values; none of them may be there. *)
UacLevel(lua, consent, secure) ==
    IF lua = 0 THEN "Disabled"
    ELSE IF consent = 0 THEN "Low"
    ELSE IF consent = 5 /\ secure = 1 THEN "High" ELSE "Medium"
UacLevels == {"Disabled", "Low", "Medium", "High", "Unknown"}

------------------------------------------------------------------------------
(* The cards of get_simplified_security_status.  A machine is what they are  *)
(* computed from; days counts since the last install that is known.          *)
Machines ==
    [firewall : Answers \cup {"needs admin"}, antivirus : Answers \cup {"needs admin"},
     restart : BOOLEAN, pending : Nat, installed : BOOLEAN, days : Nat,
     tpm : Answers, boot : Answers, disk : Answers,
     rdp : Answers, admins : Nat, counted : BOOLEAN,
     uac : UacLevels, smartScreen : Answers]

Internet(m) ==
    LET seen == {m.firewall, m.antivirus}
    IN IF "needs admin" \in seen THEN "Checking"
       ELSE IF "unknown" \in seen THEN "Unknown"
       ELSE IF seen = {"on"} THEN "On"
       ELSE IF "on" \in seen THEN "Partially on" ELSE "Off"

Updates(m) ==
    LET status == UpdateStatus(m.restart, m.pending, m.installed)
    IN IF status = "UpToDate" THEN "Up to date"
       ELSE IF status = "RestartRequired" THEN "Restart needed"
       ELSE IF status = "PendingUpdates" THEN "Updates available"
       ELSE IF m.installed /\ m.days > 30 THEN "Out of date" ELSE "Unknown"

Hardening(m) == {m.tpm, m.boot, m.disk} \ {"unknown"}
Device(m) ==
    IF Hardening(m) = {} THEN "Unavailable"
    ELSE IF "off" \notin Hardening(m) THEN "Strong"
    ELSE IF "on" \in Hardening(m) THEN "Okay" ELSE "Weak"

Risk(m) ==
    LET points(flag, n) == IF flag THEN n ELSE 0
    IN points(m.rdp = "on", 2) + points(m.counted /\ m.admins > 2, 1)
       + points(m.uac = "Disabled", 2) + points(m.uac = "Low", 1)
       + points(m.smartScreen = "off", 1)

Remote(m) ==
    IF m.rdp = "unknown" /\ ~m.counted /\ m.uac = "Unknown" /\ m.smartScreen = "unknown"
    THEN "Unavailable"
    ELSE IF Risk(m) = 0 THEN "Safe"
    ELSE IF Risk(m) <= 2 /\ m.rdp # "on" /\ m.uac # "Disabled" THEN "Review" ELSE "Risky"

(* The headline. *)
Overall(m) ==
    IF "off" \in {m.firewall, m.antivirus} THEN "At risk"
    ELSE IF /\ Internet(m) = "On" /\ Updates(m) = "Up to date"
            /\ Device(m) \in {"Strong", "Unavailable"}
            /\ Remote(m) \in {"Safe", "Unavailable"}
         THEN "Protected" ELSE "Needs attention"

------------------------------------------------------------------------------
(* _assess_overall_status, of what the assistant is told.  Defender and the  *)
(* firewall's profiles are asked once each and may not answer; the age of    *)
(* the definitions is -1 if it is not known.                                 *)
DefenderIsOff(d) == d.answered /\ (~d.realtime \/ ~d.antivirus)
DefenderIssue(d) ==
    \/ ~d.answered
    \/ ~d.current /\ d.age > 7
    \/ d.tamper = "off"
    \/ d.scanRequired

Profiles == {"domain", "private", "public"}
Assessment(d, firewallAnswered, activeProfiles) ==
    IF DefenderIsOff(d) \/ (firewallAnswered /\ activeProfiles = {}) THEN "Critical"
    ELSE IF DefenderIssue(d) \/ ~firewallAnswered \/ activeProfiles # Profiles
         THEN "Warning" ELSE "Good"
==============================================================================
