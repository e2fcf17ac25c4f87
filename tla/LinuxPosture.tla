----------------------------- MODULE LinuxPosture -----------------------------
(***************************************************************************)
(* What the security tab and the assistant make of a Linux machine: the    *)
(* probes of platform/linux/security_posture.py, the score and the cards   *)
(* composed of them, and what is shown when the collection itself fails.   *)
(*                                                                         *)
(* Functions without state; Posture has their Windows counterparts and     *)
(* SecurityTab the steps.  What a command came to is "missing" if it is    *)
(* not installed, "failed" if it times out, raises, or ends with an error  *)
(* (a command refused to an ordinary user too), and else what it says.     *)
(* Names, versions and sentences are left out.                             *)
(***************************************************************************)
EXTENDS Integers

Finding(enabled, level) == [enabled |-> enabled, level |-> level]

------------------------------------------------------------------------------
(* detect_firewall.  Only UFW is believed when it says it is off; a service  *)
(* counts if systemctl calls it active, iptables if it prints anything, and  *)
(* it prints the chains' policies when there is no rule.                     *)
FirewallProbes ==
    [ufw : {"missing", "failed", "unclear", "active", "inactive"},
     firewalld : {"missing", "failed", "active"},
     nftables : {"missing", "failed", "active"},
     iptables : {"missing", "failed", "silent", "policies", "rules"}]

LinuxFirewall(p) ==
    IF p.ufw = "inactive" THEN Finding(FALSE, "error")
    ELSE IF \/ "active" \in {p.ufw, p.firewalld, p.nftables}
            \/ p.iptables \in {"policies", "rules"}
         THEN Finding(TRUE, "good")
         ELSE Finding(FALSE, "error")

(* detect_antivirus: the version command shows it is there, even if it fails. *)
(* enabled is the field "installed".                                          *)
ClamProbes ==
    [version : {"missing", "failed", "printed"},
     daemon : {"missing", "failed", "active"},
     process : {"missing", "failed", "running"}]

Realtime(p) == p.version # "missing" /\ (p.daemon = "active" \/ p.process = "running")
LinuxAntivirus(p) ==
    IF p.version = "missing" THEN Finding(FALSE, "error")
    ELSE Finding(TRUE, IF Realtime(p) THEN "good" ELSE "warning")

------------------------------------------------------------------------------
(* detect_package_updates.  A manager is "absent", or an exit code with the    *)
(* number of packages printed.  apt's failure ends the search, the others' do *)
(* not; enabled says whether a manager is named, which the capability asks.   *)
NotInstalled == [code |-> -1, lines |-> 0]
Counts(manager, codes) == manager # NotInstalled /\ manager.code \in codes
UpToDate(n) == Finding(TRUE, IF n = 0 THEN "good" ELSE "warning")
LinuxUpdates(apt, dnf, pacman) ==
    IF Counts(apt, {0}) THEN UpToDate(apt.lines)
    ELSE IF apt # NotInstalled THEN Finding(TRUE, "unknown")
    ELSE IF Counts(dnf, {0, 100}) THEN UpToDate(IF dnf.code = 0 THEN 0 ELSE dnf.lines)
    ELSE IF Counts(pacman, {0, 2}) THEN UpToDate(pacman.lines)
    ELSE Finding(FALSE, "unknown")

(* An answer that may be missing: enabled is None in the code. *)
Known(answer) ==
    Finding(answer, IF answer = "on" THEN "good"
                    ELSE IF answer = "off" THEN "warning" ELSE "unknown")

(* detect_secure_boot: the firmware's variable, and mokutil if it is absent *)
(* or cannot be read.                                                       *)
LinuxBoot(variable, mokutil) ==
    Known(IF variable \in {"on", "off"} THEN variable
          ELSE IF mokutil \in {"on", "off"} THEN mokutil ELSE "unknown")

(* detect_disk_encryption.  layers are the devices below a mounted one, each *)
(* under the parent it was met under last; a mount that is not a block       *)
(* device's is not in the listing.  One of the two suffices.                 *)
Encrypted(device) == device.type = "crypt" \/ device.fstype = "luks"
LinuxDisk(listed, mounts, layers) ==
    Known(IF ~listed THEN "unknown"
          ELSE IF \E m \in mounts \cap {"root", "home"} :
                     \E device \in layers[m] : Encrypted(device)
               THEN "on" ELSE "off")

(* detect_remote_access: a port in use counts whoever listens, and a table of *)
(* connections that cannot be read has none.                                  *)
LinuxRemote(services, readable, listening) ==
    IF services \cap {"ssh", "sshd", "xrdp"} # {} \/ (readable /\ listening \cap {22, 3389} # {})
    THEN Finding(TRUE, "warning") ELSE Finding(FALSE, "good")

(* detect_mandatory_access_control: the tool is asked if the module is absent. *)
AccessProbes ==
    [module : {"absent", "unreadable", "on", "off"}, tool : {"missing", "failed", "enabled"},
     selinux : {"missing", "failed", "enforcing", "permissive"}]
AppArmor(p) == p.module = "on" \/ (p.module = "absent" /\ p.tool = "enabled")
LinuxAccess(p) ==
    IF AppArmor(p) \/ p.selinux = "enforcing"
    THEN Finding(TRUE, "good") ELSE Finding(FALSE, "warning")

------------------------------------------------------------------------------
(* collect_security_info: the seven findings of one collection. *)
LinuxHosts ==
    [firewall : {Finding(TRUE, "good"), Finding(FALSE, "error")},
     antivirus : {Finding(TRUE, "good"), Finding(TRUE, "warning"), Finding(FALSE, "error")},
     updates : {UpToDate(0), UpToDate(1), Finding(TRUE, "unknown"), Finding(FALSE, "unknown")},
     boot : {Known("on"), Known("off"), Known("unknown")},
     disk : {Known("on"), Known("off"), Known("unknown")},
     remote : {Finding(TRUE, "warning"), Finding(FALSE, "good")},
     access : {Finding(TRUE, "good"), Finding(FALSE, "warning")}]

Collected(q) ==
    [firewall |-> LinuxFirewall(q.firewall), antivirus |-> LinuxAntivirus(q.clam),
     updates |-> LinuxUpdates(q.apt, q.dnf, q.pacman), boot |-> LinuxBoot(q.variable, q.mokutil),
     disk |-> LinuxDisk(q.listed, q.mounts, q.layers),
     remote |-> LinuxRemote(q.services, q.readable, q.listening),
     access |-> LinuxAccess(q.access)]

(* compose_security_info.  A control the machine cannot be asked about does   *)
(* not count: three of the seven can be such.                                 *)
Cost(level) ==
    IF level = "error" THEN 25 ELSE IF level = "warning" THEN 12
    ELSE IF level = "unknown" THEN 5 ELSE 0
CostIfAsked(finding) == IF finding.enabled = "unknown" THEN 0 ELSE Cost(finding.level)

LinuxScore(h) ==
    LET cost == Cost(h.firewall.level) + Cost(h.antivirus.level)
                + (IF h.updates.enabled THEN Cost(h.updates.level) ELSE 0)
                + CostIfAsked(h.boot) + CostIfAsked(h.disk)
                + Cost(h.remote.level) + Cost(h.access.level)
    IN IF cost > 100 THEN 0 ELSE 100 - cost

LinuxOverall(h) ==
    LET score == LinuxScore(h)
    IN IF score >= 80 THEN "Protected" ELSE IF score >= 60 THEN "Needs attention" ELSE "Degraded"

(* The device's card, of the antivirus, the boot, the disk and the access control. *)
Passing(h) ==
    \/ h.antivirus.level = "good" \/ h.boot.enabled = "on" \/ h.disk.enabled = "on"
    \/ h.access.enabled
LinuxDevice(h) ==
    IF /\ h.antivirus.level = "good" /\ h.access.enabled
       /\ h.boot.enabled # "off" /\ h.disk.enabled # "off"
    THEN "Strong" ELSE IF Passing(h) THEN "Okay" ELSE "Degraded"

(* The other three cards: the colour of a finding. *)
Colour(finding) ==
    IF finding.level = "good" THEN "good"
    ELSE IF finding.level \in {"warning", "unknown"} THEN "warning" ELSE "bad"
Cards(h) ==
    [overall |-> LinuxOverall(h), internet |-> Colour(h.firewall),
     updates |-> Colour(h.updates), device |-> LinuxDevice(h), remote |-> Colour(h.remote)]

------------------------------------------------------------------------------
(* _do_update_security_info: a collection that raises leaves cards that say  *)
(* so, and no control on or off.                                             *)
NoCards ==
    [overall |-> "Unavailable", internet |-> "warning", updates |-> "warning",
     device |-> "Unknown", remote |-> "warning"]
Shown(raised, h) == IF raised THEN NoCards ELSE Cards(h)

(* What the assistant is told on Linux: the raw fields, of a collection of its *)
(* own for each of the two; a None is "unknown".                               *)
DefenderForAi(raised, probes) ==
    IF raised THEN [realtime |-> "unknown", enabled |-> "unknown", success |-> FALSE]
    ELSE [realtime |-> Realtime(probes), enabled |-> LinuxAntivirus(probes).enabled,
          success |-> TRUE]
FirewallForAi(raised, probes) ==
    IF raised THEN [enabled |-> "unknown", success |-> FALSE]
    ELSE [enabled |-> LinuxFirewall(probes).enabled, success |-> TRUE]
==============================================================================
