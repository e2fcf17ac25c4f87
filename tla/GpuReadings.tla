------------------------------ MODULE GpuReadings ------------------------------
(***************************************************************************)
(* What the GPU page shows of the machine's cards: the collectors of both  *)
(* telemetry workers (engines/gpu and platform/linux), how their rows are  *)
(* merged, supplemented and normalised in one round, and the chart history *)
(* api/gpu_service.py keeps of them.                                       *)
(*                                                                         *)
(* Functions without state; GpuService has the process and its watchdog.   *)
(* A reading is a number, or Unknown (None in the code); readings below    *)
(* zero are left out, as are texts, versions and the metrics that are      *)
(* handled like those named here.                                          *)
(***************************************************************************)
EXTENDS Integers, Sequences

Unknown == -1
OrZero(reading) == IF reading = Unknown THEN 0 ELSE reading
Percent(part, whole) == (200 * part + whole) \div (2 * whole)

------------------------------------------------------------------------------
(* NVIDIA.  A call of the library answers, raises its own NVMLError, or an   *)
(* error the Windows worker's handlers name; NVMLError is none of those.     *)
Calls == {"answered", "nvml error", "caught"}

(* init_nvidia of either worker: main does not expect it to raise. *)
InitNvidia(call) ==
    IF call = "answered" THEN "enabled" ELSE IF call = "caught" THEN "disabled" ELSE "worker ends"

(* collect_nvidia_metrics, of what the calls a row cannot do without came to; *)
(* on Linux these are the handle and the name alone.                          *)
CardsRead(cards) == {i \in DOMAIN cards : cards[i] = "answered"}
NvidiaOnWindows(cards) ==
    IF \E i \in DOMAIN cards : cards[i] = "nvml error" THEN {} ELSE CardsRead(cards)
NvidiaOnLinux(cards) == CardsRead(cards)

(* The power of a Windows row: more than 500 W is not believed, and the     *)
(* default limit stands in for the limit.                                   *)
Watts(power) == IF power > 500 THEN 0 ELSE OrZero(power)
PowerLimit(limit, default) == IF limit > 0 THEN limit ELSE OrZero(default)
PowerPercent(power, limit, default) ==
    LET effective == PowerLimit(limit, default)
    IN IF effective > 0 THEN Percent(Watts(power), effective) ELSE 0

------------------------------------------------------------------------------
(* AMD and Intel on Windows.  collect_amd_wmi_metrics gives the i-th of the   *)
(* sorted LUIDs to the i-th video controller; collect_intel_metrics gives the *)
(* i-th controller what was counted under the physical index i, from 0.       *)
WmiRow(controller, use, used) ==
    [name |-> controller.name, use |-> use, used |-> used, total |-> controller.ram,
     free |-> IF used > controller.ram THEN 0 ELSE controller.ram - used,
     temp |-> 0, clock |-> 0, fan |-> 0]

OfMaker(maker, controllers) == {i \in DOMAIN controllers : controllers[i].maker = maker}
AmdWmiRows(luids, controllers) ==
    [i \in OfMaker("AMD", controllers) \cap DOMAIN luids |->
        WmiRow(controllers[i], luids[i].use, luids[i].used)]

IntelRows(counted, controllers) ==
    LET of(i) == IF i - 1 \in DOMAIN counted THEN counted[i - 1] ELSE [use |-> 0, used |-> 0]
    IN [i \in OfMaker("Intel", controllers) |->
           WmiRow(controllers[i], of(i).use, of(i).used)]

(* collect_amd_metrics: a row takes what the first adapter of ADL has whose  *)
(* name is contained in its own or contains it (alike), if that is not 0;    *)
(* collect_amd_adl_metrics has 0 for what does not answer or is not there.   *)
AdlRow(device) ==
    [name |-> device.name, use |-> OrZero(device.use), used |-> 0, total |-> 0, free |-> 0,
     temp |-> OrZero(device.temp), clock |-> OrZero(device.clock), fan |-> OrZero(device.fan)]
AdlRows(devices) == [i \in OfMaker("AMD", devices) |-> AdlRow(devices[i])]

Matching(row, adl, alike) == {j \in DOMAIN adl : <<row.name, adl[j].name>> \in alike}
Instead(new, old) == IF new > 0 THEN new ELSE old
FirstOf(hits) == CHOOSE j \in hits : \A k \in hits : j <= k
Taking(row, adapter) ==
    [row EXCEPT !.temp = Instead(adapter.temp, @),
                !.clock = Instead(adapter.clock, @),
                !.fan = Instead(adapter.fan, @)]
Merged(row, adl, alike) ==
    LET hits == Matching(row, adl, alike)
    IN IF hits = {} THEN row ELSE Taking(row, adl[FirstOf(hits)])

AmdOnWindows(wmi, adl, alike) ==
    IF DOMAIN wmi # {} THEN [i \in DOMAIN wmi |-> Merged(wmi[i], adl, alike)] ELSE adl

(* collect_wmic_fallback: names only, every reading 0. *)
WmicRow(name, ram) ==
    [name |-> name, use |-> 0, used |-> 0, total |-> ram, free |-> ram,
     temp |-> 0, clock |-> 0, fan |-> 0]

(* run_with_timeout: leaving the executor's block waits for the call. *)
TimedCall(duration, timeout) ==
    [result |-> IF duration > timeout THEN "default" ELSE "answer", elapsed |-> duration]

------------------------------------------------------------------------------
(* A round of the Windows worker's main: the vendors' rows in order, numbered *)
(* by their place, or the fallback's if there are none.                       *)
Round(nvidia, amd, intel, fallback) ==
    LET rows == nvidia \o amd \o intel IN IF rows = << >> THEN fallback ELSE rows
Place(i) == i - 1

------------------------------------------------------------------------------
(* Linux.  enumerate_drm_cards: the entries that are cards and tell a vendor. *)
DrmCards(entries) ==
    {e \in entries : e.card /\ e.device /\ e.vendor # "unreadable"}

(* collect_amd_sysfs and _collect_card_metrics; memory in MiB.  A card below *)
(* 32 MiB of its own uses the machine's memory, and says so.                 *)
SysfsCards(cards) == {c \in cards : c.vendor = "AMD" /\ c.driver = "amdgpu"}
Dedicated(card) == card.total >= 32
FanPercent(pwm) == IF pwm = Unknown THEN Unknown ELSE (200 * pwm + 255) \div 510
SysfsRow(card) ==
    [vendor |-> "AMD", provider |-> "sysfs",
     total |-> IF Dedicated(card) THEN card.total ELSE Unknown,
     used |-> IF Dedicated(card) THEN card.used ELSE Unknown,
     percent |-> Unknown,
     memory |-> IF Dedicated(card) THEN "unset" ELSE "shared",
     temp |-> IF card.sensors THEN card.temp ELSE Unknown,
     fan |-> IF card.sensors THEN FanPercent(card.pwm) ELSE Unknown]

(* The other rows: of the library, whose readings may each be missing; of     *)
(* nvidia-smi if the library is not there; of the last resorts rocm-smi and   *)
(* the Windows host; and of what is only named.                               *)
NvmlRow(card) ==
    [vendor |-> "NVIDIA", provider |-> "nvml", total |-> card.total, used |-> card.used,
     percent |-> Unknown, memory |-> "unset", temp |-> card.temp, fan |-> card.fan]
SmiRow(line) ==
    [vendor |-> "NVIDIA", provider |-> "smi", total |-> line.total, used |-> line.used,
     percent |-> IF line.total > 0 /\ line.used # Unknown
                 THEN Percent(line.used, line.total) ELSE Unknown,
     memory |-> "unset", temp |-> line.temp, fan |-> line.fan]
NamedRow(vendor) ==
    [vendor |-> vendor, provider |-> "lspci", total |-> Unknown, used |-> Unknown,
     percent |-> Unknown, memory |-> "unset", temp |-> Unknown, fan |-> Unknown]

RocmRow(card) ==
    [NamedRow("AMD") EXCEPT !.provider = "rocm", !.total = card.total, !.used = card.used,
                            !.temp = card.temp]
HostRow(ram) ==
    [NamedRow("AMD") EXCEPT !.provider = "host", !.total = IF ram = 0 THEN Unknown ELSE ram]

(* A line of lspci has the class and the maker of a device.  The words sought *)
(* are sought in all of it, and "compatible", in the class of a VGA           *)
(* controller, contains "ati".                                                *)
LspciClasses == {"vga compatible", "accelerator", "display", "other"}
LspciVendor(line) ==
    IF line.class = "other" THEN "skipped"
    ELSE IF line.maker = "NVIDIA" THEN "NVIDIA"
    ELSE IF line.maker = "AMD" \/ line.class = "vga compatible" THEN "AMD"
    ELSE IF line.maker = "Intel" THEN "Intel" ELSE "skipped"

(* collect_lspci_fallback does not seek "ati". *)
FallbackVendor(line) ==
    IF line.maker \in {"NVIDIA", "AMD", "Intel"} THEN line.maker ELSE "Unknown"

(* _supplement_undetected_gpus: the first card, then the first line, of each  *)
(* vendor that is not there yet.  vendors is what the collectors found.       *)
FromDrm(vendors, drm) ==
    {i \in DOMAIN drm : /\ drm[i].vendor \notin vendors
                        /\ \A j \in 1 .. (i - 1) : drm[j].vendor # drm[i].vendor}
AfterDrm(vendors, drm) == vendors \cup {drm[i].vendor : i \in DOMAIN drm}
FromLspci(vendors, lines) ==
    {i \in DOMAIN lines : /\ LspciVendor(lines[i]) \notin vendors \cup {"skipped"}
                          /\ \A j \in 1 .. (i - 1) : LspciVendor(lines[j]) # LspciVendor(lines[i])}
Supplement(vendors, drm, lines) ==
    {NamedRow(drm[i].vendor) : i \in FromDrm(vendors, drm)}
    \cup {NamedRow(LspciVendor(lines[i])) : i \in FromLspci(AfterDrm(vendors, drm), lines)}

(* The rest of the Linux main: which collectors run, in what order, and the   *)
(* last resorts if there is no row at all.                                    *)
LinuxNvidia(enabled, nvml, smi) == IF enabled THEN nvml ELSE smi
LinuxAmd(sysfs, adlEnabled, adl) ==
    IF sysfs # {} THEN sysfs ELSE IF adlEnabled THEN adl ELSE {}
LinuxRound(collected, supplement, rocm, wmi, lspci) ==
    LET found == collected \cup supplement
    IN IF found # {} THEN found
       ELSE IF rocm # {} THEN rocm ELSE IF wmi # {} THEN wmi ELSE lspci

(* _resolve_display_names: if one name looks virtual, every such name becomes *)
(* the first real one that lshw or glxinfo tells.                             *)
ShownName(name, virtual, wsl, lshw, glx) ==
    LET real == IF lshw # "none" THEN lshw ELSE glx
    IN IF wsl \/ ~virtual \/ real = "none" THEN name ELSE real

------------------------------------------------------------------------------
(* normalise_gpu: every metric has a status beside it.  A reading that is    *)
(* there is ok, one that is not has the provider's default; "shared" is not  *)
(* overridden, and keeps the percentage from being computed.                 *)
DefaultStatus(provider) == IF provider = "lspci" THEN "unsupported" ELSE "unavailable"
Status(reading, preset, provider) ==
    IF preset = "shared" THEN "shared"
    ELSE IF reading # Unknown THEN "ok" ELSE DefaultStatus(provider)

MemPercent(row) ==
    IF row.memory # "shared" /\ row.total > 0 /\ row.used # Unknown
    THEN Percent(row.used, row.total) ELSE row.percent
PercentStatus(row) ==
    IF row.memory # "shared" /\ row.total > 0 /\ row.used # Unknown
    THEN "ok" ELSE Status(row.percent, row.memory, row.provider)
Normalised(row) ==
    [row EXCEPT !.percent = MemPercent(row)]
ProviderStatus(row) == IF row.provider = "lspci" THEN "unsupported" ELSE "ok"

------------------------------------------------------------------------------
(* The service.  _history_sample takes a reading whose status is ok or absent *)
(* (the Windows worker sends none); _update_history appends it to the chart   *)
(* of the row's place, or else the last value again.                          *)
Sample(status, reading) ==
    IF status \in {"absent", "ok"} THEN reading ELSE Unknown
Charted(chart, sample, limit) ==
    LET next == IF sample # Unknown THEN Append(chart, sample)
                ELSE IF chart # << >> THEN Append(chart, chart[Len(chart)]) ELSE chart
    IN IF Len(next) > limit THEN Tail(next) ELSE next

(* getGPUMetrics: the row at a place, or a row of unknowns. *)
Metrics(rows, place) == IF place + 1 \in DOMAIN rows THEN rows[place + 1] ELSE NamedRow("none")
==============================================================================
