------------------------------ MODULE RtpMonitor ------------------------------
(***************************************************************************)
(* The monitor thread of real-time protection, RealTimeProtectionWorker in *)
(* backend/core/realtime_protection.py, among the processes it watches.    *)
(*                                                                         *)
(* On Windows it takes process-creation events from WMI one by one; on     *)
(* Linux it lists the processes over and over and looks at the pids it has *)
(* not seen.  Either way one process is handled at a time: a cached verdict*)
(* or a scan of the executable's file, then a kill, then the quarantine of *)
(* the file.  Meanwhile processes start and end, pids are used again, and  *)
(* files are replaced, so what was looked at may not be what is acted on.  *)
(***************************************************************************)
EXTENDS Naturals, Sequences

CONSTANTS
  Platform,    \* "windows" or "linux"
  Pids, Paths, \* process ids and paths of executables
  Versions,    \* contents of an executable, and their fingerprints
  Bad,         \* the versions a scan decides to block
  Strong,      \* those of them with corroborating evidence
  Trustable,   \* paths the user may put on the whitelist
  Protected,   \* paths of which the plan only logs (guardrails)
  Opaque,      \* paths whose processes do not let their path be read
  SwapAt,      \* where in its work files may be replaced under the monitor
  QuickReuse,  \* may a pid be used again before the next listing is done
  Faults,      \* {"scan", "poll"} or less
  MaxEvents,   \* bound on the undelivered events
  Missing, Gone, NoEntry

Labels == {"idle", "look", "check", "scan", "stamp", "act", "vault"}

Target == [pid : Pids, path : Paths]
Verdict == [code : {"block", "allow", "failed"}, of : Versions, raced : BOOLEAN]
Entry == [decision : Verdict, fp : Versions \cup {Missing}]

ASSUME VersionsAssumption == Strong \subseteq Bad /\ Bad \subseteq Versions
ASSUME PathsAssumption == 
  Protected \subseteq Paths /\ Trustable \subseteq Paths /\ Opaque \subseteq Paths
ASSUME WorldAssumption ==
  /\ Platform \in {"windows", "linux"}
  /\ SwapAt \subseteq Labels
  /\ QuickReuse \in BOOLEAN
  /\ Faults \subseteq {"scan", "poll"}
  /\ MaxEvents \in Nat
ASSUME SentinelAssumption ==
  /\ Missing \notin Versions
  /\ Gone \notin Paths \cup Verdict

VARIABLES
  disk,      \* the version at each path
  proc,      \* the process of each pid: the path it runs
  trusted,   \* the user whitelist
  events,    \* Windows: creation events not yet delivered
  seen,      \* Linux: seen_pids
  listed,    \* Linux: pids of this listing still to be looked at
  present,   \* Linux: current_pids
  pc,
  target,    \* the process being handled
  mark,      \* the fingerprint taken before the scan
  verdict,   \* the decision: its action, the version it was made from, and
             \* (history) whether the file was replaced since
  cache,     \* _scan_cache
  born,      \* history: pids whose process has not been looked at
  due,       \* history: those born before this listing began
  betrayed   \* history: trusted paths for which a process was killed since
             \* they were trusted

world == <<disk, proc, trusted, events>>
listing == <<seen, listed, present>>
work == <<target, mark, verdict>>
births == <<born, due>>
vars == <<world, listing, pc, work, cache, births, betrayed>>

Init ==
  /\ disk \in [Paths -> Versions]
  /\ proc = [p \in Pids |-> Gone]
  /\ trusted = {}
  /\ events = <<>>
  /\ seen = {} /\ listed = {} /\ present = {}
  /\ pc = "idle"
  /\ target = Gone /\ mark = Gone /\ verdict = Gone
  /\ cache = [x \in Paths |-> NoEntry]
  /\ born = {} /\ due = {}
  /\ betrayed = {}

Live == {p \in Pids : proc[p] # Gone}

(* Handle process p at path x. *)
Take(p, x) ==
  /\ pc' = "check"
  /\ target' = [pid |-> p, path |-> x]
  /\ UNCHANGED <<mark, verdict>>

(* Done with one process, on to the next. *)
Resume ==
  /\ pc' = IF Platform = "linux" THEN "look" ELSE "idle"
  /\ target' = Gone /\ mark' = Gone /\ verdict' = Gone

(* The verdict at hand is a cached one: no fingerprint was taken for it. *)
Cached == mark = Gone

(* What a complete scan of a version decides. *)
Judge(v) ==
  [code |-> IF v \in Bad THEN "block" ELSE "allow", of |-> v, raced |-> FALSE]

(* A scan that failed allows.                                               *)
Failed(v) == [code |-> "failed", of |-> v, raced |-> FALSE]

(* Only a block is acted upon. *)
Decide(d) ==
  \/ d.code = "block" /\ pc' = "act" /\ verdict' = d /\ UNCHANGED <<target, mark>>
  \/ d.code # "block" /\ Resume

-----------------------------------------------------------------------------
(* Slips: wrong versions of definitions below, for the mutation runs only.  *)

\* A cached verdict kills, too, when the path of the process is not readable.
KillSlip ==
  /\ pc = "act"
  /\ target.path \notin Protected
  /\ proc[target.pid] # Gone
  /\ proc[target.pid] \in Opaque \cup {target.path}
  /\ proc' = [proc EXCEPT ![target.pid] = Gone]
  /\ betrayed' = betrayed \cup (trusted \cap {target.path})
  /\ born' = born \ {target.pid}
  /\ due' = due \ {target.pid}
  /\ IF verdict.of \in Strong THEN pc' = "vault" /\ UNCHANGED work ELSE Resume
  /\ UNCHANGED <<disk, trusted, events, listing, cache>>

\* The entry keeps the fingerprint taken before the scan.
StampSlip ==
  /\ pc = "stamp"
  /\ cache' = [cache EXCEPT ![target.path] =
                 [decision |-> verdict, fp |-> mark]]
  /\ Decide(verdict)
  /\ UNCHANGED <<world, listing, births, betrayed>>

\* The fingerprint of the file is not compared with the entry's.
CacheHitSlip ==
  /\ pc = "check"
  /\ cache[target.path] # NoEntry
  /\ Decide(cache[target.path].decision)
  /\ UNCHANGED <<world, listing, cache, births, betrayed>>

\* The pids are listed a second time to prune.
PollEndSlip ==
  /\ pc = "look" /\ Platform = "linux"
  /\ listed = {}
  /\ seen' = Live
  /\ pc' = "idle"
  /\ UNCHANGED <<world, listed, present, work, cache, births, betrayed>>

\* The whitelist is consulted for names only.
TakeEventSlip(p, x) ==
  /\ disk[x] # Missing
  /\ Take(p, x)

\* Events that queued up during a scan are dropped.
NextEventSlip ==
  LET e == Head(events) IN
  /\ pc = "idle" /\ events # <<>>
  /\ events' = <<>>
  /\ born' = born \ {e.pid}
  /\ Take(e.pid, e.path)
  /\ UNCHANGED <<disk, proc, trusted, listing, cache, due, betrayed>>

-----------------------------------------------------------------------------
(* The world. *)
Spawn(p, x) ==
  /\ proc[p] = Gone /\ disk[x] # Missing
  /\ QuickReuse \/ p \notin seen
  /\ Platform = "windows" => Len(events) < MaxEvents
  /\ proc' = [proc EXCEPT ![p] = x]
  /\ born' = born \cup {p}
  /\ events' = IF Platform = "windows"
               THEN Append(events, [pid |-> p, path |-> x]) ELSE events
  /\ UNCHANGED <<disk, trusted, listing, pc, work, cache, due, betrayed>>

Exit(p) ==
  /\ proc[p] # Gone
  /\ proc' = [proc EXCEPT ![p] = Gone]
  /\ born' = born \ {p}
  /\ due' = due \ {p}
  /\ UNCHANGED <<disk, trusted, events, listing, pc, work, cache, betrayed>>

Swap(x, v) ==
  /\ pc \in SwapAt /\ disk[x] # v
  /\ disk' = [disk EXCEPT ![x] = v]
  /\ verdict' = IF verdict # Gone /\ x = target.path
                THEN [verdict EXCEPT !.raced = TRUE] ELSE verdict
  /\ UNCHANGED <<proc, trusted, events, listing, pc, target, mark, cache, births,
                 betrayed>>

(* addUserWhitelistEntry and removeUserWhitelistEntry replace the worker's  *)
(* set at once.                                                             *)
Trust(x) ==
  /\ trusted' \in {trusted \cup {x}, trusted \ {x}}
  /\ trusted' # trusted
  /\ betrayed' = betrayed \ {x}
  /\ UNCHANGED <<disk, proc, events, listing, pc, work, cache, births>>

-----------------------------------------------------------------------------
(* Windows: the next creation event.  Trusted processes are skipped, and so *)
(* are those whose file is gone; an opaque one may come without its path.   *)
TakeEvent(p, x) ==
  /\ x \notin trusted /\ disk[x] # Missing
  /\ Take(p, x)

NextEvent ==
  /\ pc = "idle" /\ events # <<>>
  /\ events' = Tail(events)
  /\ born' = IF \E i \in DOMAIN Tail(events) : Tail(events)[i].pid = Head(events).pid
             THEN born ELSE born \ {Head(events).pid}
  /\ LET e == Head(events) IN
       \/ TakeEvent(e.pid, e.path)
       \/ /\ e.path \in trusted \cup Opaque \/ disk[e.path] = Missing
          /\ UNCHANGED <<pc, work>>
  /\ UNCHANGED <<disk, proc, trusted, listing, cache, due, betrayed>>

(* Linux: list the pids, then look at each as it is by then.                *)
PollStart ==
  /\ pc = "idle" /\ Platform = "linux"
  /\ pc' = "look"
  /\ listed' = Live
  /\ present' = {}
  /\ due' = born
  /\ UNCHANGED <<world, seen, work, cache, born, betrayed>>

LookOld(p) ==
  /\ pc = "look" /\ p \in listed
  /\ proc[p] = Gone \/ p \in seen
  /\ listed' = listed \ {p}
  /\ present' = IF proc[p] = Gone THEN present ELSE present \cup {p}
  /\ UNCHANGED <<world, seen, pc, work, cache, births, betrayed>>

LookNew(p) ==
  /\ pc = "look" /\ p \in listed
  /\ proc[p] # Gone /\ p \notin seen
  /\ listed' = listed \ {p}
  /\ present' = present \cup {p}
  /\ seen' = seen \cup {p}
  /\ born' = born \ {p}
  /\ due' = due \ {p}
  /\ LET x == proc[p] IN
       \/ x \notin Opaque /\ disk[x] # Missing /\ Take(p, x)
       \/ (x \in Opaque \/ disk[x] = Missing) /\ UNCHANGED <<pc, work>>
  /\ UNCHANGED <<world, cache, betrayed>>

(* Exited pids are forgotten at the end of a listing; a listing that breaks *)
(* off forgets nothing.                                                     *)
PollEnd ==
  /\ pc = "look" /\ listed = {}
  /\ seen' = seen \cap present
  /\ pc' = "idle"
  /\ UNCHANGED <<world, listed, present, work, cache, births, betrayed>>

PollBreaks ==
  /\ "poll" \in Faults
  /\ pc = "look"
  /\ listed' = {}
  /\ due' = {}
  /\ pc' = "idle"
  /\ UNCHANGED <<world, seen, present, work, cache, born, betrayed>>

-----------------------------------------------------------------------------
(* _get_cached_scan_entry: an entry counts while the file's fingerprint is  *)
(* the entry's, and is dropped otherwise.                                   *)
Matches(x) == cache[x] # NoEntry /\ cache[x].fp = disk[x]

CacheHit ==
  /\ pc = "check"
  /\ Matches(target.path)
  /\ Decide(cache[target.path].decision)
  /\ UNCHANGED <<world, listing, cache, births, betrayed>>

CacheMiss ==
  /\ pc = "check"
  /\ ~Matches(target.path)
  /\ cache' = [cache EXCEPT ![target.path] = NoEntry]
  /\ mark' = disk[target.path]
  /\ pc' = "scan"
  /\ UNCHANGED <<world, listing, target, verdict, births, betrayed>>

(* scan_file reads the file; its errors give a decision that allows.        *)
Scan ==
  LET v == disk[target.path] IN
  /\ pc = "scan"
  /\ \/ verdict' = Judge(v)
     \/ "scan" \in Faults /\ verdict' = Failed(v)
  /\ pc' = "stamp"
  /\ UNCHANGED <<world, listing, target, mark, cache, births, betrayed>>

(* The fingerprint is taken when the scan has returned, and the decision    *)
(* cached under it.                                                         *)
Stamp ==
  /\ pc = "stamp"
  /\ cache' = [cache EXCEPT ![target.path] =
                 [decision |-> verdict, fp |-> disk[target.path]]]
  /\ Decide(verdict)
  /\ UNCHANGED <<world, listing, births, betrayed>>

(* A scan that raises is cached too, under the fingerprint taken before it. *)
ScanRaises ==
  /\ "scan" \in Faults
  /\ pc = "scan"
  /\ cache' = [cache EXCEPT ![target.path] =
                 [decision |-> Failed(mark), fp |-> mark]]
  /\ Resume
  /\ UNCHANGED <<world, listing, births, betrayed>>

-----------------------------------------------------------------------------
(* _apply_enforcement. *)
LogOnly ==
  /\ pc = "act"
  /\ target.path \in Protected
  /\ Resume
  /\ UNCHANGED <<world, listing, cache, births, betrayed>>

(* The pid must still run the same executable.  Where its path cannot be    *)
(* read the name alone decides, unless the verdict is a cached one.  (The   *)
(* paths of the model all end in the same name.)                            *)
Kill ==
  /\ pc = "act"
  /\ target.path \notin Protected
  /\ proc[target.pid] # Gone
  /\ LET live == proc[target.pid] IN
       \/ live \in Opaque /\ ~Cached
       \/ live \notin Opaque /\ live = target.path
  /\ proc' = [proc EXCEPT ![target.pid] = Gone]
  /\ betrayed' = betrayed \cup (trusted \cap {target.path})
  /\ born' = born \ {target.pid}
  /\ due' = due \ {target.pid}
  /\ IF verdict.of \in Strong THEN pc' = "vault" /\ UNCHANGED work ELSE Resume
  /\ UNCHANGED <<disk, trusted, events, listing, cache>>

(* It has exited, is another by now, cannot be verified, or access to it is *)
(* denied: the file is left alone too.                                      *)
KillFails ==
  /\ pc = "act"
  /\ target.path \notin Protected
  /\ Resume
  /\ UNCHANGED <<world, listing, cache, births, betrayed>>

Quarantine ==
  /\ pc = "vault" /\ disk[target.path] # Missing
  /\ disk' = [disk EXCEPT ![target.path] = Missing]
  /\ Resume
  /\ UNCHANGED <<proc, trusted, events, listing, cache, births, betrayed>>

QuarantineFails ==
  /\ pc = "vault"
  /\ Resume
  /\ UNCHANGED <<world, listing, cache, births, betrayed>>

-----------------------------------------------------------------------------
World ==
  \/ \E p \in Pids : Exit(p) \/ (\E x \in Paths : Spawn(p, x))
  \/ \E x \in Trustable : Trust(x)
  \/ \E x \in Paths, v \in Versions : Swap(x, v)

Worker ==
  \/ NextEvent
  \/ PollStart \/ PollEnd \/ PollBreaks
  \/ \E p \in Pids : LookOld(p) \/ LookNew(p)
  \/ CacheHit \/ CacheMiss \/ Scan \/ ScanRaises \/ Stamp
  \/ LogOnly \/ Kill \/ KillFails \/ Quarantine \/ QuarantineFails

Next == World \/ Worker

Spec == Init /\ [][Next]_vars

(* The thread runs for as long as protection is on (RtpBridge). *)
FairSpec == Spec /\ WF_vars(Worker)

-----------------------------------------------------------------------------
TypeOK ==
  /\ disk \in [Paths -> Versions \cup {Missing}]
  /\ proc \in [Pids -> Paths \cup {Gone}]
  /\ trusted \subseteq Paths
  /\ events \in Seq([pid : Pids, path : Paths])
  /\ seen \subseteq Pids /\ listed \subseteq Pids /\ present \subseteq Pids
  /\ pc \in Labels
  /\ target \in Target \cup {Gone}
  /\ mark \in Versions \cup {Gone}
  /\ verdict \in Verdict \cup {Gone}
  /\ cache \in [Paths -> Entry \cup {NoEntry}]
  /\ born \subseteq Pids /\ due \subseteq Pids
  /\ betrayed \subseteq Paths

(* The inductive invariant behind the properties.  What the monitor holds   *)
(* at each point of its work; that blocks come from bad versions; and that  *)
(* the verdict and the cache speak of the file that is there, unless it was *)
(* replaced behind a verdict already made.                                  *)
Handling == {"check", "scan", "stamp", "act", "vault"}

WorkIsHeld ==
  /\ pc = "look" => Platform = "linux"
  /\ pc \in Handling => target \in Target /\ disk[target.path] # Missing
  /\ pc = "scan" => mark \in Versions
  /\ IF pc \in {"stamp", "act", "vault"}
     THEN verdict \in Verdict ELSE verdict = Gone
  /\ pc \in {"act", "vault"} => verdict.code = "block"

BlocksAreBad ==
  /\ pc \in {"stamp", "act", "vault"} /\ verdict.code = "block"
       => verdict.of \in Bad
  /\ \A x \in Paths : cache[x] # NoEntry /\ cache[x].decision.code = "block"
                        => cache[x].decision.of \in Bad

VerdictIsCurrent ==
  /\ pc \in {"stamp", "act", "vault"} /\ ~verdict.raced
       => verdict.of = disk[target.path]
  /\ \A x \in Paths : cache[x] # NoEntry /\ ~cache[x].decision.raced
                        => cache[x].fp = cache[x].decision.of
  /\ "stamp" \notin SwapAt =>
       /\ pc = "stamp" => ~verdict.raced
       /\ \A x \in Paths : cache[x] # NoEntry => ~cache[x].decision.raced

MonitorInv == TypeOK /\ WorkIsHeld /\ BlocksAreBad /\ VerdictIsCurrent

-----------------------------------------------------------------------------
(* The monitor ends process p.                                              *)
Killed(p) == pc' # pc /\ proc[p] # Gone /\ proc'[p] = Gone

(* No process dies for another's sins: what is killed runs the path it was  *)
(* judged by, and a version of that path was judged bad, however pids are   *)
(* used again between the look and the kill (_execute_process_action).  The *)
(* one exception: a fresh verdict also kills what hides its path and has    *)
(* the name.                                                                *)
KillsAreJustified ==
  [][\A p \in Pids : Killed(p) =>
       /\ verdict.of \in Bad
       /\ \/ proc[p] = target.path
          \/ proc[p] \in Opaque /\ ~Cached]_vars

(* An entry whose fingerprint matches the file was made from that file:     *)
(* _get_cached_scan_entry, "Return a cache entry only when the on-disk      *)
(* binary still matches".                                                   *)
CacheIsTruthful ==
  \A x \in Paths : Matches(x) => cache[x].decision.of = disk[x]

(* A listing misses nobody: when one is complete, every process that was    *)
(* there when it began and is still there has been looked at (seen_pids     *)
(* and its pruning).                                                        *)
PollsAreComplete == pc = "idle" => due = {}

(* Why, where a pid is not used again too soon: those who are due are still *)
(* to be looked at in this listing, because whoever was not looked at is    *)
(* alive and not among seen_pids.                                           *)
UnseenAreListed ==
  /\ \A p \in born : proc[p] # Gone /\ (Platform = "linux" => p \notin seen)
  /\ due \subseteq born
  /\ pc = "idle" \/ Platform = "windows" => due = {}
  /\ pc # "idle" => due \subseteq listed

(* A kill for a trusted path is a late one: the process whose event was     *)
(* taken before the user trusted the path (run looks at the whitelist only  *)
(* then, addUserWhitelistEntry changes it at any time).  So it is one: as   *)
(* long as a path stays trusted, no second process is killed for it.        *)
OneKillOutlivesTrust ==
  [][\A p \in Pids : Killed(p) => target.path \notin betrayed]_vars

(* Why, on Windows: who is being handled when a path is trusted is the last *)
(* to be handled for it, and a kill is all that counts against the trust.   *)
TrustIsHeard ==
  /\ betrayed \subseteq trusted
  /\ pc \in Handling \ {"vault"} => target.path \notin betrayed

(* The file that goes to quarantine is the version the verdict was made     *)
(* from, cached or not, or the file was replaced behind the verdict: after  *)
(* the scan had read it (_apply_enforcement, _execute_file_action).         *)
VaultTakesTheJudged ==
  [][\A x \in Paths : disk[x] # Missing /\ disk'[x] = Missing =>
       verdict.raced \/ disk[x] = verdict.of]_vars

(* Every new process is looked at in the end, or has exited.                *)
EveryoneIsLookedAt == \A p \in Pids : (p \in born) ~> (p \notin born)
===============================================================================
