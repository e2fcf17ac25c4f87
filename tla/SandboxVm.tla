------------------------------ MODULE SandboxVm ------------------------------
(***************************************************************************)
(* The VMware guest that detonations run in, and the vmrun commands of     *)
(* src/backend/engines/sandbox_vmware/vmrun_client.py that change it.      *)
(*                                                                         *)
(* A guest is told apart by two things: whether it is powered on, and      *)
(* which jobs have put a sample, a script or a browser into it since the   *)
(* clean snapshot.  _run raises VmrunError for a non-zero return code and  *)
(* for a timeout alike, so a command that failed may still have had its    *)
(* effect: a step that fails leaves either guest.                          *)
(***************************************************************************)
EXTENDS Naturals, FiniteSets

CONSTANT Jobs          \* identities of the runs that use the guest

Guests == [on : BOOLEAN, holds : SUBSET Jobs]

CleanGuest == [on |-> FALSE, holds |-> {}]

(* What a command does to guest g when vmrun carries it out. *)
Reverted(g)     == CleanGuest
Started(g)      == [g EXCEPT !.on = TRUE]
Stopped(g)      == [g EXCEPT !.on = FALSE]
Loaded(g, j)    == [g EXCEPT !.holds = @ \cup {j}]

(* The guests one vmrun command can leave: ok is whether _run returned. *)
After(g, effect, ok) == IF ok THEN {effect} ELSE {g, effect}

IsClean(g) == g = CleanGuest
==============================================================================
