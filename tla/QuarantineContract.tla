-------------------------- MODULE QuarantineContract --------------------------
(***************************************************************************)
(* What the quarantine vault promises about bytes, without files, keys,    *)
(* ledger or steps: a file is taken from its path as one action, is held   *)
(* under an id, and leaves by being put back where it came from or by      *)
(* being destroyed on request.                                             *)
(***************************************************************************)
CONSTANTS Files, Contents, Ids, Absent, Damaged

VARIABLES
  disk,    \* what each path holds
  held,    \* what each id holds: path and bytes, or Nothing
  spent    \* ids whose bytes have been let go

vars == <<disk, held, spent>>
Nothing == [path |-> Absent, bytes |-> Absent]
Free(i) == held[i] = Nothing /\ i \notin spent

Init ==
  /\ disk \in [Files -> Contents \cup {Absent}]
  /\ held = [i \in Ids |-> Nothing]
  /\ spent = {}

Hold(f, i) ==
  /\ Free(i)
  /\ disk[f] # Absent
  /\ held' = [held EXCEPT ![i] = [path |-> f, bytes |-> disk[f]]]
  /\ UNCHANGED spent

\* Exactly the bytes held are removed, in the same step.
Take(f, i) == Hold(f, i) /\ disk' = [disk EXCEPT ![f] = Absent]

\* The original could not be removed: the id holds a copy.
Copy(f, i) == Hold(f, i) /\ UNCHANGED disk

Release(i) ==
  /\ held[i] # Nothing
  /\ held' = [held EXCEPT ![i] = Nothing]
  /\ spent' = spent \cup {i}

GiveBack(i) ==
  Release(i) /\ disk' = [disk EXCEPT ![held[i].path] = held[i].bytes]

Destroy(i) == Release(i) /\ UNCHANGED disk

\* Giving back failed half-way: the id still holds the bytes.
Spoil(i) ==
  /\ held[i] # Nothing
  /\ disk' = [disk EXCEPT ![held[i].path] = Damaged]
  /\ UNCHANGED <<held, spent>>

Arrive(f, b) ==
  /\ disk[f] = Absent
  /\ disk' = [disk EXCEPT ![f] = b]
  /\ UNCHANGED <<held, spent>>

Next ==
  \/ \E f \in Files, i \in Ids : Take(f, i) \/ Copy(f, i)
  \/ \E i \in Ids : GiveBack(i) \/ Destroy(i) \/ Spoil(i)
  \/ \E f \in Files, b \in Contents : Arrive(f, b)

Spec == Init /\ [][Next]_vars
===============================================================================
