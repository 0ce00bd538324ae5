----------------------------- MODULE WriterSlot -----------------------------
(***************************************************************************)
(* What the execution core promises, without its mechanism: one Requirement*)
(* holds the slot; its Runs are opened one after the other, each only after*)
(* its predecessor was proved stopped; a Run starts at most once and ends  *)
(* for good; no two Runs are ever active together; the slot changes hands  *)
(* only when everything opened is proved stopped.                          *)
(* docs/execution-control.md states these promises, run_store.rs,          *)
(* coordinator.rs, process.rs and delivery_control.rs keep them.           *)
(***************************************************************************)
CONSTANTS Requirements, Runs, None

VARIABLES
    holder,     \* the Requirement in the slot
    opened,     \* Runs that were ever reserved
    active,     \* Runs with a living process
    ended,      \* Runs that can never start (again)
    proved      \* Runs whose stop is a recorded fact

slot == <<holder, opened, active, ended, proved>>

SlotInit == holder = None /\ opened = {} /\ active = {} /\ ended = {} /\ proved = {}

Quiet == opened \subseteq proved

Open(r) ==      \* under the present holder or, the slot being free, a new one
    /\ Quiet /\ r \notin opened
    /\ opened' = opened \cup {r}
    /\ holder' \in (IF holder = None THEN Requirements ELSE {holder})
    /\ UNCHANGED <<active, ended, proved>>

Start(r) ==
    /\ active = {} /\ r \in opened /\ r \notin ended \cup proved
    /\ active' = {r}
    /\ UNCHANGED <<holder, opened, ended, proved>>

Finish(r) ==    \* its processes die, or it is refused before it had any
    /\ r \in opened \ ended
    /\ active' = active \ {r} /\ ended' = ended \cup {r}
    /\ UNCHANGED <<holder, opened, proved>>

Prove(r) ==     \* a stop proof exists only for what has ended
    /\ r \in opened /\ r \notin active
    /\ proved' = proved \cup {r} /\ ended' = ended \cup {r}
    /\ UNCHANGED <<holder, opened, active>>

Release ==
    /\ Quiet /\ holder # None
    /\ holder' = None
    /\ UNCHANGED <<opened, active, ended, proved>>

SlotNext ==
    \/ \E r \in Runs : Open(r) \/ Start(r) \/ Finish(r) \/ Prove(r)
    \/ Release

SlotSpec == SlotInit /\ [][SlotNext]_slot
=============================================================================
