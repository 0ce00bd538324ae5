------------------------- MODULE PublicationPromise -------------------------
(* What the outbox promises about one Requirement: its pull request is      *)
(* opened at most once, while the slot is held; it is closed by the         *)
(* platform or a person, merged by a person; and the slot is given back     *)
(* only when it is merged, or cancelled with nothing left open.             *)

VARIABLES pr, cancelled, held

vars == <<pr, cancelled, held>>

Init == pr = "absent" /\ cancelled = FALSE /\ held = TRUE

Open ==
    /\ pr = "absent" /\ held
    /\ pr' = "open"
    /\ UNCHANGED <<cancelled, held>>

End ==
    /\ pr = "open"
    /\ pr' \in {"closed", "merged"}
    /\ UNCHANGED <<cancelled, held>>

Cancel ==
    /\ cancelled' = TRUE
    /\ UNCHANGED <<pr, held>>

Release ==
    /\ held /\ held' = FALSE
    /\ pr = "merged" \/ (cancelled /\ pr # "open")
    /\ UNCHANGED <<pr, cancelled>>

Next == Open \/ End \/ Cancel \/ Release

Spec == Init /\ [][Next]_vars

=============================================================================
