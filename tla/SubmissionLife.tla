--------------------------- MODULE SubmissionLife ---------------------------
(***************************************************************************)
(* What the rest of the system may rely on about one submission: its       *)
(* status and its final version, whatever requests overlap.  The final     *)
(* version is created once, with the step that finalizes a draft, and      *)
(* stays; an organizer's decision may come late, but never without the     *)
(* status it was taken on having been there.                               *)
(* This is what the code does; ADR 0011 promises a reopened submission a   *)
(* new final version (CorrectionsAreFinalized of Submissions).             *)
(***************************************************************************)
VARIABLE life  \* status, final (there is a final version), been (statuses it has had)

Unborn == [status |-> "NONE", final |-> FALSE, been |-> {}]

\* l once it has the status s, with a final version or without.
Turned(l, s, final) == [status |-> s, final |-> final, been |-> l.been \union {s}]

\* The lives that may come right after l.
After(l) ==
    IF l.status = "NONE"
    THEN {Turned(l, "DRAFT", FALSE)}
    ELSE UNION {
        IF l.status = "DRAFT" /\ ~l.final
        THEN {Turned(l, "FINALIZED", TRUE)} ELSE {},
        {Turned(l, "DISQUALIFIED", l.final)},
        IF "FINALIZED" \in l.been THEN {Turned(l, "DRAFT", l.final)} ELSE {},
        IF "DISQUALIFIED" \in l.been THEN {Turned(l, "FINALIZED", l.final)} ELSE {}}

Init == life = Unborn

Next == life' \in After(life)

Spec == Init /\ [][Next]_life
=============================================================================
