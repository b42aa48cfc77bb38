------------------------------ MODULE Exports ------------------------------
(***************************************************************************)
(* One requested export: the handler that generates the file and puts it   *)
(* into the object store, and the removal of the export by a member or by  *)
(* the retention sweep.                                                    *)
(*                                                                         *)
(* The row is read and marked PROCESSING in one READ COMMITTED transaction *)
(* without a lock, every later update is by id, and the file has the same  *)
(* key in every run.                                                       *)
(***************************************************************************)
EXTENDS HandledJob

CONSTANT
    Faults  \* "crash", "db" (a transaction fails), "provider" (the object store
            \* fails), "cancel" (exports are removed)

VARIABLES
    status,    \* data_export.status, or NONE when the row is removed
    hasKey,    \* storage_key and expires_at are set
    file,      \* the object is in the store
    cleaning,  \* what a removal or the retention sweep does next
    step,      \* what the handler in a slot does next
    overrun,   \* history: two runs have generated the export at the same time
    unlinked   \* history: a removal has deleted the file

exportVars == <<status, hasKey, file>>
vars == <<jobVars, exportVars, cleaning, step, overrun, unlinked>>

Working == {"mark", "generate", "upload", "complete", "fail"}

TypeOK ==
    /\ JobTypeOK
    /\ status \in {"PENDING", "PROCESSING", "COMPLETED", "FAILED", "NONE"}
    /\ hasKey \in BOOLEAN
    /\ file \in BOOLEAN
    /\ cleaning \in {"idle", "remove", "sweep", "row"}
    /\ step \in [Workers -> {"idle", "check", "skip", "return", "throw"} \cup Working]
    /\ overrun \in BOOLEAN
    /\ unlinked \in BOOLEAN

Init ==
    /\ JobInit
    /\ status = "PENDING"
    /\ hasKey = FALSE
    /\ file = FALSE
    /\ cleaning = "idle"
    /\ step = [w \in Workers |-> "idle"]
    /\ overrun = FALSE
    /\ unlinked = FALSE

-----------------------------------------------------------------------------
(* handleExportRequested.                                                  *)

Goto(w, s) == step' = [step EXCEPT ![w] = s]

StartHandler(w) ==
    /\ TakeJob(w)
    /\ Goto(w, "check")
    /\ UNCHANGED <<exportVars, cleaning, overrun, unlinked>>

IsDue == status = "PENDING"

\* Only an export that is still PENDING is generated; the others are skipped.
CheckPending(w) ==
    /\ step[w] = "check"
    /\ Goto(w, IF IsDue THEN "mark" ELSE "skip")
    /\ UNCHANGED <<jobVars, exportVars, cleaning, overrun, unlinked>>

\* The update of a row that has been removed throws.
MarkProcessing(w) ==
    /\ step[w] = "mark"
    /\ \/ /\ status # "NONE"
          /\ status' = "PROCESSING"
          /\ Goto(w, "generate")
          /\ overrun' = (overrun \/ \E v \in Workers \ {w} : step[v] \in Working)
       \/ /\ status = "NONE"
          /\ Goto(w, "throw")
          /\ UNCHANGED <<status, overrun>>
    /\ UNCHANGED <<jobVars, hasKey, file, cleaning, unlinked>>

\* The transaction around the two fails; the handler does not catch it.
CheckFails(w) ==
    /\ "db" \in Faults
    /\ step[w] \in {"check", "mark"}
    /\ Goto(w, "throw")
    /\ UNCHANGED <<jobVars, exportVars, cleaning, overrun, unlinked>>

\* The row is read again; without it the query throws into the catch block.
Generate(w) ==
    /\ step[w] = "generate"
    /\ \/ status # "NONE" /\ Goto(w, "upload")
       \/ (status = "NONE" \/ "db" \in Faults) /\ Goto(w, "fail")
    /\ UNCHANGED <<jobVars, exportVars, cleaning, overrun, unlinked>>

\* Mutant: the upload is not waited for.
UploadLater(w) ==
    /\ step[w] = "upload"
    /\ Goto(w, "complete")
    /\ UNCHANGED <<jobVars, exportVars, cleaning, overrun, unlinked>>

\* putObject may fail before or after the store has taken the file.
Upload(w) ==
    /\ step[w] = "upload"
    /\ \/ file' = TRUE /\ Goto(w, "complete")
       \/ "provider" \in Faults /\ file' \in {file, TRUE} /\ Goto(w, "fail")
    /\ UNCHANGED <<jobVars, status, hasKey, cleaning, overrun, unlinked>>

Complete(w) ==
    /\ step[w] = "complete"
    /\ \/ /\ status # "NONE"
          /\ status' = "COMPLETED" /\ hasKey' = TRUE
          /\ Goto(w, "return")
       \/ /\ status = "NONE" \/ "db" \in Faults
          /\ Goto(w, "fail")
          /\ UNCHANGED <<status, hasKey>>
    /\ UNCHANGED <<jobVars, file, cleaning, overrun, unlinked>>

\* The catch block; its own update may fail too.
Fail(w) ==
    /\ step[w] = "fail"
    /\ \/ status # "NONE" /\ status' = "FAILED"
       \/ (status = "NONE" \/ "db" \in Faults) /\ UNCHANGED status
    /\ Goto(w, "throw")
    /\ UNCHANGED <<jobVars, hasKey, file, cleaning, overrun, unlinked>>

Leave(w) == Goto(w, "idle") /\ UNCHANGED <<exportVars, cleaning, overrun, unlinked>>

HandlerReturns(w) == step[w] \in {"skip", "return"} /\ Acknowledge(w) /\ Leave(w)

HandlerThrows(w) ==
    /\ \/ step[w] = "throw"
       \/ step[w] \in {"skip", "return"} /\ "db" \in Faults
    /\ Throw(w)
    /\ Leave(w)

HandlerCrashes(w) == "crash" \in Faults /\ Crash(w) /\ Leave(w)

-----------------------------------------------------------------------------
(* Removal: by a member, whatever the status, or by the sweep once the     *)
(* export has expired.                                                     *)

\* The row is read in a transaction of its own.
BeginRemoval ==
    /\ "cancel" \in Faults
    /\ cleaning = "idle"
    /\ status # "NONE"
    /\ \/ cleaning' = IF hasKey THEN "remove" ELSE "row"
       \/ hasKey /\ cleaning' = "sweep"
    /\ UNCHANGED <<jobVars, exportVars, step, overrun, unlinked>>

\* deleteObject; the sweep goes on when it fails, a member's request does not.
DeleteFile ==
    /\ cleaning \in {"remove", "sweep"}
    /\ \/ /\ file' = FALSE /\ unlinked' = TRUE /\ cleaning' = "row"
       \/ /\ "provider" \in Faults
          /\ cleaning' = IF cleaning = "sweep" THEN "row" ELSE "idle"
          /\ UNCHANGED <<file, unlinked>>
    /\ UNCHANGED <<jobVars, status, hasKey, step, overrun>>

DeleteRow ==
    /\ cleaning = "row"
    /\ \/ status' = "NONE" /\ hasKey' = FALSE
       \/ "db" \in Faults /\ UNCHANGED <<status, hasKey>>
    /\ cleaning' = "idle"
    /\ UNCHANGED <<jobVars, file, step, overrun, unlinked>>

-----------------------------------------------------------------------------
Handle(w) ==
    \/ CheckPending(w) \/ MarkProcessing(w) \/ CheckFails(w)
    \/ Generate(w) \/ Upload(w) \/ Complete(w) \/ Fail(w)
    \/ HandlerReturns(w) \/ HandlerThrows(w)

Next ==
    \/ \E w \in Workers : StartHandler(w) \/ Handle(w) \/ HandlerCrashes(w)
    \/ QueueStep /\ UNCHANGED <<exportVars, cleaning, step, overrun, unlinked>>
    \/ BeginRemoval \/ DeleteFile \/ DeleteRow

Spec == Init /\ [][Next]_vars

-----------------------------------------------------------------------------
(* Properties.                                                             *)

\* A completed export has its file in the store until a removal deletes it.
CompletedHasFile == (status = "COMPLETED" /\ ~unlinked) => file

\* "the PENDING-status guard below skips a delivery that already completed"
\* (export-events.handler.ts).
SkippedIsCompleted == \A w \in Workers : step[w] = "skip" => status \in {"COMPLETED", "NONE"}

=============================================================================
