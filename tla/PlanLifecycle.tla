--------------------------- MODULE PlanLifecycle ---------------------------
(***************************************************************************)
(* The versions of a trip's plan: the endpoints of trips/views.py that     *)
(* read and write Plan rows, and the worker tasks of agents/tasks.py that  *)
(* fill them.                                                              *)
(*                                                                         *)
(* No row is locked and few operations are one transaction.  A request or  *)
(* a task reads a row, waits for an LLM or a search, and saves: some save  *)
(* the whole row as it was read, some only the fields they set.  The save  *)
(* of a whole row that is gone inserts it again.  A version                *)
(* made from another is inserted as PROCESSING before the work starts, or  *)
(* as DRAFT before its text is written.  Tasks are acknowledged when they  *)
(* start, so a worker that dies loses them.  What is paid is left to       *)
(* module Payments; total_budget is left out, no property looks at it.     *)
(***************************************************************************)
EXTENDS Integers, FiniteSets

CONSTANTS
    Requests,    \* HTTP requests in progress at once
    Tasks,       \* bound: tasks queued or running at once
    MaxVersions, \* bound: Plan rows ever created; ids are given in order
    Terms,       \* what a trip asks for: dates, travellers, destinations
    Candidates,  \* flight candidates in a version's snapshot
    None

Versions == 1 .. MaxVersions
Row == [status : {"processing", "draft", "confirmed"}, terms : Terms \cup {None},
        summary : BOOLEAN, cached : SUBSET Candidates]
Read == [plan : Versions, row : Row, new : Versions \cup {None}, candidate : Candidates \cup {None}]
Job == [kind : {"create", "local", "replan", "budget"}, old : Versions \cup {None},
        new : Versions \cup {None}, terms : Terms \cup {None}, row : Row \cup {None},
        stage : {"queued", "running", "pipeline", "narrate", "summarize"}]

ASSUME PlanAssumption ==
    /\ MaxVersions \in Nat \ {0}
    /\ None \notin Row \cup Terms \cup Requests \cup Tasks \cup Versions
    /\ None \notin Read \cup Job \cup Candidates

VARIABLES
    trip,     \* terms of the TripRequest, None before it is created and while deleted
    plan,     \* plan[v]: the Plan row of version v, None when there is none
    created,  \* how many Plan rows were ever created
    pc, req,  \* where a request is, its version, the version it makes, the row it read
    task,     \* task[t]: a queued or running task, None when there is none
    failed    \* history: PROCESSING versions whose task or request died

vars == <<trip, plan, created, pc, req, task, failed>>

PCs == {"idle", "confirm", "edit", "rollback", "select", "select_save", "select_summary",
        "return_leg", "delete"}

Existing == {v \in Versions : plan[v] # None}

Unfinished(S) == {v \in S \cap Existing : plan[v].status = "processing"}

\* What Plan.objects.create(request=..., edit_request=...) inserts.
Placeholder == [status |-> "processing", terms |-> None, summary |-> FALSE, cached |-> {}]

\* The copy of a version that a rollback, a local edit, a budget edit or a
\* chosen candidate starts from: its itinerary and its candidate snapshot.
CopyOf(row) == [status |-> "draft", terms |-> row.terms, summary |-> FALSE,
                cached |-> row.cached]

-----------------------------------------------------------------------------
Init ==
    /\ trip = None
    /\ plan = [v \in Versions |-> None]
    /\ created = 0
    /\ pc = [w \in Requests |-> "idle"]
    /\ req = [w \in Requests |-> None]
    /\ task = [t \in Tasks |-> None]
    /\ failed = {}

\* The next version is inserted; its foreign key needs the trip to exist.
Insert(row) ==
    /\ trip # None
    /\ created < MaxVersions
    /\ created' = created + 1
    /\ plan' = [plan EXCEPT ![created + 1] = row]

Enqueue(t, kind, old, new, terms) ==
    /\ task[t] = None
    /\ task' = [task EXCEPT ![t] = [kind |-> kind, old |-> old, new |-> new, terms |-> terms,
                                    row |-> None, stage |-> "queued"]]

\* save(): the row is updated, or inserted again if it is gone, which needs the trip.
SaveRow(v, row) ==
    /\ trip # None
    /\ plan' = [plan EXCEPT ![v] = row]

\* A request reads a version and goes on with the row as it read it.
ReadPlan(w, v, to) ==
    /\ pc[w] = "idle"
    /\ v \in Existing
    /\ pc' = [pc EXCEPT ![w] = to]
    /\ req' = [req EXCEPT ![w] = [plan |-> v, row |-> plan[v], new |-> None, candidate |-> None]]

Return(w) ==
    /\ pc' = [pc EXCEPT ![w] = "idle"]
    /\ req' = [req EXCEPT ![w] = None]

-----------------------------------------------------------------------------
(* Faulty variants of the actions below, one per mistake the properties are *)
(* there to catch; no specification uses them.                              *)

\* The whole row is saved, not only the candidates.
SaveReturnLegWholeRow(w) ==
    /\ pc[w] = "return_leg"
    /\ SaveRow(req[w].plan, [req[w].row EXCEPT !.cached = @ \cup {req[w].candidate}])
    /\ Return(w)
    /\ UNCHANGED <<trip, created, task, failed>>

\* The task ends with an error message and leaves its placeholder.
AbortEditWithoutDelete(t) ==
    /\ task[t] # None
    /\ task[t].stage = "running"
    /\ task[t].kind \in {"replan", "budget"}
    /\ task' = [task EXCEPT ![t] = None]
    /\ UNCHANGED <<trip, plan, created, pc, req, failed>>

\* A replan regenerates the version it was asked to change.
SavePipelineInPlace(t) ==
    /\ task[t] # None
    /\ task[t].stage = "pipeline"
    /\ task[t].new \in Existing
    /\ LET v == IF task[t].kind = "replan" THEN task[t].old ELSE task[t].new
       IN  plan' = [plan EXCEPT ![v] = [@ EXCEPT !.status = "draft", !.terms = task[t].terms,
                                                 !.cached = {}]]
    /\ task' = [task EXCEPT ![t] = None]
    /\ UNCHANGED <<trip, created, pc, req, failed>>

\* The title of the confirmed status is saved instead of its value.
SaveConfirmLabel(w) ==
    /\ pc[w] = "confirm"
    /\ SaveRow(req[w].plan, [req[w].row EXCEPT !.status = "CONFIRMED"])
    /\ Return(w)
    /\ UNCHANGED <<trip, created, task, failed>>

-----------------------------------------------------------------------------
(* run_create: trip and first version in one transaction, then the task.   *)
(* Bound: one trip.                                                        *)
CreateTrip(t, k) ==
    /\ created = 0
    /\ created' = 1
    /\ plan' = [plan EXCEPT ![1] = Placeholder]
    /\ trip' = k
    /\ \/ Enqueue(t, "create", None, 1, k) /\ UNCHANGED failed
       \/ failed' = failed \cup {1} /\ UNCHANGED task    \* the broker is down
    /\ UNCHANGED <<pc, req>>

-----------------------------------------------------------------------------
(* plan_confirm: DRAFT becomes CONFIRMED, and the whole row is saved.      *)

ReadForConfirm(w, v) ==
    /\ ReadPlan(w, v, "confirm")
    /\ plan[v].status = "draft"
    /\ UNCHANGED <<trip, plan, created, task, failed>>

SaveConfirm(w) ==
    /\ pc[w] = "confirm"
    /\ SaveRow(req[w].plan, [req[w].row EXCEPT !.status = "confirmed"])
    /\ Return(w)
    /\ UNCHANGED <<trip, created, task, failed>>

-----------------------------------------------------------------------------
(* plan_edit: an LLM routes the request; a replan or a budget edit gets a  *)
(* placeholder version first, a local edit only its task.                  *)

ReadForEdit(w, v) ==
    /\ ReadPlan(w, v, "edit")
    /\ plan[v].status # "processing"
    /\ UNCHANGED <<trip, plan, created, task, failed>>

RouteLocal(w, t) ==
    /\ pc[w] = "edit"
    /\ Enqueue(t, "local", req[w].plan, None, None)
    /\ Return(w)
    /\ UNCHANGED <<trip, plan, created, failed>>

RouteNewVersion(w, t, kind) ==
    /\ pc[w] = "edit"
    /\ kind \in {"replan", "budget"}
    /\ Insert(Placeholder)
    /\ \/ Enqueue(t, kind, req[w].plan, created + 1, None) /\ UNCHANGED failed
       \/ failed' = failed \cup {created + 1} /\ UNCHANGED task    \* the broker is down
    /\ Return(w)
    /\ UNCHANGED trip

-----------------------------------------------------------------------------
(* plan_rollback: the version is copied as a new DRAFT in one transaction. *)

ReadForRollback(w, v) ==
    /\ ReadPlan(w, v, "rollback")
    /\ plan[v].status # "processing"
    /\ UNCHANGED <<trip, plan, created, task, failed>>

CopyVersion(w) ==
    /\ pc[w] = "rollback"
    /\ Insert(CopyOf(req[w].row))
    /\ Return(w)
    /\ UNCHANGED <<trip, task, failed>>

-----------------------------------------------------------------------------
(* plan_select_candidate: not for a confirmed version, and a PROCESSING one *)
(* has no candidates.  The new version is inserted as PROCESSING, then      *)
(* completed in a transaction of its own, then gets its summary.            *)

ReadForSelect(w, v) ==
    /\ ReadPlan(w, v, "select")
    /\ plan[v].status = "draft"
    /\ UNCHANGED <<trip, plan, created, task, failed>>

InsertSelected(w) ==
    /\ pc[w] = "select"
    /\ Insert(Placeholder)
    /\ pc' = [pc EXCEPT ![w] = "select_save"]
    /\ req' = [req EXCEPT ![w].new = created + 1]
    /\ UNCHANGED <<trip, task, failed>>

SaveSelected(w) ==
    /\ pc[w] = "select_save"
    /\ SaveRow(req[w].new, CopyOf(req[w].row))
    /\ pc' = [pc EXCEPT ![w] = "select_summary"]
    /\ UNCHANGED <<trip, created, req, task, failed>>

SummarizeSelected(w) ==
    /\ pc[w] = "select_summary"
    /\ req[w].new \in Existing
    /\ plan' = [plan EXCEPT ![req[w].new].summary = TRUE]
    /\ Return(w)
    /\ UNCHANGED <<trip, created, task, failed>>

-----------------------------------------------------------------------------
(* plan_candidate_return_leg: a search for one candidate, whose answer is   *)
(* merged into the snapshot as it was read; only that field is saved.       *)

ReadForReturnLeg(w, v, c) ==
    /\ pc[w] = "idle"
    /\ v \in Existing
    /\ plan[v].status # "processing"
    /\ c \notin plan[v].cached
    /\ pc' = [pc EXCEPT ![w] = "return_leg"]
    /\ req' = [req EXCEPT ![w] = [plan |-> v, row |-> plan[v], new |-> None, candidate |-> c]]
    /\ UNCHANGED <<trip, plan, created, task, failed>>

SaveReturnLeg(w) ==
    /\ pc[w] = "return_leg"
    /\ req[w].plan \in Existing
    /\ plan' = [plan EXCEPT ![req[w].plan].cached = req[w].row.cached \cup {req[w].candidate}]
    /\ Return(w)
    /\ UNCHANGED <<trip, created, task, failed>>

-----------------------------------------------------------------------------
(* trip_delete: refused while the latest version is confirmed; the delete   *)
(* cascades to every version.  (A payment protects its plan: Payments.)     *)
(* The latest is the one created last, which is that of the greatest id     *)
(* unless a row was inserted again.                                         *)

CheckDelete(w) ==
    /\ pc[w] = "idle"
    /\ trip # None
    /\ \A v \in Existing : (\A u \in Existing : u <= v) => plan[v].status # "confirmed"
    /\ pc' = [pc EXCEPT ![w] = "delete"]
    /\ UNCHANGED <<trip, plan, created, req, task, failed>>

DeleteTrip(w) ==
    /\ pc[w] = "delete"
    /\ trip' = None
    /\ plan' = [v \in Versions |-> None]
    /\ Return(w)
    /\ UNCHANGED <<created, task, failed>>

\* The request dies, is refused by a foreign key, finds its row gone, or gives
\* up in a search: it ends without its write.
AbandonRequest(w) ==
    /\ pc[w] # "idle"
    /\ failed' = IF pc[w] = "select_save" THEN failed \cup Unfinished({req[w].new}) ELSE failed
    /\ Return(w)
    /\ UNCHANGED <<trip, plan, created, task>>

-----------------------------------------------------------------------------
(* Tasks on the workers.                                                    *)

\* run_full_pipeline needs no row until it saves; the edits read the version they
\* start from, run_budget_edit also the one it will complete.
StartTask(t) ==
    /\ task[t] # None
    /\ task[t].stage = "queued"
    /\ \/ /\ task[t].kind = "create"
          /\ task' = [task EXCEPT ![t].stage = "pipeline"]
       \/ /\ task[t].kind # "create"
          /\ task[t].old \in Existing
          /\ task[t].kind = "budget" => task[t].new \in Existing
          /\ task' = [task EXCEPT ![t].stage = "running", ![t].row = plan[task[t].old]]
    /\ UNCHANGED <<trip, plan, created, pc, req, failed>>

End(t) == task' = [task EXCEPT ![t] = None]

\* run_replan finds no usable date, run_budget_edit no new candidate: the
\* placeholder is deleted.
AbortEdit(t) ==
    /\ task[t] # None
    /\ task[t].stage = "running"
    /\ task[t].kind \in {"replan", "budget"}
    /\ plan' = [plan EXCEPT ![task[t].new] = None]
    /\ End(t)
    /\ UNCHANGED <<trip, created, pc, req, failed>>

\* run_replan writes the new terms to the trip all versions share, then goes
\* on as run_full_pipeline.  It saves the trip as it read it, before the request
\* was parsed again: one deleted meanwhile is there again, without its versions.
UpdateTerms(t, k) ==
    /\ task[t] # None
    /\ task[t].stage = "running"
    /\ task[t].kind = "replan"
    /\ trip' = k
    /\ task' = [task EXCEPT ![t].stage = "pipeline", ![t].terms = k, ![t].row = None]
    /\ UNCHANGED <<plan, created, pc, req, failed>>

SavePipelineResult(t) ==
    /\ task[t] # None
    /\ task[t].stage = "pipeline"
    /\ task[t].new \in Existing
    /\ plan' = [plan EXCEPT ![task[t].new] =
                   [@ EXCEPT !.status = "draft", !.terms = task[t].terms, !.cached = {}]]
    /\ End(t)
    /\ UNCHANGED <<trip, created, pc, req, failed>>

\* run_budget_edit completes its placeholder from the old version as it read it,
\* and then saves the one field of its summary.
SaveBudgetEdit(t) ==
    /\ task[t] # None
    /\ task[t].stage = "running"
    /\ task[t].kind = "budget"
    /\ SaveRow(task[t].new, CopyOf(task[t].row))
    /\ task' = [task EXCEPT ![t].stage = "summarize"]
    /\ UNCHANGED <<trip, created, pc, req, failed>>

SummarizeBudgetEdit(t) ==
    /\ task[t] # None
    /\ task[t].stage = "summarize"
    /\ task[t].new \in Existing
    /\ plan' = [plan EXCEPT ![task[t].new].summary = TRUE]
    /\ End(t)
    /\ UNCHANGED <<trip, created, pc, req, failed>>

\* run_local_edit: a copy of the old version as it was read is committed as DRAFT,
\* visible to everyone, and kept in memory while an LLM writes its narrative ...
CommitEdited(t) ==
    /\ task[t] # None
    /\ task[t].stage = "running"
    /\ task[t].kind = "local"
    /\ Insert(CopyOf(task[t].row))
    /\ task' = [task EXCEPT ![t].stage = "narrate", ![t].new = created + 1,
                            ![t].row = CopyOf(@)]
    /\ UNCHANGED <<trip, pc, req, failed>>

\* ... and then the whole row is saved as it was committed.
SaveEdited(t) ==
    /\ task[t] # None
    /\ task[t].stage = "narrate"
    /\ SaveRow(task[t].new, [task[t].row EXCEPT !.summary = TRUE])
    /\ End(t)
    /\ UNCHANGED <<trip, created, pc, req, failed>>

\* An exception no task catches, a row that is gone, or the end of the worker.
FailTask(t) ==
    /\ task[t] # None
    /\ failed' = failed \cup Unfinished({task[t].new})
    /\ End(t)
    /\ UNCHANGED <<trip, plan, created, pc, req>>

Next ==
    \/ \E t \in Tasks, k \in Terms : CreateTrip(t, k) \/ UpdateTerms(t, k)
    \/ \E w \in Requests, v \in Versions :
          \/ ReadForConfirm(w, v) \/ ReadForEdit(w, v) \/ ReadForRollback(w, v)
          \/ ReadForSelect(w, v)
          \/ \E c \in Candidates : ReadForReturnLeg(w, v, c)
    \/ \E w \in Requests :
          \/ SaveConfirm(w) \/ CopyVersion(w) \/ InsertSelected(w) \/ SaveSelected(w)
          \/ SummarizeSelected(w) \/ SaveReturnLeg(w) \/ CheckDelete(w) \/ DeleteTrip(w)
          \/ AbandonRequest(w)
          \/ \E t \in Tasks :
                \/ RouteLocal(w, t)
                \/ \E kind \in {"replan", "budget"} : RouteNewVersion(w, t, kind)
    \/ \E t \in Tasks :
          \/ StartTask(t) \/ AbortEdit(t) \/ SavePipelineResult(t) \/ SaveBudgetEdit(t)
          \/ SummarizeBudgetEdit(t) \/ CommitEdited(t) \/ SaveEdited(t) \/ FailTask(t)

Spec == Init /\ [][Next]_vars

\* Workers take queued tasks and run them to an end, be it an exception; so do
\* the web processes the requests they have begun.
Fairness ==
    /\ \A t \in Tasks :
          WF_vars(\/ StartTask(t) \/ AbortEdit(t) \/ SavePipelineResult(t)
                  \/ SaveBudgetEdit(t) \/ SummarizeBudgetEdit(t) \/ CommitEdited(t) \/ SaveEdited(t)
                  \/ FailTask(t) \/ \E k \in Terms : UpdateTerms(t, k))
    /\ \A w \in Requests : WF_vars(SaveSelected(w) \/ AbandonRequest(w))

FairSpec == Spec /\ Fairness

-----------------------------------------------------------------------------
TypeOK ==
    /\ trip \in Terms \cup {None}
    /\ plan \in [Versions -> Row \cup {None}]
    /\ created \in 0 .. MaxVersions
    /\ pc \in [Requests -> PCs]
    /\ req \in [Requests -> Read \cup {None}]
    /\ task \in [Tasks -> Job \cup {None}]
    /\ failed \subseteq Versions

\* processing -> draft -> confirmed -> (booking) (trips/views.py:785): a confirmed
\* version is never a draft again.
ConfirmedIsFinal ==
    [][\A v \in Existing :
          plan[v].status = "confirmed" /\ plan'[v] # None => plan'[v].status = "confirmed"]_vars

\* The one way back: a local edit still writing the text of the version it made.
\* No other request or task, from however old a copy of the row, takes a
\* confirmation away.
OnlyItsOwnEditReverts ==
    [][\A v \in Existing :
          plan[v].status = "confirmed" /\ plan'[v] # None /\ plan'[v].status # "confirmed" =>
              \E t \in Tasks : /\ task[t] # None
                               /\ task[t].stage = "narrate" /\ task[t].new = v]_vars

\* "Past versions are preserved ... the original does not break when an edit goes
\* wrong" (trips/models.py:120): once a version is ready, no edit, rollback or
\* regeneration, succeeding or not, changes its itinerary or removes it while its
\* trip exists.
VersionsArePreserved ==
    [][\A v \in Existing :
          plan[v].status # "processing" /\ trip' # None =>
              /\ plan'[v] # None
              /\ plan'[v].status # "processing"
              /\ plan'[v].terms = plan[v].terms]_vars

\* The terms a confirmed version was made for are the terms of its trip, which is
\* where run_booking takes the dates and the guests from (same claim of models.py).
\* In no run: TLC refutes it, see the README.
ConfirmedPlanKeepsItsTerms ==
    \A v \in Existing : plan[v].status = "confirmed" => plan[v].terms = trip

\* "A confirmed plan cannot be deleted" (trips/views.py:748).  In no run: TLC
\* refutes it, see the README.
ConfirmedIsNotDeleted ==
    [][\A v \in Existing : plan[v].status = "confirmed" => plan'[v] # None]_vars

\* "A hard delete, not to be undone" (trips/views.py:737): a trip that was deleted stays
\* deleted.  In no run: TLC refutes it, see the README.
DeletedStaysDeleted ==
    [][created > 0 /\ trip = None => trip' = None]_vars

InProgress(v) ==
    \/ \E t \in Tasks : task[t] # None /\ task[t].new = v
    \/ \E w \in Requests : pc[w] = "select_save" /\ req[w].new = v

\* "Prevents 'being made' zombies" (agents/tasks.py:355, 628): a PROCESSING version has
\* somebody working on it.  In no run: TLC refutes it, see the README.
NoZombies == \A v \in Existing : plan[v].status = "processing" => InProgress(v)

\* Every way a task or request ends on its own account cleans up or completes its
\* placeholder; only an exception, a dead process or a dead broker leaves one.
OnlyFailuresLeaveZombies ==
    \A v \in Existing : plan[v].status = "processing" => InProgress(v) \/ v \in failed

\* A version in the making becomes ready, is removed, or its work has failed.
EveryVersionFinishes ==
    \A v \in Versions :
        (plan[v] # None /\ plan[v].status = "processing")
            ~> (plan[v] = None \/ plan[v].status # "processing" \/ v \in failed)

\* The edit's answer is stored "to bring it back word for word" when the chat is
\* restored (trips/models.py:149): once stored it stays stored.
\* In no run: TLC refutes it, see the README.
SummariesAreKept ==
    [][\A v \in Existing : plan[v].summary /\ plan'[v] # None => plan'[v].summary]_vars

\* A return leg once stored is not searched again (trips/views.py:641-643): it stays
\* in the snapshot of its version.  In no run: TLC refutes it, see the README.
ReturnLegsStayCached ==
    [][\A v \in Existing : plan'[v] # None => plan[v].cached \subseteq plan'[v].cached]_vars
=============================================================================
