------------------------- MODULE PlanLifecycleProofs -------------------------
(***************************************************************************)
(* Which rows of a trip a stale copy may overwrite, for any number of      *)
(* requests, tasks and versions.  No row is locked: what protects a        *)
(* version is that every writer of a PROCESSING row made that row itself,  *)
(* and that every other writer read its row when it was ready.  A row that *)
(* was deleted may be inserted again from any copy of it, so all copies of *)
(* a version have to agree, also while there is no row.                    *)
(***************************************************************************)
EXTENDS PlanLifecycle, TLAPS

Made == 1 .. created

\* A row that exists is in the making, or ready with these terms.
InMaking(v) == v \in Made /\ (v \in Existing => plan[v].status = "processing")
Ready(v) == v \in Made /\ (v \in Existing => plan[v].status # "processing")
ReadyFor(v, terms) == Ready(v) /\ (v \in Existing => plan[v].terms = terms)

\* A request or a task that read a row holds a copy of it; a local edit holds its old
\* version until it has committed the new one, then that.
Holds(w) == pc[w] \notin {"idle", "delete"}
Keeps(t) == task[t] # None /\ task[t].stage \in {"running", "narrate"}
KeptOf(t) == IF task[t].stage = "narrate" THEN task[t].new ELSE task[t].old

SomeTerms == Terms \cup {None}

\* Somebody holds a copy of v with these terms.
Copy(v, terms) ==
    \/ \E w \in Requests : Holds(w) /\ req[w].plan = v /\ req[w].row.terms = terms
    \/ \E t \in Tasks : Keeps(t) /\ KeptOf(t) = v /\ task[t].row.terms = terms

\* A request that read a row to change or copy it read a ready one, whose terms are
\* still those it read; a selection fills the version it inserted.
RequestOK(w) ==
    Holds(w) =>
        /\ req[w] # None
        /\ ReadyFor(req[w].plan, req[w].row.terms)
        /\ pc[w] = "select_save" => InMaking(req[w].new)
        /\ pc[w] = "select_summary" => req[w].new \in Made
        /\ pc[w] = "return_leg" => req[w].candidate \in Candidates

Fills(t) ==
    task[t] # None /\ task[t].kind # "local" /\ task[t].stage \in {"queued", "running", "pipeline"}

\* A task fills the version it was queued for; an edit starts from a ready version and
\* has the row it read or committed, apart from its status and summary.
TaskOK(t) ==
    task[t] # None =>
        /\ Fills(t) => InMaking(task[t].new)
        /\ task[t].kind = "local" => task[t].stage \in {"queued", "running", "narrate"}
        /\ task[t].kind # "create" /\ task[t].stage = "queued" => Ready(task[t].old)
        /\ Keeps(t) => task[t].row \in Row /\ ReadyFor(KeptOf(t), task[t].row.terms)
        /\ task[t].stage = "narrate" => /\ task[t].kind = "local"
                                        /\ task[t].row.status = "draft"
        /\ task[t].kind = "local" /\ task[t].stage # "narrate" => task[t].new = None
        /\ task[t].stage = "summarize" => Ready(task[t].new)

\* Somebody fills v.
Filling(v) ==
    \/ \E t \in Tasks : Fills(t) /\ task[t].new = v
    \/ \E w \in Requests : pc[w] = "select_save" /\ req[w].new = v

\* The copies of a version agree, and nobody has one of a version that is being filled.
CopiesAgree ==
    \A v \in Versions : \A terms \in SomeTerms : Copy(v, terms) =>
        /\ \A other \in SomeTerms : Copy(v, other) => other = terms
        /\ ~ Filling(v)

\* Nobody else fills it.
OneMaker ==
    /\ \A t, u \in Tasks : Fills(t) /\ Fills(u) /\ task[t].new = task[u].new => t = u
    /\ \A t \in Tasks, w \in Requests :
          Fills(t) /\ pc[w] = "select_save" => task[t].new # req[w].new
    /\ \A w, x \in Requests :
          pc[w] = "select_save" /\ pc[x] = "select_save" /\ req[w].new = req[x].new => w = x

Inv ==
    /\ TypeOK
    /\ Existing \subseteq Made
    /\ \A w \in Requests : RequestOK(w)
    /\ \A t \in Tasks : TaskOK(t)
    /\ OneMaker
    /\ CopiesAgree
    /\ OnlyFailuresLeaveZombies

-----------------------------------------------------------------------------
(* What a step may do to rows.                                             *)

\* A row that was gone is inserted from a copy of it, or by the one who fills it, who is done.
Again(v) ==
    /\ v \in Made
    /\ plan'[v].status # "processing"
    /\ \A terms \in SomeTerms : Copy(v, terms) => terms = plan'[v].terms
    /\ ~ Filling(v)'

\* Nothing but the next version appears, or one that was gone; what is ready keeps its
\* terms, is removed only with the trip, and loses a confirmation only to its own edit;
\* what becomes ready has nobody filling it any more.
StepFacts ==
    /\ created' \in Nat /\ created <= created'
    /\ \A v \in Existing' : v \in Existing \/ (v = created + 1 /\ v <= created') \/ Again(v)
    /\ \A v \in Existing :
          plan[v].status # "processing" =>
              /\ trip' # None => v \in Existing'
              /\ v \in Existing' => /\ plan'[v].status # "processing"
                                    /\ plan'[v].terms = plan[v].terms
              /\ plan[v].status = "confirmed" /\ v \in Existing' /\ plan'[v].status # "confirmed" =>
                    \E t \in Tasks : /\ task[t] # None
                                     /\ task[t].stage = "narrate" /\ task[t].new = v
    /\ \A v \in Existing \cap Existing' :
          plan[v].status = "processing" /\ plan'[v].status # "processing" => ~ Filling(v)'

\* Ids are numbers, and marked rows are none.
LEMMA Types ==
    ASSUME TypeOK
    PROVE  /\ created \in Nat /\ created <= MaxVersions /\ MaxVersions \in Nat
           /\ Versions \subseteq Nat /\ Made \subseteq Versions
           /\ \A v \in Existing : plan[v] \in Row
           /\ \A w \in Requests : req[w] # None => req[w] \in Read
           /\ \A t \in Tasks : task[t] # None => task[t] \in Job
           /\ None \notin Row /\ None \notin Versions /\ None \notin Terms
BY PlanAssumption DEF TypeOK, Versions, Made, Existing

\* Copies are of ready versions, and who fills one fills one in the making.
LEMMA Held ==
    ASSUME Inv
    PROVE  /\ \A v : \A terms : Copy(v, terms) => ReadyFor(v, terms)
           /\ \A v : Filling(v) => InMaking(v)
           /\ \A w \in Requests : Holds(w) =>
                 /\ req[w] # None /\ req[w] \in Read /\ req[w].row \in Row
                 /\ req[w].plan \in Versions /\ req[w].row.terms \in SomeTerms
                 /\ Copy(req[w].plan, req[w].row.terms)
           /\ \A t \in Tasks : Keeps(t) =>
                 /\ task[t].row \in Row /\ task[t].row.terms \in SomeTerms
                 /\ KeptOf(t) \in Versions /\ Copy(KeptOf(t), task[t].row.terms)
<1>1. ASSUME NEW v, NEW terms, Copy(v, terms) PROVE ReadyFor(v, terms)
  BY <1>1 DEF Inv, RequestOK, TaskOK, Copy, Keeps
<1>2. ASSUME NEW v, Filling(v) PROVE InMaking(v)
  BY <1>2 DEF Inv, RequestOK, TaskOK, Filling, Fills, Holds
<1>3. ASSUME NEW w \in Requests, Holds(w)
      PROVE  /\ req[w] # None /\ req[w] \in Read /\ req[w].row \in Row
             /\ req[w].plan \in Versions /\ req[w].row.terms \in SomeTerms
             /\ Copy(req[w].plan, req[w].row.terms)
  <2>1. req[w] # None /\ req[w] \in Read
    BY <1>3, Types DEF Inv, RequestOK
  <2>2. req[w].row \in Row /\ req[w].plan \in Versions
    BY <2>1 DEF Read
  <2>3. req[w].row.terms \in SomeTerms
    BY <2>2 DEF Row, SomeTerms
  <2> QED BY <1>3, <2>1, <2>2, <2>3 DEF Copy
<1>4. ASSUME NEW t \in Tasks, Keeps(t)
      PROVE  /\ task[t].row \in Row /\ task[t].row.terms \in SomeTerms
             /\ KeptOf(t) \in Versions /\ Copy(KeptOf(t), task[t].row.terms)
  <2>1. task[t].row \in Row /\ ReadyFor(KeptOf(t), task[t].row.terms)
    BY <1>4 DEF Inv, TaskOK, Keeps
  <2>2. task[t].row.terms \in SomeTerms
    BY <2>1 DEF Row, SomeTerms
  <2>3. KeptOf(t) \in Versions
    BY <2>1, Types DEF Inv, ReadyFor, Ready
  <2> QED BY <1>4, <2>1, <2>2, <2>3 DEF Copy
<1> QED BY <1>1, <1>2, <1>3, <1>4

\* Who was not part of a step finds its version as it left it.
LEMMA OthersKeep ==
    ASSUME Inv, StepFacts
    PROVE  /\ \A w \in Requests :
                 pc'[w] = pc[w] /\ req'[w] = req[w] => RequestOK(w)'
           /\ \A t \in Tasks : task'[t] = task[t] => TaskOK(t)'
<1>1. Made \subseteq Made' /\ \A v \in Made : v \in Existing' => v \in Existing \/ Again(v)
  BY Types DEF Inv, StepFacts, Made
<1>2. ASSUME NEW v, NEW terms \in SomeTerms, Copy(v, terms) PROVE ReadyFor(v, terms)'
  <2>1. ReadyFor(v, terms)
    BY <1>2, Held
  <2> QED BY <1>1, <1>2, <2>1 DEF StepFacts, ReadyFor, Ready, Again
<1>3. ASSUME NEW v, Ready(v) PROVE Ready(v)'
  BY <1>1, <1>3 DEF StepFacts, Ready, Again
<1>4. ASSUME NEW v, InMaking(v), Filling(v)' PROVE InMaking(v)'
  BY <1>1, <1>4 DEF StepFacts, InMaking, Again
<1>5. ASSUME NEW w \in Requests, pc'[w] = pc[w], req'[w] = req[w] PROVE RequestOK(w)'
  <2>1. RequestOK(w) /\ (Holds(w)' <=> Holds(w))
    BY <1>5 DEF Inv, Holds
  <2>2. ASSUME NEW v, NEW k, v = req[w].plan, k = req[w].row.terms, Holds(w)
        PROVE  ReadyFor(v, k)'
    <3>1. k \in SomeTerms /\ Copy(v, k)
      BY <2>2, Held
    <3> QED BY <1>2, <3>1
  <2>3. ASSUME NEW v, v = req[w].new, pc[w] = "select_save" PROVE InMaking(v)'
    <3>1. InMaking(v)
      BY <2>1, <2>3 DEF RequestOK, Holds
    <3>2. Filling(v)'
      BY <1>5, <2>3 DEF Filling
    <3> QED BY <1>4, <3>1, <3>2
  <2> QED BY <1>1, <1>5, <2>1, <2>2, <2>3 DEF RequestOK, ReadyFor, Ready, InMaking
<1>6. ASSUME NEW t \in Tasks, task'[t] = task[t] PROVE TaskOK(t)'
  <2>1. TaskOK(t)
    BY DEF Inv
  <2>2. Fills(t)' = Fills(t) /\ Keeps(t)' = Keeps(t) /\ KeptOf(t)' = KeptOf(t)
    BY <1>6 DEF Fills, Keeps, KeptOf
  <2>3. ASSUME NEW v, v = task[t].new, Fills(t) PROVE InMaking(v)'
    <3>1. InMaking(v)
      BY <2>1, <2>3 DEF TaskOK, Fills
    <3>2. Filling(v)'
      BY <1>6, <2>2, <2>3 DEF Filling
    <3> QED BY <1>4, <3>1, <3>2
  <2>4. ASSUME NEW v, NEW k, v = KeptOf(t), k = task[t].row.terms, Keeps(t)
        PROVE  ReadyFor(v, k)'
    <3>1. k \in SomeTerms /\ Copy(v, k)
      BY <2>4, Held
    <3> QED BY <1>2, <3>1
  <2>5. task[t] # None =>
            /\ task[t].stage = "summarize" => Ready(task[t].new)'
            /\ task[t].kind # "create" /\ task[t].stage = "queued" => Ready(task[t].old)'
    BY <1>3, <1>6, <2>1 DEF TaskOK, Ready
  <2> QED BY <1>6, <2>1, <2>2, <2>3, <2>4, <2>5 DEF TaskOK, ReadyFor, Ready, InMaking
<1> QED BY <1>5, <1>6

\* What a step has to keep.
LEMMA StepInv ==
    ASSUME Inv, TypeOK', StepFacts, OneMaker', CopiesAgree', OnlyFailuresLeaveZombies',
           \A w \in Requests : RequestOK(w)' \/ (pc'[w] = pc[w] /\ req'[w] = req[w]),
           \A t \in Tasks : TaskOK(t)' \/ task'[t] = task[t]
    PROVE  Inv'
<1>1. (Existing \subseteq Made)'
  <2>1. /\ created \in Nat /\ created' \in Nat /\ created <= created'
        /\ \A v \in Existing' : v \in Made \/ (v = created + 1 /\ v <= created')
    BY Types DEF Inv, StepFacts, Again
  <2> QED BY <2>1 DEF Made
<1> QED BY <1>1, OthersKeep DEF Inv

\* Copies go on to agree: a new one is of a ready row that is there, or of the version
\* just made, and only a version just made gets somebody who fills it.
LEMMA CopiesStep ==
    ASSUME Inv, NEW terms,
           \A v \in Versions : \A k \in SomeTerms : Copy(v, k)' =>
               \/ Copy(v, k)
               \/ v \in Existing /\ plan[v].status # "processing" /\ plan[v].terms = k
               \/ v = created + 1 /\ k = terms,
           \A v \in Versions : Filling(v)' => Filling(v) \/ v = created + 1,
           \A v : v = created + 1 => \A k \in SomeTerms : Copy(v, k)' => ~ Filling(v)'
    PROVE  CopiesAgree'
<1>1. created + 1 \notin Made /\ Existing \subseteq Made
  BY Types DEF Inv, Made
<1> SUFFICES ASSUME NEW v \in Versions, NEW k \in SomeTerms, Copy(v, k)'
             PROVE  /\ \A other \in SomeTerms : Copy(v, other)' => other = k
                    /\ ~ Filling(v)'
  BY DEF CopiesAgree, Versions, SomeTerms
<1> DEFINE Seen(x) == v \in Existing /\ plan[v].status # "processing" /\ plan[v].terms = x
           New(x) == v = created + 1 /\ x = terms
<1>2. \A x \in SomeTerms : Copy(v, x)' => Copy(v, x) \/ Seen(x) \/ New(x)
  OBVIOUS
<1>3. \A x \in SomeTerms : Copy(v, x) => ReadyFor(v, x)
  BY Held
<1>4. \A x, y \in SomeTerms : Copy(v, x) /\ Copy(v, y) => x = y
  BY DEF Inv, CopiesAgree
<1>5. \A x, y \in SomeTerms : Copy(v, x) /\ Seen(y) => x = y
  BY <1>3 DEF ReadyFor, Ready
<1>6. \A x \in SomeTerms : Copy(v, x) \/ Seen(x) => v # created + 1
  BY <1>1, <1>3 DEF ReadyFor, Ready
<1>7. \A other \in SomeTerms : Copy(v, other)' => other = k
  <2> SUFFICES ASSUME NEW other \in SomeTerms, Copy(v, other)' PROVE other = k
    OBVIOUS
  <2>1. CASE v = created + 1
    BY <1>2, <1>6, <2>1
  <2>2. CASE v # created + 1
    <3>1. (Copy(v, k) \/ Seen(k)) /\ (Copy(v, other) \/ Seen(other))
      BY <1>2, <2>2
    <3> QED BY <1>4, <1>5, <3>1
  <2> QED BY <2>1, <2>2
<1>8. ~ Filling(v)'
  <2>1. CASE v = created + 1
    BY <2>1
  <2>2. CASE v # created + 1
    <3>1. Copy(v, k) \/ Seen(k)
      BY <1>2, <2>2
    <3>2. ASSUME Filling(v)' PROVE FALSE
      <4>1. Filling(v) /\ InMaking(v)
        BY <2>2, <3>2, Held
      <4> QED BY <3>1, <4>1 DEF Inv, CopiesAgree, InMaking
    <3> QED BY <3>2
  <2> QED BY <2>1, <2>2
<1> QED BY <1>7, <1>8

\* Makers that were there before stay apart.
LEMMA MakersApart ==
    ASSUME Inv,
           \A t \in Tasks : Fills(t)' => Fills(t) /\ task'[t].new = task[t].new,
           \A w \in Requests :
               pc'[w] = "select_save" => pc[w] = "select_save" /\ req'[w].new = req[w].new
    PROVE  OneMaker' /\ \A v : Filling(v)' => Filling(v)
<1>1. OneMaker'
  BY DEF Inv, OneMaker
<1>2. \A v : Filling(v)' => Filling(v)
  BY DEF Filling
<1> QED BY <1>1, <1>2

\* And copies that were there before go on to agree.
LEMMA MakersKept ==
    ASSUME Inv,
           \A t \in Tasks : Fills(t)' => Fills(t) /\ task'[t].new = task[t].new,
           \A w \in Requests :
               pc'[w] = "select_save" => pc[w] = "select_save" /\ req'[w].new = req[w].new,
           \A t \in Tasks : Keeps(t)' => Keeps(t) /\ task'[t] = task[t],
           \A w \in Requests : Holds(w)' =>
               Holds(w) /\ req'[w].plan = req[w].plan /\ req'[w].row = req[w].row
    PROVE  OneMaker' /\ CopiesAgree'
<1>1. OneMaker'
  BY MakersApart
<1>2. \A v : Filling(v)' => Filling(v)
  BY MakersApart
<1>3. \A v : \A k : Copy(v, k)' => Copy(v, k)
  BY DEF Copy, KeptOf
<1>4. CopiesAgree'
  <2> SUFFICES ASSUME NEW v \in Versions, NEW k \in SomeTerms, Copy(v, k)'
               PROVE  /\ \A other \in SomeTerms : Copy(v, other)' => other = k
                      /\ ~ Filling(v)'
    BY DEF CopiesAgree, Versions, SomeTerms
  <2> QED BY <1>2, <1>3 DEF Inv, CopiesAgree
<1> QED BY <1>1, <1>4

\* The makers there were made versions up to now.
LEMMA MakersMade ==
    ASSUME Inv
    PROVE  /\ \A t \in Tasks : Fills(t) => task[t].new \in Made
           /\ \A w \in Requests : pc[w] = "select_save" => req[w].new \in Made
           /\ \A v : Filling(v) => v # created + 1
           /\ \A v : \A terms : Copy(v, terms) => v # created + 1
<1>1. ASSUME NEW t \in Tasks, Fills(t) PROVE task[t].new \in Made
  BY <1>1 DEF Inv, TaskOK, Fills, InMaking
<1>2. ASSUME NEW w \in Requests, pc[w] = "select_save" PROVE req[w].new \in Made
  BY <1>2 DEF Inv, RequestOK, Holds, InMaking
<1>3. created + 1 \notin Made
  BY Types DEF Inv, Made
<1> QED BY <1>1, <1>2, <1>3, Held DEF InMaking, ReadyFor, Ready

\* Nothing is made at first.
LEMMA InitInv == Init => Inv
<1> SUFFICES ASSUME Init PROVE Inv
  OBVIOUS
<1>1. TypeOK
  BY PlanAssumption DEF Init, TypeOK, PCs
<1>2. Existing = {}
  BY DEF Init, Existing
<1> QED
  BY <1>1, <1>2 DEF Init, Inv, RequestOK, TaskOK, OneMaker, Fills, OnlyFailuresLeaveZombies,
     CopiesAgree, Copy, Holds, Keeps

-----------------------------------------------------------------------------
(* Requests.                                                               *)

\* A request that begins has read a row that is there.
LEMMA ReadInv ==
    ASSUME Inv, NEW w \in Requests, NEW v \in Versions,
           \/ ReadForConfirm(w, v) \/ ReadForEdit(w, v) \/ ReadForRollback(w, v)
           \/ ReadForSelect(w, v)
           \/ \E c \in Candidates : ReadForReturnLeg(w, v, c)
    PROVE  Inv' /\ StepFacts
<1> DEFINE to == pc'[w]
<1>1. /\ pc[w] = "idle" /\ v \in Existing
      /\ to \in {"confirm", "edit", "rollback", "select", "return_leg"}
      /\ plan[v].status # "processing"
      /\ pc' = [pc EXCEPT ![w] = to]
      /\ \E c \in Candidates \cup {None} :
            /\ to = "return_leg" => c \in Candidates
            /\ req' = [req EXCEPT ![w] = [plan |-> v, row |-> plan[v], new |-> None,
                                         candidate |-> c]]
      /\ UNCHANGED <<trip, plan, created, task, failed>>
  BY DEF ReadForConfirm, ReadForEdit, ReadForRollback, ReadForSelect,
         ReadForReturnLeg, ReadPlan, Inv, TypeOK
<1> HIDE DEF to
<1>2. PICK c \in Candidates \cup {None} :
          /\ to = "return_leg" => c \in Candidates
          /\ req' = [req EXCEPT ![w] = [plan |-> v, row |-> plan[v], new |-> None,
                                       candidate |-> c]]
  BY <1>1
<1>3. /\ req'[w] = [plan |-> v, row |-> plan[v], new |-> None, candidate |-> c]
      /\ req'[w] \in Read
      /\ pc'[w] = to
  BY <1>1, <1>2, Types DEF Inv, TypeOK, Read
<1>4. TypeOK'
  BY <1>1, <1>2, <1>3 DEF Inv, TypeOK, PCs
<1>5. StepFacts
  BY <1>1, Types DEF Inv, StepFacts, Existing
<1>6. RequestOK(w)'
  <2>1. /\ req'[w].plan = v /\ req'[w].row = plan[v] /\ req'[w].candidate = c
        /\ req'[w] # None
    BY <1>3, PlanAssumption DEF Read
  <2>2. UNCHANGED <<Existing, Made>> /\ v \in Made
    BY <1>1 DEF Existing, Made, Inv
  <2> QED BY <1>1, <1>2, <1>3, <2>1, <2>2 DEF RequestOK, ReadyFor, Ready
<1>7. \A x \in Requests : x = w \/ (pc'[x] = pc[x] /\ req'[x] = req[x])
  BY <1>1, <1>2 DEF Inv, TypeOK
<1>8. OneMaker' /\ CopiesAgree'
  <2>1. OneMaker' /\ \A x : Filling(x)' => Filling(x)
    BY <1>1, <1>3, <1>7, MakersApart DEF Fills
  <2>2. \A x : \A k : Copy(x, k)' => Copy(x, k) \/ (x = v /\ plan[v].terms = k)
    <3>1. req'[w].plan = v /\ req'[w].row = plan[v]
      BY <1>3
    <3> QED BY <1>1, <1>7, <3>1 DEF Copy, Holds, Keeps, KeptOf
  <2>3. \A x : x = created + 1 => ~ Filling(x)'
    BY <2>1, MakersMade
  <2>4. CopiesAgree'
    BY <1>1, <2>1, <2>2, <2>3, CopiesStep
  <2> QED BY <2>1, <2>4
<1>9. OnlyFailuresLeaveZombies'
  BY <1>1, <1>7 DEF Inv, OnlyFailuresLeaveZombies, InProgress, Existing
<1> QED BY <1>1, <1>4, <1>5, <1>6, <1>7, <1>8, <1>9, StepInv

\* A request that is to delete the trip holds no version.
LEMMA CheckDeleteInv ==
    ASSUME Inv, NEW w \in Requests, CheckDelete(w)
    PROVE  Inv' /\ StepFacts
<1>1. /\ pc[w] = "idle" /\ pc' = [pc EXCEPT ![w] = "delete"]
      /\ UNCHANGED <<trip, plan, created, req, task, failed>>
  BY DEF CheckDelete
<1>2. /\ pc'[w] = "delete" /\ pc' \in [Requests -> PCs]
      /\ \A x \in Requests : x # w => pc'[x] = pc[x]
  BY <1>1 DEF Inv, TypeOK, PCs
<1>3. TypeOK'
  BY <1>1, <1>2 DEF Inv, TypeOK
<1>4. StepFacts
  BY <1>1, Types DEF Inv, StepFacts, Existing
<1>5. OneMaker' /\ CopiesAgree'
  BY <1>1, <1>2, MakersKept DEF Fills, Keeps, Holds
<1>6. OnlyFailuresLeaveZombies'
  BY <1>1, <1>2 DEF Inv, OnlyFailuresLeaveZombies, InProgress, Existing
<1>7. RequestOK(w)'
  BY <1>2 DEF RequestOK, Holds
<1> QED BY <1>1, <1>2, <1>3, <1>4, <1>5, <1>6, <1>7, StepInv

\* A request that returns is as good as one that never began.
LEMMA Returned ==
    ASSUME TypeOK, NEW w \in Requests, Return(w)
    PROVE  /\ pc' \in [Requests -> PCs] /\ req' \in [Requests -> Read \cup {None}]
           /\ pc'[w] = "idle"
           /\ \A x \in Requests : x # w => pc'[x] = pc[x] /\ req'[x] = req[x]
           /\ \A x \in Requests :
                 pc'[x] = "select_save" => pc[x] = "select_save" /\ req'[x].new = req[x].new
           /\ \A x \in Requests : RequestOK(x)' \/ (pc'[x] = pc[x] /\ req'[x] = req[x])
           /\ \A x \in Requests : Holds(x)' => x # w /\ Holds(x) /\ req'[x] = req[x]
<1>1. /\ pc'[w] = "idle" /\ pc' \in [Requests -> PCs] /\ req' \in [Requests -> Read \cup {None}]
      /\ \A x \in Requests : x # w => pc'[x] = pc[x] /\ req'[x] = req[x]
  BY DEF Return, TypeOK, PCs
<1>2. RequestOK(w)'
  BY <1>1 DEF RequestOK, Holds
<1> QED BY <1>1, <1>2 DEF Holds

\* A row is saved again as ready, or as in the making, as it is, with its terms; one that
\* is gone is inserted from a copy.
LEMMA SaveKeepsRow ==
    ASSUME Inv, NEW w \in Requests, pc[w] # "select_save", Return(w),
           NEW v \in Versions, NEW row \in Row, plan' = [plan EXCEPT ![v] = row],
           v \in Existing => /\ row.status = "processing" <=> plan[v].status = "processing"
                             /\ plan[v].status = "confirmed" => row.status = "confirmed"
                             /\ plan[v].status # "processing" => row.terms = plan[v].terms,
           v \notin Existing => Copy(v, row.terms) /\ row.status # "processing",
           UNCHANGED <<trip, created, task, failed>>
    PROVE  Inv' /\ StepFacts
<1>1. /\ plan'[v] = row /\ row # None
      /\ \A u \in Versions : u # v => plan'[u] = plan[u]
      /\ Existing' = Existing \cup {v}
  BY Types DEF Inv, TypeOK, Existing
<1>2. TypeOK'
  BY <1>1, Returned DEF Inv, TypeOK
<1>3. OneMaker' /\ CopiesAgree' /\ \A x : Filling(x)' => Filling(x)
  <2>1. \A t \in Tasks : Fills(t)' = Fills(t) /\ Keeps(t)' = Keeps(t)
    BY DEF Fills, Keeps
  <2> QED BY <2>1, Returned, MakersKept, MakersApart DEF Inv
<1>4. v \notin Existing => Again(v)
  <2> SUFFICES ASSUME v \notin Existing PROVE Again(v)
    OBVIOUS
  <2>1. row.terms \in SomeTerms /\ Copy(v, row.terms) /\ row.status # "processing"
    BY DEF Row, SomeTerms
  <2>2. v \in Made
    BY <2>1, Held DEF ReadyFor, Ready
  <2>3. /\ \A k \in SomeTerms : Copy(v, k) => k = row.terms
        /\ ~ Filling(v)
    BY <2>1 DEF Inv, CopiesAgree
  <2> QED BY <1>1, <1>3, <2>1, <2>2, <2>3 DEF Again
<1>5. StepFacts
  <2>1. created' \in Nat /\ created <= created'
    BY Types DEF Inv
  <2>2. \A u \in Existing : u # v => plan'[u] = plan[u]
    BY <1>1 DEF Existing
  <2> QED BY <1>1, <1>4, <2>1, <2>2 DEF StepFacts
<1>6. OnlyFailuresLeaveZombies'
  <2> SUFFICES ASSUME NEW u \in Existing', plan'[u].status = "processing"
               PROVE  InProgress(u)' \/ u \in failed'
    BY DEF OnlyFailuresLeaveZombies
  <2>1. u \in Existing /\ plan[u].status = "processing"
    BY <1>1 DEF Existing
  <2> QED BY <2>1, Returned DEF Inv, OnlyFailuresLeaveZombies, InProgress
<1> QED BY <1>2, <1>3, <1>5, <1>6, Returned, StepInv DEF Inv

\* A confirm saves the row it read, a return leg and a summary one field.
LEMMA SaveConfirmInv ==
    ASSUME Inv, NEW w \in Requests, SaveConfirm(w)
    PROVE  Inv' /\ StepFacts
<1> DEFINE v == req[w].plan
           row == [req[w].row EXCEPT !.status = "confirmed"]
<1>1. /\ plan' = [plan EXCEPT ![v] = row] /\ pc[w] = "confirm" /\ Return(w)
      /\ UNCHANGED <<trip, created, task, failed>>
  BY DEF SaveConfirm, SaveRow
<1>2. /\ req[w].row \in Row /\ v \in Versions
      /\ Copy(v, req[w].row.terms) /\ ReadyFor(v, req[w].row.terms)
  BY <1>1, Held DEF Holds
<1>3. row \in Row /\ row.status = "confirmed" /\ row.terms = req[w].row.terms
  BY <1>2 DEF Row
<1>4. v \in Existing => plan[v].status # "processing" /\ row.terms = plan[v].terms
  BY <1>2, <1>3 DEF ReadyFor, Ready
<1> HIDE DEF v, row
<1> QED BY <1>1, <1>2, <1>3, <1>4, SaveKeepsRow

\* plan_return_flight writes its cache and the time of the row, not what the row is for.
LEMMA SaveReturnLegInv ==
    ASSUME Inv, NEW w \in Requests, SaveReturnLeg(w)
    PROVE  Inv' /\ StepFacts
<1> DEFINE v == req[w].plan
           row == [plan[v] EXCEPT !.cached = req[w].row.cached \cup {req[w].candidate}]
<1>1. /\ v \in Existing /\ pc[w] = "return_leg" /\ Return(w)
      /\ UNCHANGED <<trip, created, task, failed>>
      /\ plan' = [plan EXCEPT ![v] = row]
  BY DEF SaveReturnLeg
<1>2. /\ req[w] \in Read /\ req[w].row \in Row /\ req[w].candidate \in Candidates
      /\ plan[v] \in Row /\ v \in Versions
  BY <1>1, Types, Held DEF Inv, RequestOK, Holds
<1>3. row \in Row /\ row.status = plan[v].status /\ row.terms = plan[v].terms
  BY <1>2 DEF Row
<1> HIDE DEF v, row
<1> QED BY <1>1, <1>2, <1>3, SaveKeepsRow

\* The summary of a selection is saved to a version that is ready.
LEMMA SummarizeSelectedInv ==
    ASSUME Inv, NEW w \in Requests, SummarizeSelected(w)
    PROVE  Inv' /\ StepFacts
<1> DEFINE v == req[w].new
           row == [plan[v] EXCEPT !.summary = TRUE]
<1>1. /\ v \in Existing /\ pc[w] = "select_summary" /\ Return(w)
      /\ UNCHANGED <<trip, created, task, failed>>
      /\ plan' = [plan EXCEPT ![v] = row]
  BY DEF SummarizeSelected
<1>2. plan[v] \in Row /\ v \in Versions
  BY <1>1, Types DEF Inv, Existing
<1>3. row \in Row /\ row.status = plan[v].status /\ row.terms = plan[v].terms
  BY <1>2 DEF Row
<1> HIDE DEF v, row
<1> QED BY <1>1, <1>2, <1>3, SaveKeepsRow

\* The version a selection fills is ready then, and nobody else fills it.
LEMMA SaveSelectedInv ==
    ASSUME Inv, NEW w \in Requests, SaveSelected(w)
    PROVE  Inv' /\ StepFacts
<1> SUFFICES ASSUME NEW v, v = req[w].new PROVE Inv' /\ StepFacts
  OBVIOUS
<1> DEFINE row == CopyOf(req[w].row)
<1>1. /\ pc[w] = "select_save" /\ plan' = [plan EXCEPT ![v] = row]
      /\ pc' = [pc EXCEPT ![w] = "select_summary"]
      /\ UNCHANGED <<trip, created, req, task, failed>>
  BY DEF SaveSelected, SaveRow
<1>2. /\ InMaking(v) /\ Filling(v) /\ ReadyFor(req[w].plan, req[w].row.terms)
      /\ req[w] # None /\ req[w].row \in Row /\ v \in Versions
      /\ Copy(req[w].plan, req[w].row.terms) /\ req[w].plan \in Versions
      /\ req[w].row.terms \in SomeTerms
  BY <1>1, Types, Held DEF Inv, RequestOK, Holds, Filling, InMaking
<1>3. row \in Row /\ row.status = "draft"
  BY <1>2 DEF CopyOf, Row
<1>4. req[w].plan # v
  BY <1>2 DEF Inv, CopiesAgree
<1> HIDE DEF row
<1>5. /\ pc'[w] = "select_summary" /\ \A x \in Requests : x # w => pc'[x] = pc[x]
      /\ pc' \in [Requests -> PCs]
  BY <1>1 DEF Inv, TypeOK, PCs
<1>6. /\ \A t \in Tasks : Fills(t)' => Fills(t) /\ task'[t].new = task[t].new /\ task'[t].new # v
      /\ \A x \in Requests : pc'[x] = "select_save" => pc[x] = "select_save" /\ req'[x].new # v
      /\ \A x \in Requests : Holds(x)' => Holds(x) /\ req'[x] = req[x]
  BY <1>1, <1>5 DEF Inv, OneMaker, Fills, Holds
<1>7. OneMaker' /\ CopiesAgree'
  BY <1>1, <1>6, MakersKept DEF Keeps
<1>8. ~ Filling(v)'
  BY <1>1, <1>6 DEF Filling
<1>9. /\ plan'[v] = row /\ row # None /\ (v \in Existing => plan[v].status = "processing")
      /\ \A u \in Versions : u # v => plan'[u] = plan[u]
      /\ Existing' = Existing \cup {v}
  BY <1>1, <1>2, <1>3, Types DEF Inv, TypeOK, Existing, InMaking
<1>10. TypeOK'
  BY <1>1, <1>3, <1>5, <1>9 DEF Inv, TypeOK
<1>11. StepFacts
  <2>1. v \notin Existing => Again(v)
    BY <1>2, <1>3, <1>8, <1>9 DEF Again, Inv, CopiesAgree, InMaking
  <2>2. \A u \in Existing : u # v => plan'[u] = plan[u]
    BY <1>9 DEF Existing
  <2> QED BY <1>1, <1>3, <1>8, <1>9, <2>1, <2>2, Types DEF Inv, StepFacts
<1>12. RequestOK(w)'
  <2>1. Made' = Made /\ v \in Made
    BY <1>1, <1>2 DEF Made, InMaking
  <2>2. ReadyFor(req[w].plan, req[w].row.terms)'
    BY <1>1, <1>2, <1>4, <1>9, <2>1 DEF ReadyFor, Ready, Existing
  <2> QED BY <1>1, <1>2, <1>5, <2>1, <2>2 DEF RequestOK, ReadyFor, Ready
<1>13. OnlyFailuresLeaveZombies'
  <2> SUFFICES ASSUME NEW u \in Existing', plan'[u].status = "processing"
               PROVE  InProgress(u)' \/ u \in failed'
    BY DEF OnlyFailuresLeaveZombies
  <2>1. u # v /\ u \in Existing /\ plan[u].status = "processing"
    BY <1>3, <1>9 DEF Existing
  <2> QED BY <1>1, <1>5, <2>1 DEF Inv, OnlyFailuresLeaveZombies, InProgress
<1> QED BY <1>1, <1>5, <1>7, <1>10, <1>11, <1>12, <1>13, StepInv

\* An inserted version is new: nobody reads it or fills it yet.
LEMMA Inserted ==
    ASSUME Inv, NEW row \in Row, Insert(row), trip' = trip
    PROVE  /\ created + 1 \in Versions /\ created' = created + 1
           /\ created + 1 \notin Made /\ created + 1 \in Made'
           /\ Existing' = Existing \cup {created + 1}
           /\ created + 1 \notin Existing
           /\ plan'[created + 1] = row
           /\ \A v \in Versions : v # created + 1 => plan'[v] = plan[v]
           /\ plan' \in [Versions -> Row \cup {None}]
           /\ created' \in 0 .. MaxVersions
           /\ StepFacts
<1>1. created \in Nat /\ MaxVersions \in Nat /\ created < MaxVersions /\ created' = created + 1
  BY Types DEF Inv, Insert
<1>2. created + 1 \in Versions /\ created + 1 \notin Made /\ created + 1 \in Made'
  BY <1>1 DEF Versions, Made
<1>3. row # None
  BY Types DEF Inv
<1>4. /\ plan'[created + 1] = row
      /\ \A v \in Versions : v # created + 1 => plan'[v] = plan[v]
      /\ plan' \in [Versions -> Row \cup {None}]
  BY <1>2 DEF Insert, Inv, TypeOK
<1>5. Existing' = Existing \cup {created + 1} /\ created + 1 \notin Existing
  BY <1>2, <1>3, <1>4 DEF Existing, Inv
<1>6. StepFacts
  BY <1>1, <1>4, <1>5 DEF StepFacts, Existing
<1> QED BY <1>1, <1>2, <1>4, <1>5, <1>6

\* plan_rollback makes a ready version at once.
LEMMA CopyVersionInv ==
    ASSUME Inv, NEW w \in Requests, CopyVersion(w)
    PROVE  Inv' /\ StepFacts
<1> DEFINE row == CopyOf(req[w].row)
<1>1. /\ Insert(row) /\ pc[w] = "rollback" /\ Return(w)
      /\ UNCHANGED <<trip, task, failed>>
  BY DEF CopyVersion
<1>2. req[w].row \in Row
  BY <1>1, Held DEF Holds
<1>3. row \in Row /\ row.status = "draft"
  BY <1>2 DEF CopyOf, Row
<1> HIDE DEF row
<1>4. TypeOK'
  BY <1>1, <1>3, Inserted, Returned DEF Inv, TypeOK
<1>5. OneMaker' /\ CopiesAgree'
  BY <1>1, Returned, MakersKept DEF Fills, Keeps, Inv
<1>6. OnlyFailuresLeaveZombies'
  BY <1>1, <1>3, Inserted, Returned
     DEF Inv, OnlyFailuresLeaveZombies, InProgress, Existing
<1> QED BY <1>1, <1>3, <1>4, <1>5, <1>6, Inserted, Returned, StepInv DEF Inv

\* A selection inserts the version it will fill.
LEMMA InsertSelectedInv ==
    ASSUME Inv, NEW w \in Requests, InsertSelected(w)
    PROVE  Inv' /\ StepFacts
<1>1. /\ Insert(Placeholder) /\ pc[w] = "select"
      /\ pc' = [pc EXCEPT ![w] = "select_save"]
      /\ req' = [req EXCEPT ![w].new = created + 1]
      /\ UNCHANGED <<trip, task, failed>>
  BY DEF InsertSelected
<1>2. Placeholder \in Row /\ Placeholder.status = "processing"
  BY DEF Placeholder, Row
<1>3. req[w] # None /\ req[w] \in Read /\ ReadyFor(req[w].plan, req[w].row.terms)
  BY <1>1, Types DEF Inv, RequestOK, Holds
<1>4. /\ req'[w] = [req[w] EXCEPT !.new = created + 1]
      /\ \A x \in Requests : x # w => pc'[x] = pc[x] /\ req'[x] = req[x]
      /\ pc'[w] = "select_save"
  BY <1>1 DEF Inv, TypeOK
<1>5. /\ req'[w] \in Read /\ req'[w].new = created + 1
      /\ req'[w].plan = req[w].plan /\ req'[w].row = req[w].row
  BY <1>1, <1>2, <1>3, <1>4, Inserted DEF Read
<1>6. TypeOK'
  BY <1>1, <1>2, <1>4, <1>5, Inserted DEF Inv, TypeOK, PCs
<1>7. StepFacts
  BY <1>1, <1>2, Inserted
<1>8. RequestOK(w)'
  <2>1. /\ created + 1 \in Made' /\ plan'[created + 1].status = "processing"
        /\ req'[w] # None
    BY <1>1, <1>2, <1>5, Inserted, PlanAssumption
  <2>2. ReadyFor(req[w].plan, req[w].row.terms)'
    <3>1. req[w].plan \in Made /\ req[w].plan # created + 1 /\ Made \subseteq Made'
      BY <1>1, <1>2, <1>3, Inserted, Types DEF ReadyFor, Ready, Inv, Made
    <3>2. req[w].plan \in Existing' =>
              /\ req[w].plan \in Existing /\ plan'[req[w].plan] = plan[req[w].plan]
      BY <1>1, <1>2, <3>1, Inserted DEF Existing
    <3>3. req'[w].plan \in Made' /\ req'[w].plan = req[w].plan
      BY <1>5, <3>1
    <3> QED BY <1>3, <1>5, <3>2, <3>3 DEF ReadyFor, Ready
  <2> QED BY <1>4, <1>5, <2>1, <2>2 DEF RequestOK, InMaking, ReadyFor, Ready
<1>9. OneMaker'
  <2>1. created + 1 \notin Made
    BY <1>1, <1>2, Inserted
  <2>2. \A x \in Requests : pc'[x] = "select_save" =>
            x = w \/ (pc[x] = "select_save" /\ req'[x].new = req[x].new /\ req[x].new \in Made)
    BY <1>4, MakersMade
  <2>3. \A t \in Tasks : Fills(t)' => Fills(t) /\ task'[t].new = task[t].new /\ task[t].new \in Made
    BY <1>1, MakersMade DEF Fills
  <2> QED BY <1>5, <2>1, <2>2, <2>3 DEF Inv, OneMaker
<1>10. CopiesAgree'
  <2>1. \A v : \A k : Copy(v, k)' => Copy(v, k)
    BY <1>1, <1>4, <1>5 DEF Copy, Holds, Keeps, KeptOf
  <2>2. \A v : Filling(v)' => Filling(v) \/ v = created + 1
    BY <1>1, <1>4, <1>5 DEF Filling, Fills
  <2>3. \A v : v = created + 1 => \A k : ~ Copy(v, k)'
    BY <2>1, MakersMade
  <2> QED BY <2>1, <2>2, <2>3, CopiesStep
<1>11. OnlyFailuresLeaveZombies'
  <2> SUFFICES ASSUME NEW v \in Existing', plan'[v].status = "processing"
               PROVE  InProgress(v)' \/ v \in failed'
    BY DEF OnlyFailuresLeaveZombies
  <2>1. CASE v = created + 1
    BY <1>4, <1>5, <2>1 DEF InProgress
  <2>2. CASE v # created + 1
    <3>1. v \in Existing /\ plan[v].status = "processing"
      BY <1>1, <1>2, <2>2, Inserted DEF Existing
    <3> QED BY <1>1, <1>4, <3>1 DEF Inv, OnlyFailuresLeaveZombies, InProgress
  <2> QED BY <2>1, <2>2
<1> QED BY <1>1, <1>4, <1>6, <1>7, <1>8, <1>9, <1>10, <1>11, StepInv

\* A new task has a version of its own to fill, or none.
LEMMA QueuedTask ==
    ASSUME Inv, NEW t \in Tasks, NEW kind \in {"create", "local", "replan", "budget"},
           NEW old \in Versions \cup {None}, NEW new \in Versions \cup {None},
           NEW terms \in Terms \cup {None}, Enqueue(t, kind, old, new, terms)
    PROVE  /\ task' \in [Tasks -> Job \cup {None}]
           /\ task[t] = None /\ task'[t] # None
           /\ task'[t].kind = kind /\ task'[t].old = old /\ task'[t].new = new
           /\ task'[t].stage = "queued"
           /\ \A u \in Tasks : u # t => task'[u] = task[u]
<1> DEFINE job == [kind |-> kind, old |-> old, new |-> new, terms |-> terms,
                   row |-> None, stage |-> "queued"]
<1>1. /\ job \in Job /\ job.kind = kind /\ job.old = old /\ job.new = new
      /\ job.stage = "queued"
  BY DEF Job
<1>2. job # None
  BY <1>1, PlanAssumption
<1>3. task[t] = None /\ task' = [task EXCEPT ![t] = job]
  BY DEF Enqueue
<1> HIDE DEF job
<1> QED BY <1>1, <1>2, <1>3 DEF Inv, TypeOK

\* A placeholder is inserted and its task queued, or the broker is down.
LEMMA PlaceholderInv ==
    ASSUME Inv, NEW t \in Tasks, NEW kind \in {"create", "replan", "budget"},
           NEW old \in Versions \cup {None}, kind = "create" \/ Ready(old),
           NEW terms \in Terms \cup {None}, trip' \in Terms \cup {None}, StepFacts,
           created' = created + 1, created + 1 \in Versions,
           plan' = [plan EXCEPT ![created + 1] = Placeholder],
           \/ Enqueue(t, kind, old, created + 1, terms) /\ UNCHANGED failed
           \/ failed' = failed \cup {created + 1} /\ UNCHANGED task,
           \A x \in Requests : RequestOK(x)' \/ (pc'[x] = pc[x] /\ req'[x] = req[x]),
           \A x \in Requests :
               pc'[x] = "select_save" => pc[x] = "select_save" /\ req'[x].new = req[x].new,
           \A x \in Requests : pc[x] = "select_save" => pc'[x] = pc[x] /\ req'[x] = req[x],
           \A x \in Requests : Holds(x)' => Holds(x) /\ req'[x] = req[x],
           pc' \in [Requests -> PCs], req' \in [Requests -> Read \cup {None}]
    PROVE  Inv'
<1> DEFINE u == created + 1
<1>1. /\ Placeholder \in Row /\ Placeholder.status = "processing" /\ Placeholder # None
      /\ u \notin Made /\ u \in Made' /\ created' \in 0 .. MaxVersions
  <2>1. Placeholder \in Row /\ Placeholder.status = "processing"
    BY DEF Placeholder, Row
  <2>2. created \in Nat /\ MaxVersions \in Nat
    BY Types DEF Inv
  <2> QED BY <2>1, <2>2, Types DEF Inv, Made, Versions
<1>2. /\ plan'[u] = Placeholder /\ u \in Existing'
      /\ \A v \in Versions : v # u => plan'[v] = plan[v]
      /\ plan' \in [Versions -> Row \cup {None}]
  BY <1>1 DEF Inv, TypeOK, Existing
<1>3. u \in Made' /\ plan'[u].status = "processing"
  BY <1>1, <1>2
<1>4. /\ task' \in [Tasks -> Job \cup {None}] /\ failed' \subseteq Versions
      /\ \A x \in Tasks : x # t => task'[x] = task[x]
      /\ \/ /\ task[t] = None /\ task'[t] # None /\ task'[t].kind = kind
            /\ task'[t].old = old /\ task'[t].new = u /\ task'[t].stage = "queued"
            /\ failed' = failed
         \/ task'[t] = task[t] /\ failed' = failed \cup {u}
  <2>1. CASE Enqueue(t, kind, old, u, terms) /\ UNCHANGED failed
    <3>1. u \in Versions \cup {None} /\ kind \in {"create", "local", "replan", "budget"}
      OBVIOUS
    <3> HIDE DEF u
    <3>2. /\ task' \in [Tasks -> Job \cup {None}]
          /\ task[t] = None /\ task'[t] # None
          /\ task'[t].kind = kind /\ task'[t].old = old /\ task'[t].new = u
          /\ task'[t].stage = "queued"
          /\ \A x \in Tasks : x # t => task'[x] = task[x]
      BY <2>1, <3>1, QueuedTask
    <3> QED BY <2>1, <3>2 DEF Inv, TypeOK
  <2>2. CASE failed' = failed \cup {u} /\ UNCHANGED task
    BY <2>2 DEF Inv, TypeOK
  <2> QED BY <2>1, <2>2
<1> HIDE DEF u
<1>5. TypeOK'
  BY <1>1, <1>2, <1>4 DEF Inv, TypeOK
<1>6. TaskOK(t)' \/ task'[t] = task[t]
  <2>1. kind # "create" => Ready(old)'
    <3>1. Ready(old) => old \in Made /\ old # u /\ old \in Made' /\ old \in Versions
      BY <1>1, Types DEF Inv, Ready, Made, u
    <3>2. Ready(old) /\ old \in Existing' => old \in Existing /\ plan'[old] = plan[old]
      BY <1>2, <3>1 DEF Existing
    <3> QED BY <3>1, <3>2 DEF Ready
  <2> QED BY <1>3, <1>4, <2>1 DEF TaskOK, Fills, Keeps, InMaking, Ready
<1>7. OneMaker'
  <2>1. \A x \in Tasks : Fills(x)' => \/ x = t /\ task'[x].new = u
                                      \/ /\ Fills(x) /\ task'[x].new = task[x].new
                                         /\ task[x].new # u
    BY <1>1, <1>4, MakersMade DEF Fills
  <2>2. \A x \in Requests : pc[x] = "select_save" => req[x].new # u
    BY <1>1, MakersMade
  <2> QED BY <2>1, <2>2 DEF Inv, OneMaker
<1>8. CopiesAgree'
  <2>1. \A x \in Tasks : Keeps(x)' => Keeps(x) /\ task'[x] = task[x]
    BY <1>4 DEF Keeps
  <2>2. \A v : \A k : Copy(v, k)' => Copy(v, k)
    BY <2>1 DEF Copy, KeptOf
  <2>3. \A v : Filling(v)' => Filling(v) \/ v = u
    BY <1>4 DEF Filling, Fills
  <2>4. \A v : v = u => \A k : ~ Copy(v, k)'
    BY <2>2, MakersMade DEF u
  <2> QED BY <2>2, <2>3, <2>4, CopiesStep DEF u
<1>9. OnlyFailuresLeaveZombies'
  <2> SUFFICES ASSUME NEW v \in Existing', plan'[v].status = "processing"
               PROVE  InProgress(v)' \/ v \in failed'
    BY DEF OnlyFailuresLeaveZombies
  <2>1. CASE v = u
    BY <1>4, <2>1 DEF InProgress
  <2>2. CASE v # u
    <3>1. v \in Existing /\ plan[v].status = "processing"
      BY <1>2, <2>2 DEF Existing
    <3> QED BY <1>4, <3>1 DEF Inv, OnlyFailuresLeaveZombies, InProgress
  <2> QED BY <2>1, <2>2
<1> QED BY <1>4, <1>5, <1>6, <1>7, <1>8, <1>9, StepInv

\* run_create and plan_edit.
LEMMA CreateTripInv ==
    ASSUME Inv, NEW t \in Tasks, NEW k \in Terms, CreateTrip(t, k)
    PROVE  Inv' /\ StepFacts
<1>1. /\ created = 0 /\ created' = created + 1 /\ created + 1 \in Versions
      /\ plan' = [plan EXCEPT ![created + 1] = Placeholder] /\ trip' = k
      /\ UNCHANGED <<pc, req>>
      /\ \/ Enqueue(t, "create", None, created + 1, k) /\ UNCHANGED failed
         \/ failed' = failed \cup {created + 1} /\ UNCHANGED task
  BY PlanAssumption DEF CreateTrip, Versions
<1>2. Existing = {} /\ Existing' \subseteq {created + 1}
  BY <1>1 DEF Inv, TypeOK, Made, Existing
<1>3. StepFacts
  BY <1>1, <1>2 DEF StepFacts
<1>4. Inv'
  BY <1>1, <1>3, PlaceholderInv DEF Inv, TypeOK, Holds
<1> QED BY <1>3, <1>4

\* plan_edit with a placeholder for run_replan or run_budget_edit.
LEMMA RouteNewVersionInv ==
    ASSUME Inv, NEW w \in Requests, NEW t \in Tasks, NEW kind \in {"replan", "budget"},
           RouteNewVersion(w, t, kind)
    PROVE  Inv' /\ StepFacts
<1>1. /\ Insert(Placeholder) /\ pc[w] = "edit" /\ Return(w) /\ trip' = trip
      /\ \/ Enqueue(t, kind, req[w].plan, created + 1, None) /\ UNCHANGED failed
         \/ failed' = failed \cup {created + 1} /\ UNCHANGED task
  BY DEF RouteNewVersion
<1>2. req[w].plan \in Versions /\ Ready(req[w].plan)
  BY <1>1, Held DEF Holds, ReadyFor
<1>3. Placeholder \in Row
  BY DEF Placeholder, Row
<1>4. StepFacts /\ created + 1 \in Versions
  BY <1>1, <1>3, Inserted
<1>5. /\ created' = created + 1 /\ plan' = [plan EXCEPT ![created + 1] = Placeholder]
      /\ trip' \in Terms \cup {None}
  BY <1>1 DEF Insert, Inv, TypeOK
<1>6. \A x \in Requests : pc[x] = "select_save" => pc'[x] = pc[x] /\ req'[x] = req[x]
  BY <1>1, Returned DEF Inv
<1>7. Inv'
  BY <1>1, <1>2, <1>4, <1>5, <1>6, Returned, PlaceholderInv DEF Inv
<1> QED BY <1>4, <1>7

\* plan_edit without one: run_local_edit will insert its version itself.
LEMMA RouteLocalInv ==
    ASSUME Inv, NEW w \in Requests, NEW t \in Tasks, RouteLocal(w, t)
    PROVE  Inv' /\ StepFacts
<1>1. /\ Enqueue(t, "local", req[w].plan, None, None) /\ pc[w] = "edit" /\ Return(w)
      /\ UNCHANGED <<trip, plan, created, failed>>
  BY DEF RouteLocal
<1>2. req[w].plan \in Versions /\ Ready(req[w].plan)
  BY <1>1, Held DEF Holds, ReadyFor
<1>3. /\ task' \in [Tasks -> Job \cup {None}]
      /\ task[t] = None /\ task'[t] # None
      /\ task'[t].kind = "local" /\ task'[t].old = req[w].plan /\ task'[t].new = None
      /\ task'[t].stage = "queued"
      /\ \A u \in Tasks : u # t => task'[u] = task[u]
  BY <1>1, <1>2, QueuedTask
<1>4. TypeOK'
  BY <1>1, <1>3, Returned DEF Inv, TypeOK
<1>5. StepFacts
  BY <1>1, Types DEF Inv, StepFacts, Existing
<1>6. TaskOK(t)'
  <2>1. \A v : Ready(v) => Ready(v)'
    BY <1>1 DEF Ready, Made, Existing
  <2> QED BY <1>2, <1>3, <2>1 DEF TaskOK, Fills, Keeps, Ready
<1>7. OneMaker' /\ CopiesAgree'
  <2>1. /\ \A u \in Tasks : Fills(u)' => Fills(u) /\ task'[u].new = task[u].new
        /\ \A u \in Tasks : Keeps(u)' => Keeps(u) /\ task'[u] = task[u]
    BY <1>3 DEF Fills, Keeps
  <2> QED BY <1>1, <2>1, Returned, MakersKept DEF Inv
<1>8. OnlyFailuresLeaveZombies'
  BY <1>1, <1>3, Returned DEF Inv, OnlyFailuresLeaveZombies, InProgress, Existing
<1> QED BY <1>1, <1>3, <1>4, <1>5, <1>6, <1>7, <1>8, Returned, StepInv DEF Inv

\* Deleting the trip takes every version with it.
LEMMA DeleteTripInv ==
    ASSUME Inv, NEW w \in Requests, DeleteTrip(w)
    PROVE  Inv' /\ StepFacts
<1>1. /\ pc[w] = "delete" /\ trip' = None /\ plan' = [v \in Versions |-> None] /\ Return(w)
      /\ UNCHANGED <<created, task, failed>>
  BY DEF DeleteTrip
<1>2. Existing' = {}
  BY <1>1 DEF Existing
<1>3. TypeOK'
  BY <1>1, Returned DEF Inv, TypeOK
<1>4. StepFacts
  BY <1>1, <1>2, Types DEF Inv, StepFacts
<1>5. OneMaker' /\ CopiesAgree'
  BY <1>1, Returned, MakersKept DEF Inv, Fills, Keeps
<1>6. OnlyFailuresLeaveZombies'
  BY <1>2 DEF OnlyFailuresLeaveZombies
<1> QED BY <1>1, <1>3, <1>4, <1>5, <1>6, Returned, StepInv DEF Inv

\* A request that dies leaves what it was filling among the failed.
LEMMA AbandonRequestInv ==
    ASSUME Inv, NEW w \in Requests, AbandonRequest(w)
    PROVE  Inv' /\ StepFacts
<1>1. /\ failed' = IF pc[w] = "select_save" THEN failed \cup Unfinished({req[w].new})
                   ELSE failed
      /\ Return(w)
      /\ UNCHANGED <<trip, plan, created, task>>
  BY DEF AbandonRequest
<1>2. TypeOK'
  BY <1>1, Returned DEF Inv, TypeOK, Unfinished, Existing
<1>3. StepFacts
  BY <1>1, Types DEF Inv, StepFacts, Existing
<1>4. OneMaker' /\ CopiesAgree'
  BY <1>1, Returned, MakersKept DEF Inv, Fills, Keeps
<1>5. OnlyFailuresLeaveZombies'
  <2> SUFFICES ASSUME NEW v \in Existing, plan[v].status = "processing"
               PROVE  InProgress(v)' \/ v \in failed'
    BY <1>1 DEF OnlyFailuresLeaveZombies, Existing
  <2>1. CASE pc[w] = "select_save" /\ v = req[w].new
    BY <1>1, <2>1 DEF Unfinished
  <2>2. CASE ~ (pc[w] = "select_save" /\ v = req[w].new)
    BY <1>1, <2>2, Returned DEF Inv, OnlyFailuresLeaveZombies, InProgress
  <2> QED BY <2>1, <2>2
<1> QED BY <1>1, <1>2, <1>3, <1>4, <1>5, Returned, StepInv DEF Inv

-----------------------------------------------------------------------------
(* Tasks.                                                                  *)

\* A task that ends is nobody's.
LEMMA Ended ==
    ASSUME Inv, NEW t \in Tasks, End(t)
    PROVE  /\ task' \in [Tasks -> Job \cup {None}] /\ task'[t] = None
           /\ \A u \in Tasks : u # t => task'[u] = task[u]
           /\ \A u \in Tasks : Fills(u)' => u # t /\ Fills(u) /\ task'[u].new = task[u].new
           /\ \A u \in Tasks : Keeps(u)' => Keeps(u) /\ task'[u] = task[u]
           /\ \A u \in Tasks : TaskOK(u)' \/ task'[u] = task[u]
<1>1. /\ task' \in [Tasks -> Job \cup {None}] /\ task'[t] = None
      /\ \A u \in Tasks : u # t => task'[u] = task[u]
  BY DEF End, Inv, TypeOK
<1>2. TaskOK(t)'
  BY <1>1 DEF TaskOK
<1>3. /\ \A u \in Tasks : Fills(u)' => u # t /\ Fills(u) /\ task'[u].new = task[u].new
      /\ \A u \in Tasks : Keeps(u)' => Keeps(u) /\ task'[u] = task[u]
  BY <1>1 DEF Fills, Keeps
<1> QED BY <1>1, <1>2, <1>3

\* A task goes on with the same version; no row changes.  If it holds a row from then
\* on, it is the one of its old version.
LEMMA MovedOn ==
    ASSUME Inv, NEW t \in Tasks, NEW job \in Job, task[t] # None,
           task' = [task EXCEPT ![t] = job],
           job.new = task[t].new, job.old = task[t].old, job.kind = task[t].kind,
           task[t].stage \in {"queued", "running"},
           \/ /\ job.stage = "running" /\ job.old \in Existing
              /\ plan[job.old].status # "processing" /\ job.row = plan[job.old]
           \/ job.stage = "pipeline" /\ job.kind # "local",
           trip' \in Terms \cup {None}, UNCHANGED <<plan, created, pc, req, failed>>
    PROVE  Inv' /\ StepFacts
<1>1. /\ task'[t] = job /\ job # None /\ task' \in [Tasks -> Job \cup {None}]
      /\ \A u \in Tasks : u # t => task'[u] = task[u]
  BY PlanAssumption DEF Inv, TypeOK
<1>2. TypeOK'
  BY <1>1 DEF Inv, TypeOK
<1>3. StepFacts
  BY Types DEF Inv, StepFacts, Existing
<1>4. \A u \in Tasks : Fills(u)' => Fills(u) /\ task'[u].new = task[u].new
  BY <1>1 DEF Fills
<1>5. Keeps(t)' => /\ job.stage = "running" /\ KeptOf(t)' = job.old /\ job.old \in Made
                   /\ job.old \in Existing /\ plan[job.old] \in Row
                   /\ plan[job.old].status # "processing" /\ job.row = plan[job.old]
  BY <1>1, Types DEF Keeps, KeptOf, Inv
<1>6. TaskOK(t)'
  <2>1. TaskOK(t) /\ UNCHANGED <<Existing, Made>>
    BY DEF Inv, Existing, Made
  <2>2. Keeps(t)' => task'[t].row \in Row /\ ReadyFor(KeptOf(t), task[t].row.terms)'
    BY <1>1, <1>5, <2>1 DEF ReadyFor, Ready
  <2> QED BY <1>1, <1>4, <2>1, <2>2 DEF TaskOK, InMaking, Fills, ReadyFor, Ready
<1>7. OneMaker' /\ \A v : Filling(v)' => Filling(v)
  BY <1>4, MakersApart
<1>8. CopiesAgree'
  <2>1. \A u \in Tasks : u # t => Keeps(u)' = Keeps(u) /\ KeptOf(u)' = KeptOf(u)
    BY <1>1 DEF Keeps, KeptOf
  <2>2. \A v : \A k : Copy(v, k)' =>
            Copy(v, k) \/ (v \in Existing /\ plan[v].status # "processing" /\ plan[v].terms = k)
    BY <1>1, <1>5, <2>1 DEF Copy, Holds
  <2>3. \A v : v = created + 1 => ~ Filling(v)'
    BY <1>7, MakersMade
  <2> QED BY <1>7, <2>2, <2>3, CopiesStep
<1>9. OnlyFailuresLeaveZombies'
  BY <1>1 DEF Inv, OnlyFailuresLeaveZombies, InProgress, Existing
<1> QED BY <1>1, <1>2, <1>3, <1>6, <1>7, <1>8, <1>9, StepInv

\* A worker takes a task up with the rows as they are then.
LEMMA StartTaskInv ==
    ASSUME Inv, NEW t \in Tasks, StartTask(t)
    PROVE  Inv' /\ StepFacts
<1>1. /\ task[t] # None /\ task[t].stage = "queued" /\ task[t] \in Job
      /\ trip' \in Terms \cup {None}
      /\ UNCHANGED <<trip, plan, created, pc, req, failed>>
  BY Types DEF StartTask, Inv, TypeOK
<1>2. CASE task[t].kind = "create"
  <2> DEFINE job == [task[t] EXCEPT !.stage = "pipeline"]
  <2>1. task' = [task EXCEPT ![t] = job]
    BY <1>2 DEF StartTask
  <2>2. /\ job \in Job /\ job.new = task[t].new /\ job.old = task[t].old
        /\ job.kind = "create" /\ job.stage = "pipeline"
    BY <1>1, <1>2 DEF Job
  <2> HIDE DEF job
  <2> QED BY <1>1, <1>2, <2>1, <2>2, MovedOn
<1>3. CASE task[t].kind # "create"
  <2> DEFINE job == [task[t] EXCEPT !.stage = "running", !.row = plan[task[t].old]]
  <2>1. task' = [task EXCEPT ![t] = job] /\ task[t].old \in Existing
    BY <1>3 DEF StartTask
  <2>2. plan[task[t].old] \in Row
    BY <2>1, Types DEF Inv
  <2>3. /\ job \in Job /\ job.new = task[t].new /\ job.old = task[t].old
        /\ job.kind = task[t].kind /\ job.stage = "running" /\ job.row = plan[job.old]
    BY <1>1, <2>2 DEF Job
  <2>4. plan[task[t].old].status # "processing"
    BY <1>1, <1>3, <2>1 DEF Inv, TaskOK, Ready
  <2> HIDE DEF job
  <2> QED BY <1>1, <2>1, <2>3, <2>4, MovedOn
<1> QED BY <1>2, <1>3

\* run_replan changes the trip, no version.
LEMMA UpdateTermsInv ==
    ASSUME Inv, NEW t \in Tasks, NEW k \in Terms, UpdateTerms(t, k)
    PROVE  Inv' /\ StepFacts
<1> DEFINE job == [task[t] EXCEPT !.stage = "pipeline", !.terms = k, !.row = None]
<1>1. /\ task[t] # None /\ task[t].stage = "running" /\ task[t].kind = "replan"
      /\ task' = [task EXCEPT ![t] = job] /\ trip' = k
      /\ UNCHANGED <<plan, created, pc, req, failed>>
  BY DEF UpdateTerms
<1>2. /\ job \in Job /\ job.new = task[t].new /\ job.old = task[t].old
      /\ job.kind = "replan" /\ job.stage = "pipeline"
  BY <1>1, Types DEF Inv, Job
<1> HIDE DEF job
<1> QED BY <1>1, <1>2, MovedOn

\* A task that fails leaves what it was filling among the failed.
LEMMA FailTaskInv ==
    ASSUME Inv, NEW t \in Tasks, FailTask(t)
    PROVE  Inv' /\ StepFacts
<1>1. /\ failed' = failed \cup Unfinished({task[t].new}) /\ End(t)
      /\ UNCHANGED <<trip, plan, created, pc, req>>
  BY DEF FailTask
<1>2. TypeOK'
  BY <1>1, Ended DEF Inv, TypeOK, Unfinished, Existing
<1>3. StepFacts
  BY <1>1, Types DEF Inv, StepFacts, Existing
<1>4. OneMaker' /\ CopiesAgree'
  BY <1>1, Ended, MakersKept DEF Holds
<1>5. OnlyFailuresLeaveZombies'
  <2> SUFFICES ASSUME NEW v \in Existing, plan[v].status = "processing"
               PROVE  InProgress(v)' \/ v \in failed'
    BY <1>1 DEF OnlyFailuresLeaveZombies, Existing
  <2>1. CASE v = task[t].new
    BY <1>1, <2>1 DEF Unfinished
  <2>2. CASE v # task[t].new
    BY <1>1, <2>2, Ended DEF Inv, OnlyFailuresLeaveZombies, InProgress
  <2> QED BY <2>1, <2>2
<1> QED BY <1>1, <1>2, <1>3, <1>4, <1>5, Ended, StepInv

\* The placeholder of an edit that comes to nothing is its own, and not ready.
LEMMA AbortEditInv ==
    ASSUME Inv, NEW t \in Tasks, AbortEdit(t)
    PROVE  Inv' /\ StepFacts
<1> DEFINE v == task[t].new
<1>1. /\ Fills(t) /\ plan' = [plan EXCEPT ![v] = None] /\ End(t)
      /\ UNCHANGED <<trip, created, pc, req, failed>>
  BY DEF AbortEdit, Fills
<1>2. InMaking(v)
  BY <1>1 DEF Inv, TaskOK, Fills
<1> HIDE DEF v
<1>3. /\ Existing' = Existing \ {v} /\ \A u \in Existing' : plan'[u] = plan[u]
      /\ plan' \in [Versions -> Row \cup {None}]
  BY <1>1 DEF Inv, TypeOK, Existing
<1>4. TypeOK'
  BY <1>1, <1>3, Ended DEF Inv, TypeOK
<1>5. StepFacts
  BY <1>1, <1>2, <1>3, Types DEF Inv, StepFacts, InMaking
<1>6. OneMaker' /\ CopiesAgree'
  BY <1>1, Ended, MakersKept DEF Holds
<1>7. OnlyFailuresLeaveZombies'
  BY <1>1, <1>3, Ended DEF Inv, OnlyFailuresLeaveZombies, InProgress, v
<1> QED BY <1>1, <1>4, <1>5, <1>6, <1>7, Ended, StepInv

\* A task completes the version it fills, or inserts it again; nobody else fills it.
LEMMA Filled ==
    ASSUME Inv, NEW t \in Tasks, Fills(t), NEW v, v = task[t].new,
           NEW row \in Row, row.status = "draft", plan' = [plan EXCEPT ![v] = row],
           task' \in [Tasks -> Job \cup {None}],
           task'[t] # None =>
             (task'[t].stage = "summarize" /\ task'[t].kind # "local" /\ task'[t].new = v),
           \A u \in Tasks : u # t => task'[u] = task[u],
           UNCHANGED <<trip, created, pc, req, failed>>
    PROVE  Inv' /\ StepFacts
<1>1. InMaking(v) /\ Filling(v) /\ v \in Versions
  BY Types DEF Inv, TaskOK, Fills, Filling, InMaking
<1>2. /\ plan'[v] = row /\ row # None /\ (v \in Existing => plan[v].status = "processing")
      /\ \A u \in Versions : u # v => plan'[u] = plan[u]
      /\ Existing' = Existing \cup {v} /\ Made' = Made
  BY <1>1, Types DEF Inv, TypeOK, Existing, InMaking, Made
<1>3. TypeOK'
  BY <1>2 DEF Inv, TypeOK
<1>4. /\ \A u \in Tasks : Fills(u)' => Fills(u) /\ task'[u].new = task[u].new /\ task'[u].new # v
      /\ \A u \in Tasks : Keeps(u)' => Keeps(u) /\ task'[u] = task[u]
  BY DEF Inv, OneMaker, Fills, Keeps
<1>5. \A w \in Requests : pc'[w] = "select_save" => req'[w].new # v
  BY DEF Inv, OneMaker
<1>6. /\ task'[t] # None =>
           (task'[t].stage = "summarize" /\ task'[t].kind # "local" /\ task'[t].new = v)
      /\ \A u \in Tasks : task[u] # None /\ task[u].new # v =>
                             task'[u] # None /\ task'[u].new = task[u].new
  OBVIOUS
<1>7. ~ Filling(v)'
  BY <1>4, <1>5 DEF Filling
<1>8. StepFacts
  <2>1. v \notin Existing => Again(v)
    BY <1>1, <1>2, <1>7 DEF Again, Inv, CopiesAgree, InMaking
  <2>2. \A u \in Existing : u # v => plan'[u] = plan[u]
    BY <1>2 DEF Existing
  <2> QED BY <1>2, <1>7, <2>1, <2>2, Types DEF Inv, StepFacts
<1>9. TaskOK(t)'
  <2>1. v \in Made'
    BY <1>1, <1>2 DEF InMaking
  <2> QED BY <1>2, <1>6, <2>1 DEF TaskOK, Ready, Fills, Keeps
<1>10. OneMaker' /\ CopiesAgree'
  BY <1>4, MakersKept DEF Holds
<1>11. OnlyFailuresLeaveZombies'
  <2> SUFFICES ASSUME NEW u \in Existing', plan'[u].status = "processing"
               PROVE  InProgress(u)' \/ u \in failed
    BY DEF OnlyFailuresLeaveZombies
  <2>1. u # v /\ u \in Existing /\ plan[u].status = "processing"
    BY <1>2 DEF Existing
  <2> QED BY <1>6, <2>1 DEF Inv, OnlyFailuresLeaveZombies, InProgress
<1> QED BY <1>3, <1>8, <1>9, <1>10, <1>11, StepInv

\* run_full_pipeline and run_replan complete their version.
LEMMA SavePipelineResultInv ==
    ASSUME Inv, NEW t \in Tasks, SavePipelineResult(t)
    PROVE  Inv' /\ StepFacts
<1> DEFINE v == task[t].new
           row == [plan[v] EXCEPT !.status = "draft", !.terms = task[t].terms, !.cached = {}]
<1>1. /\ task[t] # None /\ task[t].stage = "pipeline" /\ v \in Existing
      /\ plan' = [plan EXCEPT ![v] = row] /\ End(t)
      /\ UNCHANGED <<trip, created, pc, req, failed>>
  BY DEF SavePipelineResult
<1>2. Fills(t)
  BY <1>1 DEF Inv, TaskOK, Fills
<1>3. row \in Row /\ row.status = "draft"
  <2>1. task[t].terms \in Terms \cup {None} /\ plan[v] \in Row
    BY <1>1, Types DEF Inv, Job
  <2> QED BY <2>1 DEF Row
<1> HIDE DEF row
<1>4. /\ task' \in [Tasks -> Job \cup {None}] /\ task'[t] = None
      /\ \A u \in Tasks : u # t => task'[u] = task[u]
  BY <1>1, Ended
<1> QED BY <1>1, <1>2, <1>3, <1>4, Filled

\* run_budget_edit completes its version from the old one as it read it.
LEMMA SaveBudgetEditInv ==
    ASSUME Inv, NEW t \in Tasks, SaveBudgetEdit(t)
    PROVE  Inv' /\ StepFacts
<1> DEFINE row == CopyOf(task[t].row)
           job == [task[t] EXCEPT !.stage = "summarize"]
<1>1. /\ task[t] # None /\ task[t].stage = "running" /\ task[t].kind = "budget"
      /\ plan' = [plan EXCEPT ![task[t].new] = row] /\ task' = [task EXCEPT ![t] = job]
      /\ UNCHANGED <<trip, created, pc, req, failed>>
  BY DEF SaveBudgetEdit, SaveRow
<1>2. row \in Row /\ row.status = "draft"
  <2>1. task[t].row \in Row
    BY <1>1, Held DEF Keeps
  <2> QED BY <2>1 DEF Row, CopyOf
<1>3. /\ job \in Job /\ job.new = task[t].new /\ job.kind = "budget" /\ job.stage = "summarize"
  BY <1>1, Types DEF Inv, Job
<1> HIDE DEF row, job
<1>4. /\ task' \in [Tasks -> Job \cup {None}] /\ task'[t] = job
      /\ \A u \in Tasks : u # t => task'[u] = task[u]
  BY <1>1, <1>3 DEF Inv, TypeOK
<1> QED BY <1>1, <1>2, <1>3, <1>4, Filled DEF Fills

\* A row a task saves at its end is ready, with its terms; one that is gone is inserted
\* from a copy.
LEMMA TextSaved ==
    ASSUME Inv, NEW t \in Tasks, task[t] # None, ~ Fills(t),
           NEW v \in Versions, v = task[t].new,
           NEW row \in Row, row.status # "processing",
           v \in Existing => /\ plan[v].status # "processing" /\ row.terms = plan[v].terms
                             /\ task[t].stage = "narrate" \/ row.status = plan[v].status,
           v \notin Existing => Copy(v, row.terms),
           plan' = [plan EXCEPT ![v] = row], End(t),
           UNCHANGED <<trip, created, pc, req, failed>>
    PROVE  Inv' /\ StepFacts
<1>1. /\ plan'[v] = row /\ row # None
      /\ \A u \in Versions : u # v => plan'[u] = plan[u]
      /\ Existing' = Existing \cup {v}
  BY Types DEF Inv, TypeOK, Existing
<1>2. TypeOK'
  BY <1>1, Ended DEF Inv, TypeOK
<1>3. OneMaker' /\ CopiesAgree' /\ \A x : Filling(x)' => Filling(x)
  BY Ended, MakersKept, MakersApart DEF Holds
<1>4. v \notin Existing => Again(v)
  <2> SUFFICES ASSUME v \notin Existing PROVE Again(v)
    OBVIOUS
  <2>1. row.terms \in SomeTerms /\ Copy(v, row.terms)
    BY DEF Row, SomeTerms
  <2>2. v \in Made
    BY <2>1, Held DEF ReadyFor, Ready
  <2>3. /\ \A k \in SomeTerms : Copy(v, k) => k = row.terms
        /\ ~ Filling(v)
    BY <2>1 DEF Inv, CopiesAgree
  <2> QED BY <1>1, <1>3, <2>1, <2>2, <2>3 DEF Again
<1>5. StepFacts
  <2>1. created' \in Nat /\ created <= created'
    BY Types DEF Inv
  <2>2. \A u \in Existing : u # v => plan'[u] = plan[u]
    BY <1>1 DEF Existing
  <2> QED BY <1>1, <1>4, <2>1, <2>2 DEF StepFacts
<1>6. OnlyFailuresLeaveZombies'
  <2> SUFFICES ASSUME NEW u \in Existing', plan'[u].status = "processing"
               PROVE  InProgress(u)' \/ u \in failed
    BY DEF OnlyFailuresLeaveZombies
  <2>1. u # v /\ u \in Existing /\ plan[u].status = "processing"
    BY <1>1 DEF Existing
  <2> QED BY <2>1, Ended DEF Inv, OnlyFailuresLeaveZombies, InProgress
<1> QED BY <1>2, <1>3, <1>5, <1>6, Ended, StepInv

\* run_budget_edit adds the summary to the version it completed.
LEMMA SummarizeBudgetEditInv ==
    ASSUME Inv, NEW t \in Tasks, SummarizeBudgetEdit(t)
    PROVE  Inv' /\ StepFacts
<1> DEFINE v == task[t].new
           row == [plan[v] EXCEPT !.summary = TRUE]
<1>1. /\ task[t] # None /\ task[t].stage = "summarize" /\ v \in Existing /\ v \in Versions
      /\ plan' = [plan EXCEPT ![v] = row] /\ End(t)
      /\ UNCHANGED <<trip, created, pc, req, failed>>
  BY DEF SummarizeBudgetEdit, Existing
<1>2. plan[v] \in Row /\ plan[v].status # "processing"
  BY <1>1, Types DEF Inv, TaskOK, Ready
<1>3. row \in Row /\ row.status = plan[v].status /\ row.terms = plan[v].terms
  BY <1>2 DEF Row
<1>4. ~ Fills(t)
  BY <1>1 DEF Fills
<1> HIDE DEF row
<1> QED BY <1>1, <1>2, <1>3, <1>4, TextSaved

\* run_local_edit saves the version it committed once more, whole.
LEMMA SaveEditedInv ==
    ASSUME Inv, NEW t \in Tasks, SaveEdited(t)
    PROVE  Inv' /\ StepFacts
<1> DEFINE v == task[t].new
           row == [task[t].row EXCEPT !.summary = TRUE]
<1>1. /\ task[t] # None /\ task[t].stage = "narrate"
      /\ plan' = [plan EXCEPT ![v] = row] /\ End(t)
      /\ UNCHANGED <<trip, created, pc, req, failed>>
  BY DEF SaveEdited, SaveRow
<1>2. /\ task[t].row \in Row /\ task[t].row.status = "draft"
      /\ v \in Versions /\ Copy(v, task[t].row.terms) /\ ReadyFor(v, task[t].row.terms)
  BY <1>1, Held DEF Inv, TaskOK, Keeps, KeptOf
<1>3. row \in Row /\ row.status = "draft" /\ row.terms = task[t].row.terms
  BY <1>2 DEF Row
<1>4. v \in Existing => plan[v].status # "processing" /\ row.terms = plan[v].terms
  BY <1>2, <1>3 DEF ReadyFor, Ready
<1>5. ~ Fills(t)
  BY <1>1 DEF Fills
<1> HIDE DEF row
<1> QED BY <1>1, <1>2, <1>3, <1>4, <1>5, TextSaved

\* The version a local edit commits is ready at once, and the task keeps its copy.
LEMMA CommitEditedInv ==
    ASSUME Inv, NEW t \in Tasks, CommitEdited(t)
    PROVE  Inv' /\ StepFacts
<1> DEFINE row == CopyOf(task[t].row)
           job == [task[t] EXCEPT !.stage = "narrate", !.new = created + 1, !.row = row]
<1>1. /\ task[t] # None /\ task[t].stage = "running" /\ task[t].kind = "local"
      /\ Insert(row) /\ task' = [task EXCEPT ![t] = job]
      /\ UNCHANGED <<trip, pc, req, failed>>
  BY DEF CommitEdited
<1>2. row \in Row /\ row.status = "draft"
  <2>1. task[t].row \in Row
    BY <1>1, Held DEF Keeps
  <2> QED BY <2>1 DEF Row, CopyOf
<1> HIDE DEF row
<1>3. /\ created + 1 \in Versions /\ created + 1 \in Made' /\ created + 1 \notin Existing
      /\ Existing' = Existing \cup {created + 1} /\ plan'[created + 1] = row
      /\ \A v \in Versions : v # created + 1 => plan'[v] = plan[v]
      /\ StepFacts
  BY <1>1, <1>2, Inserted
<1>4. /\ job \in Job /\ job.stage = "narrate" /\ job.kind = "local"
      /\ job.new = created + 1 /\ job.row = row
  BY <1>1, <1>2, <1>3, Types DEF Inv, Job
<1> HIDE DEF job
<1>5. /\ task' \in [Tasks -> Job \cup {None}] /\ task'[t] = job /\ job # None
      /\ \A u \in Tasks : u # t => task'[u] = task[u]
  BY <1>1, <1>4, PlanAssumption DEF Inv, TypeOK
<1>6. TypeOK'
  BY <1>1, <1>2, <1>5, Inserted DEF Inv, TypeOK
<1>7. \A u \in Tasks : Fills(u)' => Fills(u) /\ task'[u].new = task[u].new
  BY <1>4, <1>5 DEF Fills
<1>8. TaskOK(t)'
  <2>1. Fills(t)' = FALSE /\ KeptOf(t)' = created + 1
    BY <1>4, <1>5 DEF Fills, KeptOf
  <2> QED BY <1>2, <1>3, <1>4, <1>5, <2>1 DEF TaskOK, ReadyFor, Ready
<1>9. OneMaker' /\ CopiesAgree'
  <2>1. OneMaker' /\ \A v : Filling(v)' => Filling(v)
    BY <1>1, <1>7, MakersApart
  <2>2. \A v : \A k : Copy(v, k)' => Copy(v, k) \/ (v = created + 1 /\ k = row.terms)
    BY <1>1, <1>4, <1>5 DEF Copy, Holds, Keeps, KeptOf
  <2>3. \A v : v = created + 1 => ~ Filling(v)'
    BY <2>1, MakersMade
  <2> QED BY <2>1, <2>2, <2>3, CopiesStep
<1>10. OnlyFailuresLeaveZombies'
  <2> SUFFICES ASSUME NEW v \in Existing', plan'[v].status = "processing"
               PROVE  InProgress(v)' \/ v \in failed
    BY <1>1 DEF OnlyFailuresLeaveZombies
  <2>1. v \in Existing /\ plan[v].status = "processing" /\ v # None
    BY <1>2, <1>3, Types DEF Inv, Existing
  <2>2. task[t].new = None
    BY <1>1 DEF Inv, TaskOK
  <2> QED BY <1>1, <1>5, <2>1, <2>2 DEF Inv, OnlyFailuresLeaveZombies, InProgress
<1> QED BY <1>1, <1>3, <1>5, <1>6, <1>8, <1>9, <1>10, StepInv

-----------------------------------------------------------------------------
\* One case for each action.
LEMMA NextInv ==
    ASSUME Inv, Next
    PROVE  Inv' /\ StepFacts
BY CreateTripInv, UpdateTermsInv, ReadInv, SaveConfirmInv, CopyVersionInv, InsertSelectedInv,
   SaveSelectedInv, SummarizeSelectedInv, SaveReturnLegInv, CheckDeleteInv, DeleteTripInv,
   AbandonRequestInv,
   RouteLocalInv, RouteNewVersionInv, StartTaskInv, AbortEditInv, SavePipelineResultInv,
   SaveBudgetEditInv, SummarizeBudgetEditInv, CommitEditedInv, SaveEditedInv, FailTaskInv
   DEF Next

\* Nothing changes.
LEMMA StutterInv == Inv /\ UNCHANGED vars => Inv'
BY DEF vars, Inv, TypeOK, Existing, Made, RequestOK, TaskOK, OneMaker, Fills, InMaking, Ready,
       ReadyFor, OnlyFailuresLeaveZombies, InProgress, CopiesAgree, Copy, Holds, Keeps, KeptOf,
       Filling, SomeTerms

\* The inductive invariant holds throughout.
THEOREM Invariance == Spec => []Inv
<1>1. Inv /\ [Next]_vars => Inv'
  BY NextInv, StutterInv
<1> QED BY <1>1, InitInv, PTL DEF Spec

\* Rows, and the copies of rows that requests and tasks hold, keep their types.
THEOREM TypeCorrectness == Spec => []TypeOK
<1>1. Inv => TypeOK
  BY DEF Inv
<1> QED BY <1>1, Invariance, PTL

\* Apart from exceptions, dead processes and a dead broker, whoever inserts a PROCESSING
\* version completes or removes it (the cleanup of run_replan and run_budget_edit).
THEOREM WorkCleansUp == Spec => []OnlyFailuresLeaveZombies
<1>1. Inv => OnlyFailuresLeaveZombies
  BY DEF Inv
<1> QED BY <1>1, Invariance, PTL

\* "Past versions are preserved" (trips/models.py:120): no edit, rollback, selection or
\* regeneration, however stale the rows it saves, changes the itinerary of a ready version.
THEOREM ReadyVersionsArePreserved == Spec => VersionsArePreserved
<1> DEFINE Kept == \A v \in Existing :
                       plan[v].status # "processing" /\ trip' # None =>
                           /\ plan'[v] # None
                           /\ plan'[v].status # "processing"
                           /\ plan'[v].terms = plan[v].terms
<1>1. Inv /\ [Next]_vars => [Kept]_vars
  BY NextInv DEF StepFacts, Existing
<1> QED BY <1>1, Invariance, PTL DEF Spec, VersionsArePreserved

\* run_local_edit's save of the version it made is the only way back from CONFIRMED.
THEOREM OnlyLocalEditsRevert == Spec => OnlyItsOwnEditReverts
<1> DEFINE Kept == \A v \in Existing :
                       plan[v].status = "confirmed" /\ plan'[v] # None
                                             /\ plan'[v].status # "confirmed" =>
                           \E t \in Tasks : /\ task[t] # None
                                            /\ task[t].stage = "narrate" /\ task[t].new = v
<1>1. Inv /\ [Next]_vars => [Kept]_vars
  BY NextInv DEF StepFacts, Existing
<1> QED BY <1>1, Invariance, PTL DEF Spec, OnlyItsOwnEditReverts
=============================================================================
