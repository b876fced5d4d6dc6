----------------------------- MODULE IntentGate -----------------------------
(***************************************************************************)
(* From a message to a run: parse_request, parse_answer, parse_correct,    *)
(* parse_confirm and run_create of agents/views.py.                        *)
(*                                                                         *)
(* Each parse is kept in the cache under an id of its own with all that    *)
(* was said to get there.  While it waits for Claude it holds only what it *)
(* read at its start and it writes under a fresh id, so it is one step     *)
(* here.  A confirm or a run reads the cache and writes later: others come *)
(* in between, entries expire, and any step can fail.  A run is started    *)
(* from a confirmed entry: first its rows are inserted, then its task is   *)
(* queued.                                                                 *)
(***************************************************************************)
EXTENDS IntentParser

CONSTANTS
    Requests,       \* HTTP requests in progress at once
    Ids,            \* bound: the parse ids a run can hand out
    RunIds,         \* bound: the run ids a run can hand out
    Utterances,     \* what a user may type: sequences of words
    MaxMissed,      \* bound: the slots Claude misses in one answer
    LastDay         \* bound: the days that pass

IsWord(w) ==
    /\ w.slot \in Slots \cup {None}
    /\ w.number \in Nat /\ w.scale \in Nat \ {0}
    /\ w.scale = 1 => w.number = 0 /\ w.unit \notin {"space", "man", "cheon"}
    /\ w.slot = "budget" => w.value \in Nat \ {0}
    /\ w.slot = "destinations" => 1 \in DOMAIN w.value
    /\ w.slot = "nights" => w.value \in Nat
    /\ w.slot = "pax" => w.value \in [adult : Nat, child : Nat]

SaysBudget(w, amount) == w.slot = "budget" /\ w.value = amount

\* How people write numbers: man and cheon are for the budget, and so is a number from
\* ten thousand on; the others count days, persons or years.
NumbersAreMeant(msg) ==
    \A i \in DOMAIN msg :
        /\ msg[i].unit \notin {"man", "cheon"} =>
              msg[i].number < MIN_BUDGET_ABSOLUTE \/ SaysBudget(msg[i], msg[i].number)
        /\ msg[i].unit = "man" =>
              IF i < Len(msg) /\ msg[i + 1].unit = "cheon"
              THEN SaysBudget(msg[i + 1], msg[i].number * 10000 + msg[i + 1].number * 1000)
              ELSE SaysBudget(msg[i], msg[i].number * 10000)

Words(utterance) == {utterance[i] : i \in DOMAIN utterance}

ASSUME IntentGateAssumption ==
    /\ LastDay \in Nat /\ MaxMissed \in Nat /\ None \notin Nat \cup Slots
    /\ \A u \in Utterances :
          /\ u \in Seq(Words(u)) /\ u # <<>>
          /\ \A w \in Words(u) : IsWord(w)
          /\ NumbersAreMeant(u) /\ u[1].unit # "cheon"

VARIABLES
    cache,      \* cache["parse:p"]: what was said, the card, whether confirmed
    req,        \* req[w]: where request w is and what it has read
    plans,      \* the rows inserted: the run, the id it is from and its fields
    queued,     \* the runs whose task is queued
    today,
    shown,      \* history: what responses showed of the cards, each with its id
    agreed      \* history: those shown again in the answer to a confirm

vars == <<cache, req, plans, queued, today, shown, agreed>>

Idle == [step |-> "idle"]

Init ==
    /\ cache = [p \in {} |-> Idle]
    /\ req = [w \in Requests |-> Idle]
    /\ plans = {}
    /\ queued = {}
    /\ today = 0
    /\ shown = {}
    /\ agreed = {}

At(w, step) == req[w].step = step
Return(w) == req' = [req EXCEPT ![w] = Idle]

\* cache.set
CacheSet(p, entry) ==
    cache' = [q \in DOMAIN cache \cup {p} |-> IF q = p THEN entry ELSE cache[q]]

-----------------------------------------------------------------------------
(* parse_request, parse_answer, parse_correct                              *)

SaidSlots(msg) == {msg[i].slot : i \in DOMAIN msg} \ {None}

\* parse_intent and what its callers do with it: the answer is repaired, kept
\* under a fresh id and shown, complete or with a question.  No JSON in three
\* answers, or an answer without a place, a budget or a theme, is a 422 that
\* leaves nothing behind.
ParseIntent(msg, p) ==
    /\ \A s \in shown : s[1] # p
    /\ \E missed \in SUBSET SaidSlots(msg) :
          LET answer == ClaudeAnswer(msg, missed)
              card == Card(msg, answer)
          IN  /\ Cardinality(missed) <= MaxMissed
              /\ IsTravelRelated(answer)
              /\ CacheSet(p, [said |-> msg, card |-> card, confirmed |-> FALSE])
              /\ shown' = shown \cup {<<p, Shown(card)>>}
    /\ UNCHANGED <<req, plans, queued, today, agreed>>

ParseRequest(text, p) == ParseIntent(text, p)

\* The answer to a question is put behind what was said before, with a space between.
ParseAnswer(q, text, p) ==
    /\ q \in DOMAIN cache
    /\ ParseIntent(cache[q].said \o text, p)

\* So is a correction, between the name of its field and a word of the code's own.
Aside == Plain("other", None, None)

ParseCorrect(q, text, p) ==
    /\ q \in DOMAIN cache
    /\ \E slot \in Slots : SaidSlots(text) = {slot}
    /\ ParseIntent(cache[q].said \o (<<Aside>> \o text \o <<Aside>>), p)

-----------------------------------------------------------------------------
(* parse_confirm                                                           *)

ReadForConfirm(w, p) ==
    /\ At(w, "idle")
    /\ p \in DOMAIN cache
    /\ req' = [req EXCEPT ![w] = [step |-> "confirm", id |-> p, entry |-> cache[p]]]
    /\ UNCHANGED <<cache, plans, queued, today, shown, agreed>>

\* The entry is written back as it was read, even if it has expired by now.
SaveConfirm(w) ==
    /\ At(w, "confirm")
    /\ LET entry == req[w].entry
       IN  /\ CacheSet(req[w].id, [said |-> entry.said, card |-> entry.card,
                                   confirmed |-> TRUE])
           /\ agreed' = agreed \cup {<<req[w].id, Shown(entry.card)>>}
    /\ Return(w)
    /\ UNCHANGED <<plans, queued, today, shown>>

-----------------------------------------------------------------------------
(* run_create                                                              *)

\* Dates are needed, and must not begin in the past.
DatesAreValid(fields) ==
    /\ fields.dates # None
    /\ fields.dates.start >= today

\* Anything in the cache is good enough to run.
ReadForRunUnconfirmed(w, p) ==
    /\ At(w, "idle")
    /\ p \in DOMAIN cache
    /\ DatesAreValid(cache[p].card.fields)
    /\ req' = [req EXCEPT ![w] = [step |-> "insert", id |-> p,
                                  fields |-> cache[p].card.fields]]
    /\ UNCHANGED <<cache, plans, queued, today, shown, agreed>>

ReadForRun(w, p) ==
    /\ At(w, "idle")
    /\ p \in DOMAIN cache
    /\ cache[p].confirmed
    /\ DatesAreValid(cache[p].card.fields)
    /\ req' = [req EXCEPT ![w] = [step |-> "insert", id |-> p,
                                  fields |-> cache[p].card.fields]]
    /\ UNCHANGED <<cache, plans, queued, today, shown, agreed>>

\* total_budget is a NOT NULL column, a stay of negative nights violates a check.
RowsAreValid(fields) ==
    /\ fields.budget # None
    /\ \A i \in DOMAIN fields.destinations :
          \/ fields.destinations[i].nights \notin {None, 0}
          \/ fields.dates.end >= fields.dates.start

IsFresh(r) == r \notin queued /\ \A plan \in plans : plan.run # r

\* create_request_and_plan, in one transaction.
CreateRequestAndPlan(w, r) ==
    /\ At(w, "insert")
    /\ RowsAreValid(req[w].fields)
    /\ IsFresh(r)
    /\ plans' = plans \cup {[run |-> r, from |-> req[w].id, fields |-> req[w].fields]}
    /\ req' = [req EXCEPT ![w] = [step |-> "queue", run |-> r]]
    /\ UNCHANGED <<cache, queued, today, shown, agreed>>

\* run_full_pipeline.delay; the run is then entered in the cache (RunStream).
QueueRun(w) ==
    /\ At(w, "queue")
    /\ queued' = queued \cup {req[w].run}
    /\ Return(w)
    /\ UNCHANGED <<cache, plans, today, shown, agreed>>

\* A message instead of a parse id is searched for as it is, without a plan.
RunMessage(r) ==
    /\ IsFresh(r)
    /\ queued' = queued \cup {r}
    /\ UNCHANGED <<cache, req, plans, today, shown, agreed>>

-----------------------------------------------------------------------------
\* An exception answered with an error, an IntegrityError among them, or the end
\* of the web process.
Fail(w) ==
    /\ ~At(w, "idle")
    /\ Return(w)
    /\ UNCHANGED <<cache, plans, queued, today, shown, agreed>>

\* Thirty minutes after it was written, or when Redis is short of memory.
Expire(p) ==
    /\ p \in DOMAIN cache
    /\ cache' = [q \in DOMAIN cache \ {p} |-> cache[q]]
    /\ UNCHANGED <<req, plans, queued, today, shown, agreed>>

NextDay ==
    /\ today < LastDay
    /\ today' = today + 1
    /\ UNCHANGED <<cache, req, plans, queued, shown, agreed>>

Next ==
    \/ \E p \in Ids, text \in Utterances :
          \/ ParseRequest(text, p)
          \/ \E q \in Ids : ParseAnswer(q, text, p) \/ ParseCorrect(q, text, p)
    \/ \E w \in Requests :
          \/ \E p \in Ids : ReadForConfirm(w, p) \/ ReadForRun(w, p)
          \/ \E r \in RunIds : CreateRequestAndPlan(w, r)
          \/ SaveConfirm(w)
          \/ QueueRun(w)
          \/ Fail(w)
    \/ \E r \in RunIds : RunMessage(r)
    \/ \E p \in Ids : Expire(p)
    \/ NextDay

Spec == Init /\ [][Next]_vars

-----------------------------------------------------------------------------
Vocabulary == (UNION {Words(u) : u \in Utterances}) \cup {Aside}

\* What Utterances say of a slot.
Values(slot) == {w.value : w \in {v \in Vocabulary : v.slot = slot}}

AreFields(f) ==
    /\ f.origin \in {None, Profile} \cup Values("origin")
    /\ f.budget \in Nat \cup {None}
    /\ f.pax \in [adult : Nat, child : Nat]
    /\ f.dates \in {None} \cup Values("dates")
    /\ f.themes \in {{}} \cup Values("themes")
    /\ \A i \in DOMAIN f.destinations : f.destinations[i].nights \in Nat \cup {None}

\* The shape of the state; the fields of a card are of their type after the
\* repairs of the code.
TypeOK ==
    /\ DOMAIN cache \subseteq Ids
    /\ \A p \in DOMAIN cache :
          cache[p].confirmed \in BOOLEAN /\ AreFields(cache[p].card.fields)
    /\ \A w \in Requests : req[w].step \in {"idle", "confirm", "insert", "queue"}
    /\ \A plan \in plans : plan.run \in RunIds /\ plan.from \in Ids /\ AreFields(plan.fields)
    /\ queued \subseteq RunIds
    /\ today \in 0 .. LastDay

\* The runs started with the rows of a plan, and what they search for.
Started == {<<plan.run, plan.fields>> : plan \in {q \in plans : q.run \in queued}}

\* What runs is what the user confirmed, as it was shown: however requests,
\* corrections, expiries and failures interleave, a card never changes under its
\* id and no run is started from one that was not agreed to.
Promise == INSTANCE ConfirmedRuns WITH started <- Started

ImplementsConfirmedRuns == Promise!Spec

\* The slots asked for are those the card has nothing for: Claude's own list of
\* missing slots and the repairs of the code never disagree, so no question is
\* put about something known and no incomplete card passes for complete.
AsksForWhatIsMissing ==
    \A s \in shown :
        /\ "budget" \in s[2].asked <=> s[2].fields.budget = None
        /\ "destinations" \in s[2].asked <=> s[2].fields.destinations = <<>>

BudgetsSaid(msg) == {msg[i].value : i \in Said(msg, "budget")}

\* Two numbers of the message have nothing but spaces and commas between them.
NumbersTouch(msg) ==
    \E i \in 1 .. Len(msg) - 1 : msg[i].unit = "space" /\ msg[i + 1].scale > 1

\* normalize_budget may take a day, a month or a head count for the budget.  In a
\* message in which no two numbers touch, also over several answers and corrections, it
\* finds no other number than those that were typed: the card kept for the user to
\* confirm has a budget that was said, or the warning about one that cannot be
\* (intent_parser.py:429), which parse_detail shows.
InventionIsFlaggedUnlessNumbersTouch ==
    \A p \in DOMAIN cache :
        \/ NumbersTouch(cache[p].said)
        \/ cache[p].card.fields.budget \in BudgetsSaid(cache[p].said) \cup {None}
        \/ "unreally_low" \in cache[p].card.warnings

\* The same of every message.  In no run: TLC refutes it, because normalizer.py:41
\* makes one number of two that touch; see the README.
InventedBudgetIsFlagged ==
    \A p \in DOMAIN cache :
        \/ cache[p].card.fields.budget \in BudgetsSaid(cache[p].said) \cup {None}
        \/ "unreally_low" \in cache[p].card.warnings

\* A slot nobody spoke of is asked for (views.py:145).  In no run: TLC refutes it,
\* see the README.
BudgetWasSaid ==
    \A p \in DOMAIN cache :
        cache[p].card.fields.budget \in BudgetsSaid(cache[p].said) \cup {None}

\* "Changed value, in natural language, ... adults 2" (views.py:370): the party is the
\* one named last.  In no run: TLC refutes it, see the README.
PartyIsTheLastOneSaid ==
    \A p \in DOMAIN cache :
        LET said == Said(cache[p].said, "pax")
        IN  said # {} =>
              cache[p].card.fields.pax.adult = cache[p].said[Max(said)].value.adult

\* "No pipeline without the required slots" (slot_validator.py:8).  In no run: TLC
\* refutes it, see the README.
RunsKnowWhereToGo == \A plan \in plans : plan.fields.destinations # <<>>
=============================================================================
