------------------------------ MODULE RunStream ------------------------------
(***************************************************************************)
(* The events of one run on their way to the browser: agents/trace.py      *)
(* records and broadcasts each event through Redis, and run_stream of      *)
(* agents/views.py turns both into a server-sent stream.                   *)
(*                                                                         *)
(* An event is named by its place in the recording.  Recording and         *)
(* broadcast are one MULTI, so a subscription taken when n events are      *)
(* recorded receives exactly the events after n, in order.  The only       *)
(* identity an event has on the wire is its time in milliseconds: a stream *)
(* drops what is not later than the last event it sent, and a client that  *)
(* reconnects names the last event it got by that time.                    *)
(***************************************************************************)
EXTENDS Integers, Sequences

CONSTANTS
    Clients,    \* browsers that watch the run
    MaxEvents,  \* bound: events of the run
    MaxTime     \* bound: milliseconds that pass

ASSUME RunStreamAssumption == MaxEvents \in Nat /\ MaxTime \in Nat \ {0}

VARIABLES
    now,     \* time.time(), in milliseconds; 0 stands for a missing Last-Event-ID
    stamp,   \* the recording: stamp[i] is the "t" of the i-th event
    done,    \* the event of kind "done", 0 while there is none
    mapped,  \* the cache entry that maps the run_id to its task
    worker,  \* the state of the Celery task
    conn,    \* conn[c]: the connection of a client and its generator
    got      \* got[c]: the events that reached a client, over all its connections

vars == <<now, stamp, done, mapped, worker, conn, got>>

Time == 0 .. MaxTime
Event == 1 .. MaxEvents
Connection ==
    [phase : {"closed", "subscribed", "replay", "live"},
     first : 1 .. MaxEvents + 1,  \* the first event its subscription receives
     replayed : 0 .. MaxEvents,   \* how many events the recording had when read
     next : 1 .. MaxEvents + 1,   \* the event the generator looks at next
     last : Time]                 \* yielded_t

Closed == [phase |-> "closed", first |-> 1, replayed |-> 0, next |-> 1, last |-> 0]

\* Last-Event-ID: the "t" of the last event a client received.
LastEventId(c) == IF got[c] = <<>> THEN 0 ELSE stamp[got[c][Len(got[c])]]

-----------------------------------------------------------------------------
Init ==
    /\ now = 1
    /\ stamp = <<>>
    /\ done = 0
    /\ mapped = "unset"
    /\ worker = "queued"
    /\ conn = [c \in Clients |-> Closed]
    /\ got = [c \in Clients |-> <<>>]

Tick ==
    /\ now < MaxTime
    /\ now' = now + 1
    /\ UNCHANGED <<stamp, done, mapped, worker, conn, got>>

-----------------------------------------------------------------------------
(* Faulty variants of the actions below, one per mistake the properties are *)
(* there to catch; no specification uses them.                              *)

\* The broadcast is subscribed to when the replay is over.
GoLiveLate(c) ==
    /\ conn[c].phase = "replay"
    /\ conn[c].next > conn[c].replayed
    /\ conn' = [conn EXCEPT ![c].phase = "live", ![c].next = Len(stamp) + 1]
    /\ UNCHANGED <<now, stamp, done, mapped, worker, got>>

\* A broadcast the replay has already sent is sent again.
OfferUnfiltered(c, i) ==
    IF stamp[i] < conn[c].last
    THEN /\ conn' = [conn EXCEPT ![c].next = i + 1]
         /\ UNCHANGED got
    ELSE /\ got' = [got EXCEPT ![c] = Append(@, i)]
         /\ conn' = [conn EXCEPT ![c] =
                        IF i = done THEN Closed
                                    ELSE [@ EXCEPT !.next = i + 1, !.last = stamp[i]]]

\* The time is recorded in another unit.
RecordAhead(kind) ==
    /\ Len(stamp) < MaxEvents
    /\ done = 0
    /\ stamp' = Append(stamp, now + 1000)
    /\ done' = IF kind = "done" THEN Len(stamp) + 1 ELSE done

\* The generator goes on listening after it sent "done".
OfferWithoutEnd(c, i) ==
    IF stamp[i] <= conn[c].last
    THEN /\ conn' = [conn EXCEPT ![c].next = i + 1]
         /\ UNCHANGED got
    ELSE /\ got' = [got EXCEPT ![c] = Append(@, i)]
         /\ conn' = [conn EXCEPT ![c].next = i + 1, ![c].last = stamp[i]]

-----------------------------------------------------------------------------
(* The run: run_create, plan_edit, plan_book and payment_confirm queue the  *)
(* task and then map the run_id to it; the task, and before it the edit     *)
(* router, publish.                                                         *)

MapRun ==
    /\ mapped = "unset"
    /\ mapped' = "set"
    /\ UNCHANGED <<now, stamp, done, worker, conn, got>>

\* An hour later.  (The recording lives an hour after its last event, longer.)
ExpireMapping ==
    /\ mapped = "set"
    /\ mapped' = "expired"
    /\ UNCHANGED <<now, stamp, done, worker, conn, got>>

\* trace.publish: RPUSH and PUBLISH in one pipeline.  "done" is a task's last event.
Record(kind) ==
    /\ Len(stamp) < MaxEvents
    /\ done = 0
    /\ stamp' = Append(stamp, now)
    /\ done' = IF kind = "done" THEN Len(stamp) + 1 ELSE done

StartTask ==
    /\ worker = "queued"
    /\ worker' = "running"
    /\ UNCHANGED <<now, stamp, done, mapped, conn, got>>

\* The edit router publishes "llm" and "rule" events before the task is queued.
Publish(kind) ==
    /\ worker = "running" \/ (worker = "queued" /\ kind = "step")
    /\ Record(kind)
    /\ UNCHANGED <<now, mapped, worker, conn, got>>

\* The task returns, raises, or dies with its worker.  It returns after its
\* "done", except an agent loop that used up its turns, which publishes none.
EndTask(state) ==
    /\ worker = "running"
    /\ worker' = state
    /\ UNCHANGED <<now, stamp, done, mapped, conn, got>>

-----------------------------------------------------------------------------
(* run_stream and _sse_generator.                                           *)

\* 404 without a mapping; otherwise subscribe first ...
Open(c) ==
    /\ mapped = "set"
    /\ conn[c].phase = "closed"
    /\ conn' = [conn EXCEPT ![c] = [phase |-> "subscribed", first |-> Len(stamp) + 1,
                                    replayed |-> 0, next |-> 1, last |-> LastEventId(c)]]
    /\ UNCHANGED <<now, stamp, done, mapped, worker, got>>

\* ... then read the recording ...
ReadRecording(c) ==
    /\ conn[c].phase = "subscribed"
    /\ conn' = [conn EXCEPT ![c].phase = "replay", ![c].replayed = Len(stamp)]
    /\ UNCHANGED <<now, stamp, done, mapped, worker, got>>

\* One event: dropped when it is not later than the last one sent, else sent;
\* "done" ends the stream.
Offer(c, i) ==
    IF stamp[i] <= conn[c].last
    THEN /\ conn' = [conn EXCEPT ![c].next = i + 1]
         /\ UNCHANGED got
    ELSE /\ got' = [got EXCEPT ![c] = Append(@, i)]
         /\ conn' = [conn EXCEPT ![c] =
                        IF i = done THEN Closed
                                    ELSE [@ EXCEPT !.next = i + 1, !.last = stamp[i]]]

\* ... and replay it ...
Replay(c) ==
    /\ conn[c].phase = "replay"
    /\ conn[c].next <= conn[c].replayed
    /\ Offer(c, conn[c].next)
    /\ UNCHANGED <<now, stamp, done, mapped, worker>>

\* ... and go on with what the subscription received since.
GoLive(c) ==
    /\ conn[c].phase = "replay"
    /\ conn[c].next > conn[c].replayed
    /\ conn' = [conn EXCEPT ![c].phase = "live", ![c].next = conn[c].first]
    /\ UNCHANGED <<now, stamp, done, mapped, worker, got>>

Live(c) ==
    /\ conn[c].phase = "live"
    /\ conn[c].next <= Len(stamp)
    /\ Offer(c, conn[c].next)
    /\ UNCHANGED <<now, stamp, done, mapped, worker>>

\* The network or the browser ends the connection, or the 300 seconds are over.
Close(c) ==
    /\ conn[c].phase # "closed"
    /\ conn' = [conn EXCEPT ![c] = Closed]
    /\ UNCHANGED <<now, stamp, done, mapped, worker, got>>

-----------------------------------------------------------------------------
Serve(c) == ReadRecording(c) \/ Replay(c) \/ GoLive(c) \/ Live(c)

Next ==
    \/ Tick \/ MapRun \/ ExpireMapping \/ StartTask
    \/ \E kind \in {"step", "done"} : Publish(kind)
    \/ \E state \in {"success", "failure", "lost"} : EndTask(state)
    \/ \E c \in Clients : Open(c) \/ Serve(c) \/ Close(c)

Spec == Init /\ [][Next]_vars

\* The server keeps serving an open connection; nothing else has to happen.
Fairness == \A c \in Clients : WF_vars(Serve(c))

FairSpec == Spec /\ Fairness

\* No two events of the run in one millisecond.
DistinctTimes == [][\A i \in 1 .. Len(stamp) : Len(stamp') > Len(stamp) => stamp[i] < now]_vars

DistinctSpec == Spec /\ DistinctTimes

-----------------------------------------------------------------------------
TypeOK ==
    /\ now \in Time
    /\ stamp \in Seq(Time) /\ Len(stamp) <= MaxEvents
    /\ done \in 0 .. Len(stamp)
    /\ mapped \in {"unset", "set", "expired"}
    /\ worker \in {"queued", "running", "success", "failure", "lost"}
    /\ conn \in [Clients -> Connection]
    /\ got \in [Clients -> Seq(Event)]

Received(c) == {got[c][k] : k \in 1 .. Len(got[c])}

\* "The order is what prevents loss and duplication" (agents/views.py:629-633),
\* the part about duplication: over replays, broadcasts and reconnects a client
\* gets no event twice and none out of order.
InOrderOnce ==
    \A c \in Clients : \A k \in 2 .. Len(got[c]) : got[c][k - 1] < got[c][k]

\* The part about loss: what a client receives is always the beginning of the
\* recording.  In no run: TLC refutes it, see the README.
NothingIsLost ==
    \A c \in Clients : \A k \in 1 .. Len(got[c]) : got[c][k] = k

\* What the code does guarantee: an event that was passed over, in the stream or
\* by the client's Last-Event-ID, was published in the same millisecond as one
\* that was delivered before it.
LossOnlyWithinAMillisecond ==
    \A c \in Clients : \A m \in Received(c) : \A i \in 1 .. m :
        i \in Received(c) \/ \E j \in Received(c) : j < i /\ stamp[j] = stamp[i]

\* "done" shares the millisecond of another event the client has.
DoneIsHidden(c) == done # 0 /\ \E j \in Received(c) \ {done} : stamp[j] = stamp[done]

\* A client not yet told, connected once "done" is recorded, is told so and its
\* stream ends, unless "done" is hidden from it: then the stream stays open until its
\* 300 seconds are over (as it does for a client that reconnects after "done").
StreamEnds ==
    \A c \in Clients :
        (done # 0 /\ conn[c].phase # "closed" /\ done \notin Received(c))
            ~> (conn[c].phase = "closed" \/ DoneIsHidden(c))
=============================================================================
