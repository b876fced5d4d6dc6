--------------------------- MODULE RunStreamProofs ---------------------------
(***************************************************************************)
(* Subscribing before reading the recording, and dropping what is not      *)
(* later than the last event sent, keeps every stream in order for any     *)
(* number of clients, events and reconnects, and loses an event only to    *)
(* another one of its millisecond.                                         *)
(***************************************************************************)
EXTENDS RunStream, TLAPS

\* The recording is in the order of time, and "done" is its last event.
RecordingOK ==
    /\ now >= 1
    /\ \A i \in 1 .. Len(stamp) : 1 <= stamp[i] /\ stamp[i] <= now
    /\ \A i, j \in 1 .. Len(stamp) : i <= j => stamp[i] <= stamp[j]
    /\ done # 0 => done = Len(stamp)

\* What a client got is recorded, each event in a later millisecond than the one before.
DeliveriesOK ==
    \A c \in Clients :
        /\ \A k \in 1 .. Len(got[c]) : got[c][k] \in 1 .. Len(stamp)
        /\ \A j, k \in 1 .. Len(got[c]) : j < k => stamp[got[c][j]] < stamp[got[c][k]]

\* A generator has sent up to the client's Last-Event-ID, looked at nothing later than
\* that so far, and subscribed before it read the recording.
ConnectionOK(c) ==
    /\ conn[c].last = LastEventId(c)
    /\ conn[c].next <= Len(stamp) + 1
    /\ \A i \in 1 .. Len(stamp) : i < conn[c].next => stamp[i] <= conn[c].last
    /\ conn[c].first <= Len(stamp) + 1
    /\ conn[c].phase = "subscribed" => conn[c].next = 1
    /\ conn[c].phase = "replay" => /\ conn[c].first <= conn[c].replayed + 1
                                   /\ conn[c].replayed <= Len(stamp)

ConnectionsOK == \A c \in Clients : conn[c].phase # "closed" => ConnectionOK(c)

\* An event the client has, or one of an earlier event's millisecond.
Covered(c, i) == i \in Received(c) \/ \E j \in Received(c) : j < i /\ stamp[j] = stamp[i]

\* Up to its Last-Event-ID a client has every event, or one of its millisecond.
NothingSkipped ==
    \A c \in Clients : \A i \in 1 .. Len(stamp) : stamp[i] <= LastEventId(c) => Covered(c, i)

Inv == TypeOK /\ RecordingOK /\ DeliveriesOK /\ ConnectionsOK /\ NothingSkipped

-----------------------------------------------------------------------------
\* Nothing is recorded, nothing received.
LEMMA InitInv == Init => Inv
<1> SUFFICES ASSUME Init PROVE Inv
  OBVIOUS
<1>1. TypeOK
  BY RunStreamAssumption DEF Init, TypeOK, Time, Connection, Closed
<1>2. RecordingOK /\ DeliveriesOK /\ ConnectionsOK /\ NothingSkipped
  BY DEF Init, RecordingOK, DeliveriesOK, ConnectionsOK, NothingSkipped, Closed
<1> QED BY <1>1, <1>2 DEF Inv

\* Times are numbers.
LEMMA StampTypes ==
    ASSUME TypeOK
    PROVE  /\ Len(stamp) \in Nat
           /\ \A i \in 1 .. Len(stamp) : stamp[i] \in Time /\ stamp[i] \in Nat
           /\ Time \subseteq Nat
<1>1. Time \subseteq Nat
  BY RunStreamAssumption DEF Time
<1>2. stamp \in Seq(Time)
  BY DEF TypeOK
<1>3. Len(stamp) \in Nat /\ \A i \in 1 .. Len(stamp) : stamp[i] \in Time
  BY <1>2
<1> QED BY <1>1, <1>3

\* The Last-Event-ID of a client is a time, and not that of the "missing" one
\* once an event was received.
LEMMA LastEventIdTypes ==
    ASSUME Inv, NEW c \in Clients
    PROVE  /\ LastEventId(c) \in Time
           /\ LastEventId(c) <= now
           /\ Received(c) \subseteq 1 .. Len(stamp)
           /\ \A j \in Received(c) : stamp[j] <= LastEventId(c)
<1>1. got[c] \in Seq(Event) /\ stamp \in Seq(Time) /\ Len(stamp) \in Nat /\ Len(got[c]) \in Nat
  BY DEF Inv, TypeOK
<1>2. Received(c) \subseteq 1 .. Len(stamp)
  BY DEF Inv, DeliveriesOK, Received
<1>3. CASE got[c] = <<>>
  <2>1. LastEventId(c) = 0 /\ Received(c) = {}
    BY <1>3 DEF LastEventId, Received
  <2>2. 0 \in Time /\ now \in Time
    BY RunStreamAssumption DEF Inv, TypeOK, Time
  <2> QED BY <1>2, <2>1, <2>2 DEF Time
<1>4. CASE got[c] # <<>>
  <2>1. Len(got[c]) \in 1 .. Len(got[c])
    BY <1>1, <1>4
  <2>2. got[c][Len(got[c])] \in 1 .. Len(stamp)
    BY <2>1 DEF Inv, DeliveriesOK
  <2>3. \A k \in 1 .. Len(got[c]) : stamp[got[c][k]] <= stamp[got[c][Len(got[c])]]
    <3> SUFFICES ASSUME NEW k \in 1 .. Len(got[c])
                 PROVE  stamp[got[c][k]] <= stamp[got[c][Len(got[c])]]
      OBVIOUS
    <3>1. stamp[got[c][k]] \in Time /\ stamp[got[c][Len(got[c])]] \in Time
      BY <1>1, <2>2 DEF Inv, DeliveriesOK
    <3>2. k < Len(got[c]) \/ k = Len(got[c])
      BY <1>1
    <3> QED BY <2>1, <3>1, <3>2 DEF Inv, DeliveriesOK, Time
  <2> QED BY <1>1, <1>2, <1>4, <2>2, <2>3 DEF LastEventId, Received, Inv, RecordingOK
<1> QED BY <1>3, <1>4

\* Time, the mapping and the worker pass streams by.
LEMMA QuietInv ==
    ASSUME Inv, Tick \/ MapRun \/ ExpireMapping \/ StartTask
                \/ \E state \in {"success", "failure", "lost"} : EndTask(state)
    PROVE  Inv'
<1>1. /\ UNCHANGED <<stamp, done, conn, got>>
      /\ now' \in Time /\ now' >= now
      /\ mapped' \in {"unset", "set", "expired"}
      /\ worker' \in {"queued", "running", "success", "failure", "lost"}
  <2>1. CASE Tick
    BY <2>1, RunStreamAssumption DEF Tick, Inv, TypeOK, Time
  <2>2. CASE ~Tick
    BY <2>2 DEF MapRun, ExpireMapping, StartTask, EndTask, Inv, TypeOK, Time
  <2> QED BY <2>1, <2>2
<1>2. TypeOK'
  BY <1>1 DEF Inv, TypeOK
<1>3. RecordingOK'
  <2>1. now \in Nat /\ now' \in Nat /\ \A i \in 1 .. Len(stamp) : stamp[i] \in Nat
    BY <1>1, StampTypes DEF Inv, TypeOK
  <2>2. now' >= 1 /\ \A i \in 1 .. Len(stamp) : stamp[i] <= now'
    BY <1>1, <2>1 DEF Inv, RecordingOK
  <2> QED BY <1>1, <2>2 DEF Inv, RecordingOK
<1>4. DeliveriesOK'
  BY <1>1 DEF Inv, DeliveriesOK
<1>5. ConnectionsOK'
  BY <1>1 DEF Inv, ConnectionsOK, ConnectionOK, LastEventId
<1>6. NothingSkipped'
  BY <1>1 DEF Inv, NothingSkipped, LastEventId, Covered, Received
<1> QED BY <1>2, <1>3, <1>4, <1>5, <1>6 DEF Inv

\* A new event is later than, or of the millisecond of, all that were sent.
LEMMA PublishInv ==
    ASSUME Inv, NEW kind \in {"step", "done"}, Publish(kind)
    PROVE  Inv'
<1> DEFINE n == Len(stamp)
<1>1. /\ n \in Nat /\ n < MaxEvents /\ n + 1 \in Event
      /\ stamp' = Append(stamp, now) /\ Len(stamp') = n + 1
      /\ stamp' \in Seq(Time)
      /\ \A i \in 1 .. n : stamp'[i] = stamp[i] /\ stamp[i] \in Time
      /\ stamp'[n + 1] = now
      /\ UNCHANGED <<now, mapped, worker, conn, got>>
      /\ done' \in {0, n + 1} /\ done = 0
  BY RunStreamAssumption DEF Publish, Record, Inv, TypeOK, Event
<1> HIDE DEF n
<1>2. TypeOK'
  BY <1>1 DEF Inv, TypeOK, Event
<1>3. RecordingOK'
  <2>1. \A i \in 1 .. n + 1 : i \in 1 .. n \/ i = n + 1
    BY <1>1
  <2>2. \A i \in 1 .. n : 1 <= stamp[i] /\ stamp[i] <= now
    BY DEF Inv, RecordingOK, n
  <2>3. \A i \in 1 .. n + 1 : 1 <= stamp'[i] /\ stamp'[i] <= now
    BY <1>1, <2>1, <2>2 DEF Inv, RecordingOK, TypeOK, Time
  <2>4. ASSUME NEW i \in 1 .. n + 1, NEW j \in 1 .. n + 1, i <= j PROVE stamp'[i] <= stamp'[j]
    <3>1. CASE j = n + 1
      BY <1>1, <2>3, <3>1
    <3>2. CASE j # n + 1
      <4>1. i \in 1 .. n /\ j \in 1 .. n
        BY <1>1, <2>4, <3>2
      <4> QED BY <1>1, <2>4, <4>1 DEF Inv, RecordingOK, n
    <3> QED BY <3>1, <3>2
  <2> QED BY <1>1, <2>3, <2>4 DEF RecordingOK, Inv
<1>4. DeliveriesOK'
  <2> SUFFICES ASSUME NEW c \in Clients
               PROVE  /\ \A k \in 1 .. Len(got[c]) : got[c][k] \in 1 .. n + 1
                      /\ \A j, k \in 1 .. Len(got[c]) :
                            j < k => stamp'[got[c][j]] < stamp'[got[c][k]]
    BY <1>1 DEF DeliveriesOK
  <2>1. \A k \in 1 .. Len(got[c]) : got[c][k] \in 1 .. n
    BY DEF Inv, DeliveriesOK, n
  <2> QED BY <1>1, <2>1 DEF Inv, DeliveriesOK
<1>5. ASSUME NEW c \in Clients PROVE UNCHANGED LastEventId(c)
  <2>1. got[c] # <<>> => got[c][Len(got[c])] \in 1 .. n
    BY DEF Inv, DeliveriesOK, TypeOK, n
  <2> QED BY <1>1, <2>1 DEF LastEventId
<1>6. ConnectionsOK'
  <2> SUFFICES ASSUME NEW c \in Clients, conn[c].phase # "closed" PROVE ConnectionOK(c)'
    BY <1>1 DEF ConnectionsOK
  <2>1. ConnectionOK(c)
    BY DEF Inv, ConnectionsOK
  <2>2. conn[c] \in Connection
    BY DEF Inv, TypeOK
  <2>3. \A i \in 1 .. n + 1 : i < conn[c].next => i \in 1 .. n
    BY <1>1, <2>1, <2>2 DEF ConnectionOK, Connection, n
  <2> QED BY <1>1, <1>5, <2>1, <2>2, <2>3 DEF ConnectionOK, Connection, n
<1>7. NothingSkipped'
  <2> SUFFICES ASSUME NEW c \in Clients, NEW i \in 1 .. n + 1, stamp'[i] <= LastEventId(c)
               PROVE  Covered(c, i)'
    BY <1>1, <1>5 DEF NothingSkipped
  <2>1. UNCHANGED Received(c) /\ Received(c) \subseteq 1 .. n
    BY <1>1, LastEventIdTypes DEF Received, n
  <2>2. CASE i \in 1 .. n
    BY <1>1, <2>1, <2>2 DEF Inv, NothingSkipped, Covered, n
  <2>3. CASE i = n + 1
    <3>1. LastEventId(c) = now /\ now >= 1
      BY <1>1, <2>3, LastEventIdTypes DEF Inv, RecordingOK, TypeOK, Time
    <3>2. got[c] # <<>>
      BY <3>1 DEF LastEventId
    <3>3. Len(got[c]) \in 1 .. Len(got[c])
      BY <3>2 DEF Inv, TypeOK
    <3>4. got[c][Len(got[c])] \in Received(c)
      BY <3>3 DEF Received
    <3>5. stamp[got[c][Len(got[c])]] = now
      BY <3>1, <3>2 DEF LastEventId
    <3> QED BY <1>1, <2>1, <2>3, <3>4, <3>5 DEF Covered
  <2> QED BY <1>1, <2>2, <2>3
<1> QED BY <1>2, <1>3, <1>4, <1>6, <1>7 DEF Inv

\* Whatever becomes of connections, deliveries stay as they are.
LEMMA ConnectionsAlone ==
    ASSUME Inv, UNCHANGED <<now, stamp, done, mapped, worker, got>>,
           conn' \in [Clients -> Connection], ConnectionsOK'
    PROVE  Inv'
<1>1. TypeOK'
  BY DEF Inv, TypeOK
<1>2. RecordingOK' /\ DeliveriesOK' /\ NothingSkipped'
  BY DEF Inv, RecordingOK, DeliveriesOK, NothingSkipped, LastEventId, Covered, Received
<1> QED BY <1>1, <1>2 DEF Inv

\* A new connection goes on from the client's Last-Event-ID, and looks at the
\* recording after it subscribed.
LEMMA ConnectInv ==
    ASSUME Inv, NEW c \in Clients, Open(c) \/ ReadRecording(c) \/ GoLive(c) \/ Close(c)
    PROVE  Inv'
<1>1. /\ UNCHANGED <<now, stamp, done, mapped, worker, got>>
      /\ \A d \in Clients : d # c => conn'[d] = conn[d]
      /\ Len(stamp) \in 0 .. MaxEvents /\ conn[c] \in Connection
  BY DEF Open, ReadRecording, GoLive, Close, Inv, TypeOK
<1>2. UNCHANGED <<LastEventId(c), Len(stamp)>>
  BY <1>1 DEF LastEventId
<1>3. conn'[c] \in Connection /\ conn' \in [Clients -> Connection]
  <2>1. CASE Open(c)
    <3>1. conn'[c] = [phase |-> "subscribed", first |-> Len(stamp) + 1, replayed |-> 0,
                      next |-> 1, last |-> LastEventId(c)]
      BY <2>1 DEF Open, Inv, TypeOK
    <3>2. conn'[c] \in Connection
      BY <1>1, <3>1, LastEventIdTypes, RunStreamAssumption DEF Connection
    <3> QED BY <2>1, <3>1, <3>2 DEF Open, Inv, TypeOK
  <2>2. CASE ReadRecording(c)
    BY <1>1, <2>2 DEF ReadRecording, Inv, TypeOK, Connection
  <2>3. CASE GoLive(c)
    BY <1>1, <2>3 DEF GoLive, Inv, TypeOK, Connection
  <2>4. CASE Close(c)
    <3>1. Closed \in Connection
      BY RunStreamAssumption DEF Closed, Connection, Time
    <3> QED BY <2>4, <3>1 DEF Close, Inv, TypeOK
  <2> QED BY <2>1, <2>2, <2>3, <2>4
<1>4. conn'[c].phase # "closed" => ConnectionOK(c)'
  <2>1. CASE Open(c)
    BY <1>1, <1>2, <2>1 DEF Open, ConnectionOK, Inv, TypeOK
  <2>2. CASE ReadRecording(c)
    BY <1>1, <1>2, <2>2 DEF ReadRecording, ConnectionOK, ConnectionsOK, Inv, TypeOK, Connection
  <2>3. CASE GoLive(c)
    <3>1. ConnectionOK(c)
      BY <2>3 DEF GoLive, Inv, ConnectionsOK
    <3>2. conn'[c].next <= conn[c].next
      BY <1>1, <2>3, <3>1 DEF GoLive, ConnectionOK, Inv, TypeOK, Connection
    <3>3. conn'[c].phase = "live" /\ conn'[c].next = conn[c].first
          /\ conn'[c].first = conn[c].first /\ conn'[c].last = conn[c].last
      BY <2>3 DEF GoLive, Inv, TypeOK
    <3> QED BY <1>1, <1>2, <3>1, <3>2, <3>3 DEF ConnectionOK, Connection
  <2>4. CASE Close(c)
    BY <2>4 DEF Close, Closed, Inv, TypeOK
  <2> QED BY <2>1, <2>2, <2>3, <2>4
<1>5. ASSUME NEW d \in Clients, d # c, conn'[d].phase # "closed" PROVE ConnectionOK(d)'
  BY <1>1, <1>5 DEF ConnectionOK, ConnectionsOK, Inv, LastEventId
<1>6. ConnectionsOK'
  BY <1>4, <1>5 DEF ConnectionsOK
<1> QED BY <1>1, <1>3, <1>6, ConnectionsAlone

\* One event dropped or sent.
LEMMA OfferInv ==
    ASSUME Inv, NEW c \in Clients, conn[c].phase \in {"replay", "live"},
           NEW i \in 1 .. Len(stamp), i = conn[c].next, Offer(c, i),
           UNCHANGED <<now, stamp, done, mapped, worker>>
    PROVE  Inv'
<1>1. /\ \A d \in Clients : d # c => conn'[d] = conn[d] /\ got'[d] = got[d]
      /\ conn[c] \in Connection /\ i + 1 \in 1 .. MaxEvents + 1
      /\ Len(stamp) \in Nat /\ Len(stamp) <= MaxEvents /\ MaxEvents \in Nat
      /\ \A j \in 1 .. Len(stamp) : stamp[j] \in Nat
      /\ i \in Event /\ stamp[i] \in Time
  <2>1. \A d \in Clients : d # c => conn'[d] = conn[d] /\ got'[d] = got[d]
    BY DEF Offer, Inv, TypeOK
  <2>2. Len(stamp) \in Nat /\ MaxEvents \in Nat /\ Len(stamp) <= MaxEvents
    BY StampTypes, RunStreamAssumption DEF Inv, TypeOK
  <2> QED BY <2>1, <2>2, StampTypes DEF Inv, TypeOK, Event
<1>2. ConnectionOK(c)
  BY DEF Inv, ConnectionsOK
<1>3. RecordingOK'
  BY DEF Inv, RecordingOK
<1>4. CASE stamp[i] <= conn[c].last
  <2>1. /\ conn' = [conn EXCEPT ![c].next = i + 1]
        /\ conn'[c] = [conn[c] EXCEPT !.next = i + 1]
        /\ UNCHANGED got
    BY <1>4 DEF Offer, Inv, TypeOK
  <2>2. conn'[c] \in Connection
    BY <1>1, <2>1 DEF Connection
  <2>3. conn' \in [Clients -> Connection]
    BY <1>1, <2>1, <2>2 DEF Inv, TypeOK
  <2>4. ConnectionOK(c)'
    BY <1>1, <1>2, <1>4, <2>1 DEF ConnectionOK, LastEventId, Connection
  <2>5. ASSUME NEW d \in Clients, d # c, conn'[d].phase # "closed" PROVE ConnectionOK(d)'
    BY <1>1, <2>1, <2>5 DEF ConnectionOK, ConnectionsOK, Inv, LastEventId
  <2>6. ConnectionsOK'
    BY <2>4, <2>5 DEF ConnectionsOK
  <2> QED BY <2>1, <2>3, <2>6, ConnectionsAlone
<1>5. CASE ~(stamp[i] <= conn[c].last)
  <2> DEFINE n == Len(got[c])
  <2>1. /\ got' = [got EXCEPT ![c] = Append(@, i)]
        /\ got'[c] = Append(got[c], i)
        /\ conn'[c] = IF i = done THEN Closed ELSE [conn[c] EXCEPT !.next = i + 1, !.last = stamp[i]]
        /\ conn' = [conn EXCEPT ![c] = conn'[c]]
    BY <1>5 DEF Offer, Inv, TypeOK
  <2>2. /\ n \in Nat /\ Len(got'[c]) = n + 1 /\ got'[c][n + 1] = i
        /\ \A k \in 1 .. n : got'[c][k] = got[c][k]
        /\ got'[c] \in Seq(Event) /\ got'[c] # <<>>
    BY <1>1, <2>1 DEF Inv, TypeOK
  <2> HIDE DEF n
  <2>3. LastEventId(c)' = stamp[i]
    BY <2>2 DEF LastEventId
  <2>4. conn'[c] \in Connection
    <3>1. Closed \in Connection
      BY RunStreamAssumption DEF Closed, Connection, Time
    <3> QED BY <1>1, <2>1, <3>1 DEF Connection
  <2>5. TypeOK'
    BY <1>1, <2>1, <2>2, <2>4 DEF Inv, TypeOK
  <2>6. /\ Received(c) \subseteq 1 .. Len(stamp)
        /\ \A j \in Received(c) : stamp[j] < stamp[i]
    BY <1>1, <1>2, <1>5, LastEventIdTypes DEF ConnectionOK, Time
  <2>7. Received(c)' = Received(c) \cup {i}
    <3>1. 1 .. n + 1 = (1 .. n) \cup {n + 1}
      BY <2>2
    <3> QED BY <2>2, <3>1 DEF Received, n
  <2>8. DeliveriesOK'
    <3> SUFFICES ASSUME NEW d \in Clients
                 PROVE  /\ \A k \in 1 .. Len(got'[d]) : got'[d][k] \in 1 .. Len(stamp)
                        /\ \A j, k \in 1 .. Len(got'[d]) :
                              j < k => stamp[got'[d][j]] < stamp[got'[d][k]]
      BY DEF DeliveriesOK
    <3>1. CASE d # c
      BY <1>1, <3>1 DEF Inv, DeliveriesOK
    <3>2. CASE d = c
      <4>1. \A k \in 1 .. n : got[c][k] \in Received(c)
        BY DEF Received, n
      <4>2. \A k \in 1 .. n + 1 : k \in 1 .. n \/ k = n + 1
        BY <2>2
      <4>3. ASSUME NEW j \in 1 .. n + 1, NEW k \in 1 .. n + 1, j < k
            PROVE  stamp[got'[c][j]] < stamp[got'[c][k]]
        <5>1. j \in 1 .. n
          BY <2>2, <4>3
        <5>2. CASE k \in 1 .. n
          BY <2>2, <4>3, <5>1, <5>2 DEF Inv, DeliveriesOK, n
        <5>3. CASE k = n + 1
          BY <2>2, <2>6, <4>1, <5>1, <5>3
        <5> QED BY <4>2, <5>2, <5>3
      <4> QED BY <2>2, <2>6, <3>2, <4>1, <4>2, <4>3
    <3> QED BY <3>1, <3>2
  <2>9. ConnectionsOK'
    <3>1. ASSUME conn'[c].phase # "closed" PROVE ConnectionOK(c)'
      <4>1. conn'[c] = [conn[c] EXCEPT !.next = i + 1, !.last = stamp[i]]
        BY <2>1, <3>1 DEF Closed
      <4>2. /\ conn'[c].next = i + 1 /\ conn'[c].last = stamp[i]
            /\ conn'[c].first = conn[c].first /\ conn'[c].replayed = conn[c].replayed
            /\ conn'[c].phase = conn[c].phase
        BY <1>1, <4>1 DEF Connection
      <4>3. \A j \in 1 .. Len(stamp) : j < i + 1 => stamp[j] <= stamp[i]
        BY <1>1 DEF Inv, RecordingOK
      <4> QED BY <1>1, <1>2, <2>3, <4>2, <4>3 DEF ConnectionOK, Connection
    <3>2. ASSUME NEW d \in Clients, d # c, conn'[d].phase # "closed" PROVE ConnectionOK(d)'
      BY <1>1, <3>2 DEF ConnectionOK, ConnectionsOK, Inv, LastEventId
    <3> QED BY <3>1, <3>2 DEF ConnectionsOK
  <2>10. NothingSkipped'
    <3> SUFFICES ASSUME NEW d \in Clients, NEW j \in 1 .. Len(stamp),
                        stamp[j] <= LastEventId(d)'
                 PROVE  Covered(d, j)'
      BY DEF NothingSkipped
    <3>1. CASE d # c
      <4>1. UNCHANGED <<Received(d), LastEventId(d)>>
        BY <1>1, <3>1 DEF Received, LastEventId
      <4>2. Covered(d, j)
        BY <4>1 DEF Inv, NothingSkipped
      <4> QED BY <4>1, <4>2 DEF Covered
    <3>2. CASE d = c /\ j < i
      <4>1. stamp[j] <= LastEventId(c)
        BY <1>1, <1>2, <3>2 DEF ConnectionOK
      <4>2. Covered(c, j)
        BY <4>1 DEF Inv, NothingSkipped
      <4> QED BY <2>7, <3>2, <4>2 DEF Covered
    <3>3. CASE d = c /\ j = i
      BY <2>7, <3>3 DEF Covered
    <3>4. CASE d = c /\ i < j
      <4>1. stamp[j] = stamp[i]
        BY <1>1, <2>3, <3>4 DEF Inv, RecordingOK
      <4> QED BY <2>7, <3>4, <4>1 DEF Covered
    <3> QED BY <1>1, <3>1, <3>2, <3>3, <3>4
  <2> QED BY <1>3, <2>5, <2>8, <2>9, <2>10 DEF Inv
<1> QED BY <1>4, <1>5

\* The replay, then the broadcasts.
LEMMA SendInv ==
    ASSUME Inv, NEW c \in Clients, Replay(c) \/ Live(c)
    PROVE  Inv'
<1>1. conn[c] \in Connection /\ Len(stamp) \in Nat
  BY DEF Inv, TypeOK
<1>2. conn[c].phase \in {"replay", "live"} /\ ConnectionOK(c)
  BY DEF Replay, Live, Inv, ConnectionsOK
<1>3. conn[c].next \in 1 .. Len(stamp)
  BY <1>1, <1>2 DEF Replay, Live, ConnectionOK, Connection
<1> QED BY <1>2, <1>3, OfferInv DEF Replay, Live

\* One case for each action.
LEMMA NextInv == Inv /\ [Next]_vars => Inv'
<1> SUFFICES ASSUME Inv, [Next]_vars PROVE Inv'
  OBVIOUS
<1>1. CASE UNCHANGED vars
  BY <1>1 DEF vars, Inv, TypeOK, RecordingOK, DeliveriesOK, ConnectionsOK, ConnectionOK,
              NothingSkipped, LastEventId, Covered, Received
<1>2. CASE Next
  BY <1>2, QuietInv, PublishInv, ConnectInv, SendInv DEF Next, Serve
<1> QED BY <1>1, <1>2

-----------------------------------------------------------------------------
\* The inductive invariant holds throughout.
THEOREM Invariance == Spec => []Inv
BY InitInv, NextInv, PTL DEF Spec

\* Redis, the workers and the generators of run_stream keep their types.
THEOREM TypeCorrectness == Spec => []TypeOK
<1>1. Inv => TypeOK
  BY DEF Inv
<1> QED BY <1>1, Invariance, PTL

\* _sse_generator sends no event twice and none out of order, over replay, broadcast
\* and any number of reconnects.
THEOREM StreamsAreInOrder == Spec => []InOrderOnce
<1>1. Inv => InOrderOnce
  <2> SUFFICES ASSUME Inv, NEW c \in Clients, NEW k \in 2 .. Len(got[c])
               PROVE  got[c][k - 1] < got[c][k]
    BY DEF InOrderOnce
  <2> DEFINE a == got[c][k - 1]
             b == got[c][k]
  <2>1. k \in 1 .. Len(got[c]) /\ k - 1 \in 1 .. Len(got[c]) /\ k - 1 < k
    BY DEF Inv, TypeOK
  <2>2. a \in 1 .. Len(stamp) /\ b \in 1 .. Len(stamp) /\ stamp[a] < stamp[b]
    BY <2>1 DEF Inv, DeliveriesOK
  <2> HIDE DEF a, b
  <2>3. stamp[a] \in Nat /\ stamp[b] \in Nat /\ Len(stamp) \in Nat
    BY <2>2, StampTypes DEF Inv
  <2>4. ~(b <= a)
    BY <2>2, <2>3 DEF Inv, RecordingOK
  <2>5. a < b
    BY <2>2, <2>3, <2>4
  <2> QED BY <2>5 DEF a, b
<1> QED BY <1>1, Invariance, PTL

\* What the filter of _sse_generator and Last-Event-ID pass over shares its
\* millisecond with an earlier event the client has.
THEOREM LossIsWithinAMillisecond == Spec => []LossOnlyWithinAMillisecond
<1>1. Inv => LossOnlyWithinAMillisecond
  <2> SUFFICES ASSUME Inv, NEW c \in Clients, NEW m \in Received(c), NEW i \in 1 .. m
               PROVE  Covered(c, i)
    BY DEF LossOnlyWithinAMillisecond, Covered
  <2>1. m \in 1 .. Len(stamp) /\ stamp[m] <= LastEventId(c) /\ LastEventId(c) \in Time
    BY LastEventIdTypes
  <2>2. i \in 1 .. Len(stamp) /\ i <= m
    BY <2>1 DEF Inv, TypeOK
  <2>3. stamp[i] \in Nat /\ stamp[m] \in Nat /\ LastEventId(c) \in Nat
    BY <2>1, <2>2, StampTypes DEF Inv
  <2>4. stamp[i] <= LastEventId(c)
    BY <2>1, <2>2, <2>3 DEF Inv, RecordingOK
  <2> QED BY <2>2, <2>4 DEF Inv, NothingSkipped
<1> QED BY <1>1, Invariance, PTL

-----------------------------------------------------------------------------
(* No two events in one millisecond.                                       *)

\* Events of a recording can be told apart by their times.
Distinct == \A i, j \in 1 .. Len(stamp) : i < j => stamp[i] < stamp[j]

Apart == \A i \in 1 .. Len(stamp) : Len(stamp') > Len(stamp) => stamp[i] < now

NoGap == \A c \in Clients : \A m \in Received(c) : 1 .. m \subseteq Received(c)

\* Then what is covered was received.
LEMMA DistinctLeavesNoGap == Inv /\ Distinct => NoGap
<1> SUFFICES ASSUME Inv, Distinct, NEW c \in Clients, NEW m \in Received(c), NEW i \in 1 .. m
             PROVE  i \in Received(c)
  BY DEF NoGap
<1>1. m \in 1 .. Len(stamp) /\ stamp[m] <= LastEventId(c) /\ LastEventId(c) \in Nat
  BY LastEventIdTypes, StampTypes DEF Inv
<1>2. Len(stamp) \in Nat /\ \A k \in 1 .. Len(stamp) : stamp[k] \in Nat
  BY StampTypes DEF Inv
<1>3. i \in 1 .. Len(stamp) /\ i <= m
  BY <1>1, <1>2
<1>4. stamp[i] <= LastEventId(c)
  BY <1>1, <1>2, <1>3 DEF Inv, RecordingOK
<1>5. Covered(c, i)
  BY <1>3, <1>4 DEF Inv, NothingSkipped
<1>6. ASSUME NEW j \in Received(c), j < i, stamp[j] = stamp[i] PROVE FALSE
  <2>1. j \in 1 .. Len(stamp)
    BY LastEventIdTypes
  <2> QED BY <1>2, <1>3, <1>6, <2>1 DEF Distinct
<1> QED BY <1>5, <1>6 DEF Covered

\* While no event is published within the last one's millisecond, times stay distinct.
LEMMA DistinctKept ==
    ASSUME Inv, Distinct, [Next]_vars, [Apart]_vars
    PROVE  Distinct'
<1>1. CASE UNCHANGED stamp
  BY <1>1 DEF Distinct
<1>2. ASSUME NEW kind \in {"step", "done"}, Publish(kind), ~UNCHANGED stamp PROVE Distinct'
  <2> DEFINE n == Len(stamp)
  <2>1. /\ n \in Nat /\ Len(stamp') = n + 1 /\ stamp'[n + 1] = now
        /\ \A i \in 1 .. n : stamp'[i] = stamp[i]
    BY <1>2 DEF Publish, Record, Inv, TypeOK
  <2>2. Apart
    BY <1>2 DEF vars
  <2>3. \A i \in 1 .. n : stamp[i] < now
    BY <2>1, <2>2 DEF Apart
  <2>4. \A i \in 1 .. n + 1 : i \in 1 .. n \/ i = n + 1
    BY <2>1
  <2> SUFFICES ASSUME NEW i \in 1 .. n + 1, NEW j \in 1 .. n + 1, i < j
               PROVE  stamp'[i] < stamp'[j]
    BY <2>1 DEF Distinct
  <2>5. i \in 1 .. n
    BY <2>1
  <2> QED BY <2>1, <2>3, <2>4, <2>5 DEF Distinct
<1>3. Next => \/ UNCHANGED stamp
              \/ \E kind \in {"step", "done"} : Publish(kind)
  BY DEF Next, Serve, Tick, MapRun, ExpireMapping, StartTask, EndTask, Open, ReadRecording,
         Replay, GoLive, Live, Close
<1> QED BY <1>1, <1>2, <1>3 DEF vars

\* A stream only ever adds an event to what its client got.
LEMMA DeliveriesGrow ==
    ASSUME Inv, [Next]_vars, NEW c \in Clients
    PROVE  got'[c] = got[c] \/ \E i : got'[c] = Append(got[c], i)
<1>1. ASSUME NEW d \in Clients, Replay(d) \/ Live(d)
      PROVE  got'[c] = got[c] \/ \E i : got'[c] = Append(got[c], i)
  BY <1>1 DEF Replay, Live, Offer, Inv, TypeOK
<1>2. Next => UNCHANGED got \/ \E d \in Clients : Replay(d) \/ Live(d)
  BY DEF Next, Serve, Tick, MapRun, ExpireMapping, StartTask, Publish, EndTask, Open,
         ReadRecording, GoLive, Close
<1> QED BY <1>1, <1>2 DEF vars

\* A client that has the beginning of the recording gets the next event, or none.
LEMMA NothingIsLostKept ==
    ASSUME Inv, Inv', NoGap', NothingIsLost, [Next]_vars
    PROVE  NothingIsLost'
<1> SUFFICES ASSUME NEW c \in Clients, NEW k \in 1 .. Len(got'[c]) PROVE got'[c][k] = k
  BY DEF NothingIsLost
<1> DEFINE n == Len(got[c])
<1>1. n \in Nat /\ got[c] \in Seq(Event) /\ got'[c] \in Seq(Event)
  BY DEF Inv, TypeOK
<1>2. \A j \in 1 .. n : got[c][j] = j
  BY DEF NothingIsLost
<1>3. CASE got'[c] = got[c]
  BY <1>2, <1>3
<1>4. ASSUME NEW i, got'[c] = Append(got[c], i) PROVE got'[c][k] = k
  <2>1. /\ Len(got'[c]) = n + 1 /\ got'[c][n + 1] = i
        /\ \A j \in 1 .. n : got'[c][j] = j
    BY <1>1, <1>2, <1>4
  <2> HIDE DEF n
  <2>2. i \in Received(c)' /\ i \in Nat /\ i >= 1
    <3>1. n + 1 \in 1 .. n + 1 /\ i \in Event
      BY <1>1, <2>1 DEF n
    <3> QED BY <2>1, <3>1 DEF Received, Event
  <2>3. 1 .. i \subseteq Received(c)'
    BY <2>2 DEF NoGap
  <2>4. \A e \in Received(c)' : e \in 1 .. n \/ e = i
    BY <1>1, <2>1 DEF Received
  <2>5. ~(i > n + 1)
    BY <1>1, <2>2, <2>3, <2>4
  <2>6. i \notin 1 .. n
    <3> SUFFICES ASSUME i \in 1 .. n PROVE FALSE
      OBVIOUS
    <3>1. stamp'[got'[c][i]] < stamp'[got'[c][n + 1]]
      BY <1>1, <2>1 DEF Inv, DeliveriesOK
    <3>2. i \in (1 .. Len(stamp))' /\ stamp'[i] \in Nat
      <4>1. Time \subseteq Nat /\ stamp' \in Seq(Time)
        BY StampTypes DEF Inv, TypeOK
      <4>2. \A j \in 1 .. Len(stamp') : stamp'[j] \in Time
        BY <4>1
      <4>3. i \in 1 .. Len(got'[c]) /\ got'[c][i] = i
        BY <1>1, <2>1
      <4> QED BY <4>1, <4>2, <4>3 DEF Inv, DeliveriesOK
    <3> QED BY <2>1, <3>1, <3>2
  <2>7. i = n + 1
    BY <1>1, <2>2, <2>5, <2>6
  <2> QED BY <1>1, <2>1, <2>7
<1> QED BY <1>3, <1>4, DeliveriesGrow

\* With no two events in one millisecond, what a client has is always the beginning
\* of the recording: the shared millisecond is the only way to lose an event.
THEOREM DistinctTimesLoseNothing == DistinctSpec => []NothingIsLost
<1>1. Init => Distinct /\ NothingIsLost
  BY DEF Init, Distinct, NothingIsLost
<1>2. Inv /\ Distinct /\ [Next]_vars /\ [Apart]_vars
          => Distinct'
  BY DistinctKept
<1>3. Inv /\ Inv' /\ NoGap' /\ NothingIsLost /\ [Next]_vars => NothingIsLost'
  BY NothingIsLostKept
<1> QED BY <1>1, <1>2, <1>3, DistinctLeavesNoGap, Invariance, PTL DEF DistinctSpec, DistinctTimes, Spec, Apart
=============================================================================
