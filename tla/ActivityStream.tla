---------------------------- MODULE ActivityStream ----------------------------
(***************************************************************************)
(* The stream of a workspace's RuntimeEvents to one browser: the route     *)
(* resolves Last-Event-ID, stream_events polls the table in batches after  *)
(* a cursor (occurred_at, id), and the browser's EventSource reconnects    *)
(* with the id of the last event it received.  The requests that write     *)
(* the events are those of WorkspaceRecords.                               *)
(***************************************************************************)
EXTENDS WorkspaceRecords, SequencesExt

CONSTANTS
    BatchSize,  \* STREAM_BATCH_SIZE
    MaxDrops    \* bound: connections that break

ASSUME StreamAssumption ==
    BatchSize \in Nat \ {0} /\ MaxDrops \in Nat /\ None \notin [at : Nat, id : Nat]

VARIABLES
    conn,       \* "opening", "open", or "refused": EventSource has given up
    cursor,     \* the event stream_events reads after, or None
    batch,      \* what it has read and not yet sent
    received,   \* the events the browser has, in the order of arrival
    late,       \* history: events that committed behind one already read
    drops

streamVars == <<conn, cursor, batch, received, drops>>
vars == <<recordVars, streamVars, late>>

\* ORDER BY occurred_at, id
Before(e, f) == e.at < f.at \/ (e.at = f.at /\ e.id < f.id)
Key(e) == [at |-> e.at, id |-> e.id]
Keys == {Key(e) : e \in events}

Sorted(keys) ==
    [i \in 1 .. Cardinality(keys) |->
        CHOOSE k \in keys : Cardinality({j \in keys : Before(j, k)}) = i - 1]
\* LIMIT
Limit(seq) == SubSeq(seq, 1, IF Len(seq) < BatchSize THEN Len(seq) ELSE BatchSize)

\* The newest BatchSize events, oldest first.
list_recent_events == Reverse(Limit(Reverse(Sorted(Keys))))

\* Mutant: the newest events after the cursor rather than the next ones.
NewestAfter(c) == Reverse(Limit(Reverse(Sorted({k \in Keys : Before(c, k)}))))

\* Mutant: the cursor is a time alone, inclusive.
AfterTime(c) == Limit(Sorted({k \in Keys : k.at >= c.at}))

\* Mutant: the cursor is a time alone, exclusive.
AfterTimeStrictly(c) == Limit(Sorted({k \in Keys : k.at > c.at}))

list_events_after(c) == Limit(Sorted({k \in Keys : Before(c, k)}))

list_stream_batch == IF cursor = None THEN list_recent_events ELSE list_events_after(cursor)

\* validate_stream_scope: Last-Event-ID names the last event received, which
\* is never deleted.
ResolvedCursor == IF received = <<>> THEN None ELSE Last(received)

\* runtime_event_stream: the browser connects or reconnects.
Open ==
    /\ conn = "opening"
    /\ conn' = "open"
    /\ cursor' = ResolvedCursor
    /\ UNCHANGED <<recordVars, batch, received, drops, late>>

\* The API is away when the browser reconnects: the web route answers 502
\* and an EventSource does not try again after an answer that is not 200.
Refuse ==
    /\ conn = "opening"
    /\ drops > 0
    /\ conn' = "refused"
    /\ UNCHANGED <<recordVars, cursor, batch, received, drops, late>>

\* One poll that finds something; the others only wait and beat.
Poll ==
    /\ conn = "open"
    /\ batch = <<>>
    /\ list_stream_batch # <<>>
    /\ batch' = list_stream_batch
    /\ UNCHANGED <<recordVars, conn, cursor, received, drops, late>>

\* A frame is sent and the cursor moves to it.
Deliver ==
    /\ conn = "open"
    /\ batch # <<>>
    /\ received' = Append(received, Head(batch))
    /\ cursor' = Head(batch)
    /\ batch' = Tail(batch)
    /\ UNCHANGED <<recordVars, conn, drops, late>>

\* The connection breaks, wherever the server is in its batch.
Drop ==
    /\ conn = "open"
    /\ drops < MaxDrops
    /\ conn' = "opening"
    /\ cursor' = None
    /\ batch' = <<>>
    /\ drops' = drops + 1
    /\ UNCHANGED <<recordVars, received, late>>

\* A commit, with note of the events it makes visible behind one that the
\* stream has already read.
CommitSeen(a) ==
    /\ Commit(a)
    /\ late' = late \cup
          {x.id : x \in {y \in staged[a] : y.kind = "event" /\
                            \E k \in ToSet(received) \cup ToSet(batch) : Before(Key(y), k)}}
    /\ UNCHANGED streamVars

Init ==
    /\ RecordsInit
    /\ conn = "opening"
    /\ cursor = None
    /\ batch = <<>>
    /\ received = <<>>
    /\ late = {}
    /\ drops = 0

Next ==
    \/ RecordsStep /\ UNCHANGED <<streamVars, late>>
    \/ \E a \in Sessions : CommitSeen(a)
    \/ Open \/ Refuse \/ Poll \/ Deliver \/ Drop

\* The stream's loop runs on and the browser reconnects.  The requests need
\* no fairness: one that never ends delays nobody's events.
Spec == Init /\ [][Next]_vars /\ WF_vars(Open \/ Refuse \/ Poll \/ Deliver)

-----------------------------------------------------------------------------
ReceivedIds == {k.id : k \in ToSet(received)}

\* Across polls, batches and reconnections the browser receives committed
\* events in the order of occurrence, and none twice.
StreamIsOrdered ==
    /\ \A i, j \in 1 .. Len(received) : i < j => Before(received[i], received[j])
    /\ ToSet(received) \subseteq Keys

\* Between the first and the last event received nothing is missing but
\* events whose transaction began early and committed after a later event
\* had been read (the cursor is a time, not a commit order).
OnlyLateIsMissed ==
    \A e \in events :
        /\ received # <<>>
        /\ Before(received[1], e) /\ Before(e, Last(received))
        => e.id \in ReceivedIds \cup late

\* The browser has everything from its first event on that it was not late
\* for, and has a first event as soon as there is one.
CaughtUp ==
    /\ Keys # {} => received # <<>>
    /\ \A e \in events :
          received # <<>> /\ Before(received[1], e) => e.id \in ReceivedIds \cup late

\* However often the connection breaks and whatever is still written, the
\* browser catches up again and again, as long as it is let back in.
EventsArrive == []<>(CaughtUp \/ conn = "refused")
=============================================================================
