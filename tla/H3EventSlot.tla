---------------------------- MODULE H3EventSlot ----------------------------
(***************************************************************************)
(* The HTTP/3 event-polling bridge of h3_jni.c: HTTP/3 sessions           *)
(* (quiche_h3_conn handles) created, polled and freed by Java threads, and *)
(* the "most recently polled event" cache that quiche_h3_event_headers     *)
(* reads.  In the code that cache is one thread-local variable,           *)
(*     static __thread quiche_h3_event *current_event                     *)
(* shared by every session polled on the same thread; the model keeps it *)
(* as a function from threads to event ids.                               *)
(*                                                                         *)
(* The quiche engine is the environment: Arrive puts an event in a        *)
(* session's pending queue (what quiche_conn_recv and the h3 layer do).   *)
(* Every JNI call is one atomic action, which is sound because the Java   *)
(* side is single-threaded per handle (spec section 5) and current_event  *)
(* is thread-local, so no two threads ever touch the same slot.           *)
(***************************************************************************)
EXTENDS Naturals, Sequences, FiniteSets

CONSTANTS
    Threads,      \* Java threads calling the native methods
    Sessions,     \* quiche_h3_conn handles
    ArrivalKinds, \* event kinds the engine may produce in this model
    MaxEvents,    \* bound on the number of events the engine produces
    NULL

\* quiche_h3_event_type values that h3_jni.c distinguishes; anything else
\* (e.g. PRIORITY_UPDATE) falls to the default branch.
EventKinds == {"HEADERS", "DATA", "FINISHED", "GOAWAY", "RESET",
               "PRIORITY_UPDATE"}

ASSUME ArrivalKinds \subseteq EventKinds
ASSUME MaxEvents \in Nat \ {0}
ASSUME NULL \notin Threads \cup Sessions

EventIds == 1 .. MaxEvents

\* Life of a quiche_h3_event: produced by the engine ("queued"), handed out
\* by quiche_h3_conn_poll and held in a current_event slot ("cached"),
\* freed by quiche_h3_event_free ("freed"), or dropped unseen with its
\* session ("dropped").
EventStates == {"unborn", "queued", "cached", "freed", "dropped"}

VARIABLES
    h3,            \* [Sessions -> {"unused", "live", "freed"}]
    queue,         \* [Sessions -> Seq(EventIds)]: quiche's pending events
    events,        \* [EventIds -> [sess, kind, st]]
    nextEvent,     \* id of the next event the engine produces
    current_event, \* [Threads -> EventIds \cup {NULL}]: the TLS slot
    frees,         \* [EventIds -> Nat]: quiche_h3_event_free calls per event
    crashed,       \* the process aborted (panic inside quiche)
    headersRead    \* [Threads -> NULL or [sess, ev]]: what the latest
                   \* quiche_h3_event_headers call on the thread returned

vars == <<h3, queue, events, nextEvent, current_event, frees, crashed,
          headersRead>>

TypeOK ==
    /\ h3 \in [Sessions -> {"unused", "live", "freed"}]
    /\ queue \in [Sessions -> Seq(EventIds)]
    /\ events \in [EventIds -> [sess : Sessions \cup {NULL},
                                kind : EventKinds \cup {NULL},
                                st   : EventStates]]
    /\ nextEvent \in 1 .. MaxEvents + 1
    /\ current_event \in [Threads -> EventIds \cup {NULL}]
    /\ frees \in [EventIds -> Nat]
    /\ crashed \in BOOLEAN
    /\ headersRead \in [Threads -> {NULL} \cup [sess : Sessions, ev : EventIds]]

Init ==
    /\ h3 = [s \in Sessions |-> "unused"]
    /\ queue = [s \in Sessions |-> <<>>]
    /\ events = [e \in EventIds |-> [sess |-> NULL, kind |-> NULL,
                                     st |-> "unborn"]]
    /\ nextEvent = 1
    /\ current_event = [t \in Threads |-> NULL]
    /\ frees = [e \in EventIds |-> 0]
    /\ crashed = FALSE
    /\ headersRead = [t \in Threads |-> NULL]

(***************************************************************************)
(* Helpers                                                                 *)
(***************************************************************************)

\* "if (current_event != NULL) { quiche_h3_event_free(current_event);
\*  current_event = NULL; }": the event states and free counts after
\* releasing thread t's slot.
ReleasedEvents(t) ==
    IF current_event[t] = NULL THEN events
    ELSE [events EXCEPT ![current_event[t]].st = "freed"]

ReleasedFrees(t) ==
    IF current_event[t] = NULL THEN frees
    ELSE [frees EXCEPT ![current_event[t]] = @ + 1]

\* Events quiche still holds for session s are dropped with the connection.
DroppedWith(s, evs) ==
    [e \in EventIds |-> IF e \in {queue[s][i] : i \in 1 .. Len(queue[s])}
                        THEN [evs[e] EXCEPT !.st = "dropped"]
                        ELSE evs[e]]

(***************************************************************************)
(* Environment: the engine produces an event for a live session.          *)
(***************************************************************************)
Arrive(s, k) ==
    /\ ~crashed
    /\ h3[s] = "live"
    /\ nextEvent <= MaxEvents
    /\ events' = [events EXCEPT ![nextEvent] =
                      [sess |-> s, kind |-> k, st |-> "queued"]]
    /\ queue' = [queue EXCEPT ![s] = Append(@, nextEvent)]
    /\ nextEvent' = nextEvent + 1
    /\ UNCHANGED <<h3, current_event, frees, crashed,
                   headersRead>>

(***************************************************************************)
(* quiche_h3_conn_new_with_transport                                       *)
(***************************************************************************)
H3ConnNew(s) ==
    /\ ~crashed
    /\ h3[s] = "unused"
    /\ h3' = [h3 EXCEPT ![s] = "live"]
    /\ UNCHANGED <<queue, events, nextEvent, current_event, frees, crashed,
                   headersRead>>

\* Fault variant of H3ConnFree: the slot is freed but not reset to NULL.
H3ConnFreeKeepSlot(t, s) ==
    /\ ~crashed
    /\ h3[s] = "live"
    /\ h3' = [h3 EXCEPT ![s] = "freed"]
    /\ queue' = [queue EXCEPT ![s] = <<>>]
    /\ events' = DroppedWith(s, ReleasedEvents(t))
    /\ frees' = ReleasedFrees(t)
    /\ UNCHANGED <<current_event, nextEvent, crashed, headersRead>>

(***************************************************************************)
(* quiche_h3_conn_free on thread t: frees the connection (and the events  *)
(* quiche still queues for it), then frees whatever event thread t's slot *)
(* holds, whichever session it came from.                                 *)
(***************************************************************************)
H3ConnFree(t, s) ==
    /\ ~crashed
    /\ h3[s] = "live"
    /\ h3' = [h3 EXCEPT ![s] = "freed"]
    /\ queue' = [queue EXCEPT ![s] = <<>>]
    /\ events' = DroppedWith(s, ReleasedEvents(t))
    /\ frees' = ReleasedFrees(t)
    /\ current_event' = [current_event EXCEPT ![t] = NULL]
    /\ UNCHANGED <<nextEvent, crashed, headersRead>>

\* Fault variant of H3ConnPoll: the previous event is never freed.
H3ConnPollNoRelease(t, s) ==
    /\ ~crashed
    /\ h3[s] = "live"
    /\ queue[s] # <<>>
    /\ queue' = [queue EXCEPT ![s] = Tail(@)]
    /\ events' = [events EXCEPT ![Head(queue[s])].st = "cached"]
    /\ current_event' = [current_event EXCEPT ![t] = Head(queue[s])]
    /\ UNCHANGED <<h3, nextEvent, crashed, headersRead, frees>>

(***************************************************************************)
(* quiche_h3_conn_poll on thread t: release the slot, ask quiche for the  *)
(* next event; none -> return NULL; otherwise store it in the slot and    *)
(* return {stream_id, type}.  If NewLongArray fails the call returns NULL *)
(* although the event has been dequeued and cached.                      *)
(***************************************************************************)
H3ConnPoll(t, s) ==
    /\ ~crashed
    /\ h3[s] = "live"
    /\ frees' = ReleasedFrees(t)
    /\ \/ /\ queue[s] = <<>>
          /\ events' = ReleasedEvents(t)
          /\ current_event' = [current_event EXCEPT ![t] = NULL]
          /\ UNCHANGED queue
       \/ /\ queue[s] # <<>>
          /\ queue' = [queue EXCEPT ![s] = Tail(@)]
          /\ events' = [ReleasedEvents(t) EXCEPT ![Head(queue[s])].st = "cached"]
          /\ current_event' = [current_event EXCEPT ![t] = Head(queue[s])]
    /\ UNCHANGED <<h3, nextEvent, crashed, headersRead>>

(***************************************************************************)
(* quiche_h3_event_headers(h3_conn_ptr) on thread t.  The h3_conn_ptr     *)
(* argument is never used: the call reads thread t's slot.  No event ->   *)
(* NULL.  quiche_h3_event_for_each_header on an event that is not a       *)
(* HEADERS event reaches quiche's unreachable!() and aborts the process.  *)
(* A HEADERS event yields its header list, or NULL when collecting it    *)
(* fails to allocate (HeaderCollector models that loop).                 *)
(***************************************************************************)
\* Fault variant of H3EventHeaders: the "current_event == NULL" test is
\* missing, so a call with no cached event goes on to build a result.
H3EventHeadersNoNullCheck(t, s) ==
    /\ ~crashed
    /\ h3[s] = "live"
    /\ LET e == current_event[t] IN
       \/ /\ e # NULL
          /\ events[e].kind # "HEADERS"
          /\ crashed' = TRUE
          /\ UNCHANGED headersRead
       \/ /\ e = NULL \/ events[e].kind = "HEADERS"
          /\ headersRead' = [headersRead EXCEPT ![t] = [sess |-> s, ev |-> e]]
          /\ UNCHANGED crashed
    /\ UNCHANGED <<h3, queue, events, nextEvent, current_event, frees>>

H3EventHeaders(t, s) ==
    /\ ~crashed
    /\ h3[s] = "live"
    /\ LET e == current_event[t] IN
       \/ /\ e = NULL
          /\ headersRead' = [headersRead EXCEPT ![t] = NULL]
          /\ UNCHANGED crashed
       \/ /\ e # NULL
          /\ events[e].kind # "HEADERS"
          /\ crashed' = TRUE
          /\ UNCHANGED headersRead
       \/ /\ e # NULL
          /\ events[e].kind = "HEADERS"
          /\ \/ headersRead' = [headersRead EXCEPT ![t] = [sess |-> s, ev |-> e]]
             \/ headersRead' = [headersRead EXCEPT ![t] = NULL]
          /\ UNCHANGED crashed
    /\ UNCHANGED <<h3, queue, events, nextEvent, current_event, frees>>

Next ==
    \/ \E s \in Sessions, k \in ArrivalKinds : Arrive(s, k)
    \/ \E s \in Sessions : H3ConnNew(s)
    \/ \E t \in Threads, s \in Sessions :
          \/ H3ConnFree(t, s)
          \/ H3ConnPoll(t, s)
          \/ H3EventHeaders(t, s)

Spec == Init /\ [][Next]_vars

(***************************************************************************)
(* Properties                                                              *)
(***************************************************************************)

\* No quiche_h3_event is freed twice, whatever order polls and frees of
\* several sessions on several threads come in (h3_conn_free and poll both
\* free the slot and must both reset it).
NoDoubleFree == \A e \in EventIds : frees[e] <= 1

\* Every event quiche handed out is either freed or held by exactly one
\* thread's slot: a poll never overwrites the slot without freeing it.
NoEventLeak ==
    \A e \in EventIds :
        events[e].st = "cached" =>
            Cardinality({t \in Threads : current_event[t] = e}) = 1

\* Spec 4.5 / 9: the cached event belongs to the session; reading the
\* headers of session s returns headers of an event polled from s.
ReadHeadersOwnSession ==
    \A t \in Threads :
        headersRead[t] # NULL => events[headersRead[t].ev].sess = headersRead[t].sess

\* Spec 4.5: reading headers when the cached event is not a HEADERS event
\* fails with EventStale; it never takes the process down.
StaleReadRejected == ~crashed

=============================================================================
