------------------------------ MODULE LiveUpdates ------------------------------
(* What the browser is shown as it happens: EventBus (core/eventbus.py) calls *)
(* the hub in the publisher's thread, SSEHub (api/sse.py) puts the event into *)
(* the bounded queue of every stream, a handler thread per stream             *)
(* (api/server.py) writes it out, and web/js/sse.js connects again when its   *)
(* stream ends. Events are numbered as the hub's lock orders them; 0 is the   *)
(* overflow sentinel. The hub works under its lock, the handlers' get() does  *)
(* not: a step of a handler may come between any two of the hub's.            *)
EXTENDS Sequences, SequencesExt

CONSTANTS QueueSize,                      \* 256
          MaxPublished, MaxStreams        \* bounds of the model

ASSUME LiveAssumption == QueueSize \in Nat \ {0}

VARIABLES
  published,   \* events the hub was called with
  hub,         \* the call in progress: streams to do, the one it is at and how far, the dead
  streams,     \* every stream ever opened
  page         \* the browser: its stream (0: none)
liveVars == <<published, hub, streams, page>>

NoCall == [todo |-> {}, at |-> 0, step |-> "none", dead |-> {}]
Unlocked == hub.step = "none"
NewStream == [queue |-> <<>>, registered |-> FALSE, joined |-> FALSE, since |-> 0, sent |-> <<>>, open |-> TRUE]
Registered == {c \in DOMAIN streams : streams[c].registered}

LiveInit == published = 0 /\ hub = NoCall /\ streams = <<>> /\ page = 0

-----------------------------------------------------------------------------
(* The hub *)

\* publish() of a forwarded topic reaches the hub: it takes the lock and a copy of its clients.
Publish ==
  /\ Unlocked /\ published < MaxPublished
  /\ published' = published + 1
  /\ hub' = [NoCall EXCEPT !.todo = Registered, !.step = "put"]
  /\ UNCHANGED <<streams, page>>

Put(c) ==
  /\ hub.step = "put" /\ c \in hub.todo
  /\ IF Len(streams[c].queue) < QueueSize
     THEN /\ streams' = [streams EXCEPT ![c].queue = Append(@, published)]
          /\ hub' = [hub EXCEPT !.todo = @ \ {c}]
     ELSE hub' = [hub EXCEPT !.at = c, !.step = "drop"] /\ UNCHANGED streams
  /\ UNCHANGED <<published, page>>

\* The queue may have become empty since it was found full.
DropOldest ==
  /\ hub.step = "drop"
  /\ streams' = [streams EXCEPT ![hub.at].queue = IF @ = <<>> THEN @ ELSE Tail(@)]
  /\ hub' = [hub EXCEPT !.step = "sentinel"]
  /\ UNCHANGED <<published, page>>

\* Only the hub puts, so there is room now.
PutEventInstead == [streams EXCEPT ![hub.at].queue = Append(@, published)]
WithSentinel == [streams EXCEPT ![hub.at].queue = Append(@, 0)]
PutSentinel ==
  /\ hub.step = "sentinel"
  /\ streams' = WithSentinel
  /\ hub' = [todo |-> hub.todo \ {hub.at}, at |-> 0, step |-> "put", dead |-> hub.dead \union {hub.at}]
  /\ UNCHANGED <<published, page>>

Discard ==
  /\ hub.step = "put" /\ hub.todo = {}
  /\ streams' = [c \in DOMAIN streams |-> [streams[c] EXCEPT !.registered = @ /\ c \notin hub.dead]]
  /\ hub' = NoCall
  /\ UNCHANGED <<published, page>>

-----------------------------------------------------------------------------
(* The handlers and the browser *)

\* The response's headers reach the browser before the handler has a queue.
Connect ==
  /\ page = 0 /\ Len(streams) < MaxStreams
  /\ streams' = Append(streams, NewStream) /\ page' = Len(streams')
  /\ UNCHANGED <<published, hub>>

AddClient(c) ==
  /\ streams[c].open /\ ~streams[c].joined /\ Unlocked
  /\ streams' = [streams EXCEPT ![c] = [streams[c] EXCEPT !.registered = TRUE, !.joined = TRUE, !.since = published]]
  /\ UNCHANGED <<published, hub, page>>

\* get(), and the write if it was an event; a browser that has gone breaks the write. The
\* sentinel ends the stream.
Write(c) ==
  /\ streams[c].open /\ streams[c].joined /\ streams[c].queue # <<>>
  /\ LET s == streams[c]
         event == Head(s.queue)
         written == event # 0 /\ page = c
     IN streams' = [streams EXCEPT ![c] =
          [s EXCEPT !.queue = Tail(s.queue), !.open = written,
                    !.sent = IF written THEN Append(s.sent, event) ELSE s.sent]]
  /\ UNCHANGED <<published, hub, page>>

\* Nothing came for 15 seconds: the heartbeat finds that the browser has gone.
Heartbeat(c) ==
  /\ streams[c].open /\ streams[c].joined /\ streams[c].queue = <<>> /\ page # c
  /\ streams' = [streams EXCEPT ![c].open = FALSE]
  /\ UNCHANGED <<published, hub, page>>

RemoveClient(c) ==
  /\ ~streams[c].open /\ streams[c].registered /\ Unlocked
  /\ streams' = [streams EXCEPT ![c].registered = FALSE]
  /\ UNCHANGED <<published, hub, page>>

\* The stream has ended, or the connection or the page is lost; connectLoop() will be called again.
Disconnect == page # 0 /\ page' = 0 /\ UNCHANGED <<published, hub, streams>>

LiveNext ==
  \/ Publish \/ DropOldest \/ PutSentinel \/ Discard \/ Connect \/ Disconnect
  \/ \E c \in DOMAIN streams : Put(c) \/ AddClient(c) \/ Write(c) \/ Heartbeat(c) \/ RemoveClient(c)
LiveSpecification == LiveInit /\ [][LiveNext]_liveVars

-----------------------------------------------------------------------------
\* A stream the browser can still read has shown it, or is about to, every event since it was
\* registered, in order and once: if one was lost, the stream ends and nothing newer is shown on it.
Complete(c) ==
  LET shown == streams[c].sent \o streams[c].queue
      behind == c \in hub.todo
  IN shown = [i \in 1 .. (published - streams[c].since - IF behind THEN 1 ELSE 0) |-> streams[c].since + i]
Ends(c) ==
  LET queue == streams[c].queue
  IN /\ ~streams[c].registered \/ c \in hub.dead
     /\ queue # <<>> /\ Last(queue) = 0 /\ \A i \in 1 .. (Len(queue) - 1) : queue[i] \in 1 .. (published - 1)
LossEndsStream ==
  \A c \in DOMAIN streams :
    streams[c].open /\ streams[c].joined /\ c # hub.at => Complete(c) \/ Ends(c)
=============================================================================
