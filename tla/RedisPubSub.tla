----------------------------- MODULE RedisPubSub -----------------------------
(***************************************************************************)
(* The pub/sub service of the query API: callbacks per channel, and one    *)
(* Redis connection, made at the first subscription, that has to be        *)
(* subscribed to the channels with callbacks.  A callback is the server    *)
(* side of an SSE stream.                                                  *)
(*                                                                         *)
(* Of ioredis the module supposes: commands are answered in order; those   *)
(* given while there is no connection wait for it; after a loss it comes   *)
(* back subscribed to what it was subscribed to.  When it has failed often *)
(* enough (maxRetriesPerRequest) it rejects the commands that wait.        *)
(***************************************************************************)
EXTENDS SequencesExt

CONSTANTS Channels, Streams

VARIABLES
  link,      \* "none", "connecting" (before the first ready), "ready", "lost"
  listeners, \* channelCallbacks: [Channels -> SUBSET Streams] ({}: no entry)
  known,     \* subscribedChannels
  waiting,   \* the channels of subscribe() calls that wait for the connection
  wire,      \* the SUBSCRIBE and UNSUBSCRIBE commands without an answer
  redis,     \* what the connection is subscribed to, when it is ready
  hasty      \* history: channels given up while a SUBSCRIBE for them was to come

hub == <<link, listeners, known, waiting, wire, redis, hasty>>

Command == [op: {"subscribe", "unsubscribe"}, channel: Channels]
Sub(c)   == [op |-> "subscribe", channel |-> c]
Unsub(c) == [op |-> "unsubscribe", channel |-> c]

\* The channels a queue of commands subscribes to.
Asked(w) == {w[i].channel : i \in {j \in DOMAIN w : w[j].op = "subscribe"}}

HubTypeOK ==
  /\ link \in {"none", "connecting", "ready", "lost"}
  /\ listeners \in [Channels -> SUBSET Streams]
  /\ known \subseteq Channels /\ redis \subseteq Channels /\ hasty \subseteq Channels
  /\ waiting \in Seq(Channels)
  /\ wire \in Seq(Command)

\* A process that has just started.
HubInit ==
  /\ link = "none" /\ listeners = [c \in Channels |-> {}] /\ known = {}
  /\ waiting = <<>> /\ wire = <<>> /\ redis = {} /\ hasty = {}

-----------------------------------------------------------------------------

\* subscribe(): an unknown channel is subscribed to, at once or once connected.
Subscribe(c, s) ==
  /\ listeners' = [listeners EXCEPT ![c] = @ \cup {s}]
  /\ link' = IF c \notin known /\ link = "none" THEN "connecting" ELSE link
  /\ waiting' = IF c \notin known /\ link \in {"none", "connecting"}
                  THEN Append(waiting, c) ELSE waiting
  /\ wire' = IF c \notin known /\ link \in {"ready", "lost"}
               THEN Append(wire, Sub(c)) ELSE wire
  /\ UNCHANGED <<known, redis, hasty>>

\* The function subscribe() returns: with the last callback goes the channel.
Unsubscribe(c, s) ==
  LET last == listeners[c] = {s}
  IN  /\ listeners' = [listeners EXCEPT ![c] = @ \ {s}]
      /\ known' = IF last THEN known \ {c} ELSE known
      /\ wire' = IF last /\ link # "none" THEN Append(wire, Unsub(c)) ELSE wire
      /\ hasty' = IF last /\ c \in Range(waiting) \cup Asked(wire)
                    THEN hasty \cup {c} ELSE hasty
      /\ UNCHANGED <<link, waiting, redis>>

\* The first 'ready' resolves subscriberPromise.
Ready ==
  /\ link = "connecting"
  /\ link' = "ready"
  /\ wire' = wire \o [i \in DOMAIN waiting |-> Sub(waiting[i])]
  /\ waiting' = <<>>
  /\ UNCHANGED <<listeners, known, redis, hasty>>

\* Redis answers the oldest command.
Answer ==
  /\ link = "ready" /\ wire # <<>>
  /\ LET c == Head(wire).channel
     IN  IF Head(wire).op = "subscribe"
           THEN redis' = redis \cup {c} /\ known' = known \cup {c}
           ELSE redis' = redis \ {c} /\ UNCHANGED known
  /\ wire' = Tail(wire)
  /\ UNCHANGED <<link, listeners, waiting, hasty>>

Lose ==
  /\ link = "ready"
  /\ link' = "lost"
  /\ UNCHANGED <<listeners, known, waiting, wire, redis, hasty>>

\* The commands that wait are rejected.  subscribeToChannel() swallows the error, so
\* its channel counts as subscribed.
GiveUpCommands ==
  /\ link \in {"connecting", "lost"} /\ wire # <<>>
  /\ known' = known \cup Asked(wire)
  /\ wire' = <<>>
  /\ UNCHANGED <<link, listeners, waiting, redis, hasty>>

\* Mutant: a later 'ready' resubscribes nothing.
ComeBackSilently ==
  /\ link = "lost"
  /\ link' = "ready"
  /\ UNCHANGED <<listeners, known, waiting, wire, redis, hasty>>

\* Any later 'ready' subscribes again to every channel with callbacks.
ComeBack ==
  /\ link = "lost"
  /\ link' = "ready"
  /\ LET active == SetToSeq({c \in Channels : listeners[c] # {}})
     IN  wire' = wire \o [i \in DOMAIN active |-> Sub(active[i])]
  /\ UNCHANGED <<listeners, known, waiting, redis, hasty>>

\* 'end': ioredis gives the connection up.  The next subscribe() makes a new one; the
\* commands are rejected after the handler ran, the calls that wait with them.
End ==
  /\ link # "none"
  /\ link' = "none"
  /\ known' = Asked(wire)
  /\ waiting' = <<>> /\ wire' = <<>> /\ redis' = {}
  /\ UNCHANGED <<listeners, hasty>>

\* The process restarts.
Restart ==
  /\ link' = "none" /\ listeners' = [c \in Channels |-> {}] /\ known' = {}
  /\ waiting' = <<>> /\ wire' = <<>> /\ redis' = {} /\ hasty' = {}

\* Those who hear a message that is published on the channel now.
Hear(c) == IF link = "ready" /\ c \in redis THEN listeners[c] ELSE {}
=============================================================================
