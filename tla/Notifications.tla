---------------------------- MODULE Notifications ----------------------------
(***************************************************************************)
(* From a change of a run to the page that shows it: the worker publishes  *)
(* to the channel of the organization, the pub/sub service of the query    *)
(* API hands the message to the streams of the SSE endpoint, and each tab  *)
(* reads its stream.                                                       *)
(***************************************************************************)
EXTENDS Integers, FiniteSets

CONSTANTS Tabs, Slots, Orgs, FirstOrg,
          MaxConnections, \* per organization
          MaxBreaks,      \* streams that break, at most
          MaxLosses,      \* losses of the connection to Redis, at most
          MaxEnds,        \* connections to Redis that ioredis gives up, at most
          MaxRestarts     \* of the query API, at most

ASSUME NotificationsAssumption ==
  /\ FirstOrg \in [Tabs -> Orgs] /\ IsFiniteSet(Orgs)
  /\ MaxConnections \in Nat /\ MaxBreaks \in Nat /\ MaxLosses \in Nat
  /\ MaxEnds \in Nat /\ MaxRestarts \in Nat

VARIABLES link, listeners, known, waiting, wire, redis, hasty,
          active, org, client, channel, latest, timer, spare, met, refetching, stale,
          served, \* the streams the SSE endpoint serves
          gone,   \* the streams whose server has stopped
          mail,   \* streams with a notification the tab has not read
          due,    \* organizations with a change the worker has not published
          breaks, losses, ends, restarts

Tab == INSTANCE SseProvider
Hub == INSTANCE RedisPubSub WITH Channels <- Orgs, Streams <- Tabs \X Slots

Streams == Tabs \X Slots
bounds  == <<breaks, losses, ends, restarts>>
tab     == <<active, org, client, channel, latest, timer, spare, met, refetching, stale>>
hub     == <<link, listeners, known, waiting, wire, redis, hasty>>
vars    == <<hub, tab, served, gone, mail, due, bounds>>

Init ==
  /\ Tab!TabInit /\ Hub!HubInit
  /\ served = {} /\ gone = {} /\ mail = {} /\ due = {}
  /\ breaks = 0 /\ losses = 0 /\ ends = 0 /\ restarts = 0

-----------------------------------------------------------------------------
(* The SSE endpoint.                                                        *)

Connections(o) == {s \in served : channel[s] = o}

\* Mutant: one connection more than the limit.
ServeOneMore(s) ==
  /\ client[s] = "requesting" /\ s \notin served \cup gone
  /\ Cardinality(Connections(channel[s])) <= MaxConnections
  /\ served' = served \cup {s}
  /\ Hub!Subscribe(channel[s], s)
  /\ UNCHANGED <<tab, gone, mail, due, bounds>>

\* events(): the stream is counted, and its callback subscribed.
Serve(s) ==
  /\ client[s] = "requesting" /\ s \notin served \cup gone
  /\ Cardinality(Connections(channel[s])) < MaxConnections
  /\ served' = served \cup {s}
  /\ Hub!Subscribe(channel[s], s)
  /\ UNCHANGED <<tab, gone, mail, due, bounds>>

\* 429: too many connections.
TooMany(s) ==
  /\ client[s] = "requesting" /\ s \notin served \cup gone
  /\ Cardinality(Connections(channel[s])) >= MaxConnections
  /\ Tab!Ends(s)
  /\ UNCHANGED <<hub, served, gone, mail, due, bounds>>

\* The teardown of the stream, when the server sees that the client is gone.
TearDown(s) ==
  /\ s \in served /\ client[s] = "closed"
  /\ served' = served \ {s}
  /\ Hub!Unsubscribe(channel[s], s)
  /\ UNCHANGED <<tab, gone, mail, due, bounds>>

-----------------------------------------------------------------------------
(* The streams.                                                             *)

Opened(s) ==
  /\ s \in served
  /\ Tab!Opened(s)
  /\ UNCHANGED <<hub, served, gone, mail, due, bounds>>

Read(s) ==
  /\ s \in mail
  /\ mail' = mail \ {s}
  /\ Tab!Read(s)
  /\ UNCHANGED <<hub, served, gone, due, bounds>>

\* The network breaks the stream, or the server that served it is gone.
Breaks(s) ==
  /\ \/ breaks < MaxBreaks /\ breaks' = breaks + 1
     \/ s \in gone /\ UNCHANGED breaks
  /\ gone' = gone \ {s} /\ mail' = mail \ {s}
  /\ Tab!Ends(s)
  /\ UNCHANGED <<hub, served, due, losses, ends, restarts>>

\* A slot is free again when both sides have closed.
Free(s) == client[s] = "closed" /\ s \notin served
Armed(t) == spare[t] + IF timer[t] = "armed" THEN 1 ELSE 0

Reconnect(s) ==
  /\ Free(s)
  /\ Tab!TimerFires(s) \/ Tab!SpareFires(s)
  /\ UNCHANGED <<hub, served, gone, mail, due, bounds>>

\* The bound on the streams of a tab: a slot is left for each armed timer.
Visible(s) ==
  /\ Free(s)
  /\ \/ timer[s[1]] = "armed"
     \/ Cardinality({i \in Slots : Free(<<s[1], i>>)}) > Armed(s[1])
  /\ Tab!Visible(s)
  /\ UNCHANGED <<hub, served, gone, mail, due, bounds>>

SwitchOrganization(t, o) ==
  /\ Tab!SwitchOrganization(t, o)
  /\ UNCHANGED <<hub, served, gone, mail, due, bounds>>

Logout(t) ==
  /\ Tab!Logout(t)
  /\ mail' = {s \in mail : client'[s] # "closed"}
  /\ gone' = {s \in gone : client'[s] # "closed"}
  /\ UNCHANGED <<hub, served, due, bounds>>

Refetch(t) ==
  /\ Tab!Refetch(t)
  /\ UNCHANGED <<hub, served, gone, mail, due, bounds>>

-----------------------------------------------------------------------------
(* The worker, and Redis.                                                   *)

\* A run of the organization changes.
Change(o) ==
  /\ due' = due \cup {o}
  /\ stale' = stale \cup {t \in Tabs : active[t] /\ org[t] = o}
  /\ UNCHANGED <<hub, active, org, client, channel, latest, timer, spare, met,
                 refetching, served, gone, mail, bounds>>

\* run.updated; with nobody subscribed, or no connection, it is lost.
Publish(o) ==
  /\ o \in due
  /\ due' = due \ {o}
  /\ mail' = mail \cup {s \in Hub!Hear(o) : Tab!Busy(s)}
  /\ UNCHANGED <<hub, tab, served, gone, bounds>>

\* publish() fails, and swallows the error.
PublishFails(o) ==
  /\ o \in due
  /\ due' = due \ {o}
  /\ UNCHANGED <<hub, tab, served, gone, mail, bounds>>

HubStep ==
  /\ \/ (Hub!Ready \/ Hub!Answer \/ Hub!GiveUpCommands \/ Hub!ComeBack) /\ UNCHANGED bounds
     \/ Hub!Lose /\ losses < MaxLosses /\ losses' = losses + 1
        /\ UNCHANGED <<breaks, ends, restarts>>
     \/ Hub!End /\ ends < MaxEnds /\ ends' = ends + 1
        /\ UNCHANGED <<breaks, losses, restarts>>
  /\ UNCHANGED <<tab, served, gone, mail, due>>

\* The query API restarts: its streams and its callbacks are gone.
Restart ==
  /\ restarts < MaxRestarts /\ restarts' = restarts + 1
  /\ Hub!Restart
  /\ served' = {} /\ gone' = gone \cup {s \in served : client[s] # "closed"}
  /\ UNCHANGED <<tab, mail, due, breaks, losses, ends>>

Next ==
  \/ \E s \in Streams : \/ Serve(s) \/ TooMany(s) \/ TearDown(s) \/ Opened(s) \/ Read(s)
                        \/ Breaks(s) \/ Reconnect(s) \/ Visible(s)
  \/ \E t \in Tabs : Logout(t) \/ Refetch(t) \/ \E o \in Orgs : SwitchOrganization(t, o)
  \/ \E o \in Orgs : Change(o) \/ Publish(o) \/ PublishFails(o)
  \/ HubStep \/ Restart

Spec == Init /\ [][Next]_vars

\* Requests are answered, what is in a stream is read, closed streams are noticed, timers
\* fire, and the connection to Redis is made, comes back and answers.
Fairness ==
  /\ \A s \in Streams : /\ WF_vars(Serve(s) \/ TooMany(s)) /\ WF_vars(TearDown(s))
                        /\ WF_vars(Opened(s)) /\ WF_vars(Read(s))
  /\ WF_vars(\E s \in Streams : Breaks(s) /\ UNCHANGED breaks)
  /\ \A t \in Tabs : WF_vars(\E i \in Slots : Reconnect(<<t, i>>)) /\ WF_vars(Refetch(t))
  /\ WF_vars((Hub!Ready \/ Hub!Answer \/ Hub!ComeBack) /\ HubStep)

FairSpec == Spec /\ Fairness

-----------------------------------------------------------------------------

TypeOK ==
  /\ Tab!TabTypeOK /\ Hub!HubTypeOK
  /\ served \subseteq Streams /\ gone \subseteq Streams /\ mail \subseteq Streams /\ due \subseteq Orgs
  /\ \A o \in Orgs : Cardinality(Connections(o)) <= MaxConnections
  /\ breaks \in 0..MaxBreaks /\ losses \in 0..MaxLosses
  /\ ends \in 0..MaxEnds /\ restarts \in 0..MaxRestarts

\* A provider never gives up: as long as the session lives there is a stream, a request
\* for one, or a timer that will call connect().
ProviderLives ==
  \A t \in Tabs : active[t] =>
    \/ \E i \in Slots : Tab!Busy(<<t, i>>)
    \/ timer[t] = "armed" \/ spare[t] > 0

\* Once connected to Redis with nothing on the way, the service is subscribed to the
\* channel of every stream, after losses of the connection and rejected commands too.
\* Two cases are left out: a channel whose last stream closed while its SUBSCRIBE was
\* still to come (see EachStreamIsSubscribed), and a connection ioredis gave up.
QuietStreamsHear ==
  link = "ready" /\ wire = <<>> /\ ends = 0 =>
    \A s \in served : channel[s] \in redis \cup hasty

\* A notification that was written to a stream is not lost: the page reads the database,
\* although the stream may break before the tab has read it, or the API restart.  Only
\* the first stream of a session may lose one, before its response has arrived.
NotifiedTabsRefetch ==
  \A t \in Tabs :
    (met[t] /\ \E i \in Slots : <<t, i>> \in mail)
      ~> (t \notin stale \/ ~active[t])

\* What a tab missed while it had no stream it catches up with when it is connected
\* again: a session that has been connected before refetches.
ReconnectRefetches ==
  \A t \in Tabs :
    (t \in stale /\ met[t] /\ \A i \in Slots : client[<<t, i>>] # "open")
      ~> (t \notin stale \/ ~active[t])

-----------------------------------------------------------------------------
(* What a comment of the code says.                                         *)

\* sse.controller.ts: "Each connection holds one Redis subscription ..."
EachStreamIsSubscribed ==
  link = "ready" /\ wire = <<>> => \A s \in served : channel[s] \in redis
=============================================================================
