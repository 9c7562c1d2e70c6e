-------------------------- MODULE NotificationsProofs --------------------------
(* What TLAPS proves about the notifications: for any tabs and organizations,  *)
(* any limit of connections and any number of losses, breaks and restarts.    *)
EXTENDS Notifications, Sequences, FiniteSetTheorems, SequenceTheorems, TLAPS

USE NotificationsAssumption

-----------------------------------------------------------------------------
(* The invariant.                                                           *)

\* The pub/sub service has a callback for each stream that is served, and no other.
CallbacksAreStreams ==
  /\ IsFiniteSet(served)
  /\ \A o \in Orgs : listeners[o] = Connections(o)

\* What is subscribed to, or will be, has a callback, unless it was given up in haste.
SubscribedAreWanted ==
  \A c \in known \cup Hub!Asked(wire) \cup Hub!Range(waiting) :
    listeners[c] # {} \/ c \in hasty

Wanted(c) == listeners[c] # {} /\ c \notin hasty

\* Nothing on the wire unsubscribes from c, from position i on.
KeptFrom(c, i) == \A j \in i..Len(wire) : wire[j] # Hub!Unsub(c)

\* When all that is on the wire has been answered, the connection is subscribed to c.
WillHear(c) == \/ c \in redis /\ KeptFrom(c, 1)
               \/ \E i \in 1..Len(wire) : wire[i] = Hub!Sub(c) /\ KeptFrom(c, i)

\* Where the subscription to a channel that is wanted stands in each state of the
\* connection.  While it is lost nothing is known: the commands may be rejected, and what
\* is wanted is subscribed to again when it comes back.
WantedAreSubscribed ==
  /\ link = "none" => \A c \in Orgs : listeners[c] = {}
  /\ link \in {"none", "connecting"} =>
       /\ known = {} /\ Hub!Asked(wire) = {}
       /\ \A c \in Orgs : Wanted(c) => c \in Hub!Range(waiting)
  /\ link = "ready" => \A c \in Orgs : Wanted(c) => WillHear(c)

HubInv == /\ CallbacksAreStreams /\ SubscribedAreWanted
          /\ ends = 0 => WantedAreSubscribed

IInv == TypeOK /\ HubInv /\ ProviderLives
-----------------------------------------------------------------------------
(* Commands on the wire.                                                    *)

LEMMA SubAndUnsub ==
  ASSUME NEW c, NEW d
  PROVE  /\ Hub!Sub(c) # Hub!Unsub(d) /\ Hub!Sub(c).channel = c /\ Hub!Unsub(c).channel = c
         /\ Hub!Sub(c).op = "subscribe" /\ Hub!Unsub(c).op = "unsubscribe"
         /\ Hub!Sub(c) = Hub!Sub(d) => c = d
         /\ Hub!Unsub(c) = Hub!Unsub(d) => c = d
         /\ c \in Orgs => Hub!Sub(c) \in Hub!Command /\ Hub!Unsub(c) \in Hub!Command
BY DEF Hub!Sub, Hub!Unsub, Hub!Command

LEMMA CommandIsSubOrUnsub ==
  ASSUME NEW x \in Hub!Command
  PROVE  /\ x.channel \in Orgs /\ x.op \in {"subscribe", "unsubscribe"}
         /\ x.op = "subscribe" => x = Hub!Sub(x.channel)
         /\ x.op # "subscribe" => x = Hub!Unsub(x.channel)
BY DEF Hub!Sub, Hub!Unsub, Hub!Command

LEMMA WireElements ==
  ASSUME NEW w \in Seq(Hub!Command)
  PROVE  /\ Len(w) \in Nat /\ DOMAIN w = 1..Len(w)
         /\ \A i \in 1..Len(w) : w[i] \in Hub!Command
OBVIOUS

\* Asked: the channels some command subscribes to.
LEMMA AskedHasCommand ==
  ASSUME NEW w \in Seq(Hub!Command), NEW c
  PROVE  c \in Hub!Asked(w) <=> \E i \in 1..Len(w) : w[i] = Hub!Sub(c)
<1>1. /\ DOMAIN w = 1..Len(w)
      /\ \A i \in 1..Len(w) : w[i] \in Hub!Command
  BY WireElements
<1>2. c \in Hub!Asked(w) <=> \E i \in DOMAIN w : w[i].op = "subscribe" /\ c = w[i].channel
  BY DEF Hub!Asked
<1>3. ASSUME NEW i \in 1..Len(w)
      PROVE  w[i].op = "subscribe" /\ c = w[i].channel <=> w[i] = Hub!Sub(c)
  BY <1>1, CommandIsSubOrUnsub, SubAndUnsub
<1> QED BY <1>1, <1>2, <1>3

LEMMA ChannelsOfSeq ==
  ASSUME NEW q \in Seq(Orgs)
  PROVE  /\ Len(q) \in Nat /\ DOMAIN q = 1..Len(q)
         /\ \A i \in 1..Len(q) : q[i] \in Orgs /\ q[i] \in Hub!Range(q)
         /\ \A c \in Hub!Range(q) : \E i \in 1..Len(q) : c = q[i]
         /\ Hub!Range(q) \subseteq Orgs
<1>1. Len(q) \in Nat /\ DOMAIN q = 1..Len(q) /\ \A i \in 1..Len(q) : q[i] \in Orgs
  OBVIOUS
<1>2. \A c : c \in Hub!Range(q) <=> \E i \in 1..Len(q) : c = q[i] BY <1>1 DEF Hub!Range
<1> QED BY <1>1, <1>2

LEMMA ChannelAdded ==
  ASSUME NEW q \in Seq(Orgs), NEW c \in Orgs
  PROVE  /\ Append(q, c) \in Seq(Orgs)
         /\ Hub!Range(Append(q, c)) = Hub!Range(q) \cup {c}
<1> DEFINE r == Append(q, c)
<1>1. /\ r \in Seq(Orgs) /\ Len(r) = Len(q) + 1 /\ r[Len(q) + 1] = c /\ Len(q) \in Nat
      /\ \A i \in 1..Len(q) : r[i] = q[i]
  OBVIOUS
<1> HIDE DEF r
<1>2. ASSUME NEW d \in Hub!Range(r) PROVE d \in Hub!Range(q) \cup {c}
  <2>1. PICK i \in 1..Len(r) : d = r[i] BY <1>1, ChannelsOfSeq
  <2>2. i \in 1..Len(q) \/ i = Len(q) + 1 BY <1>1
  <2> QED BY <1>1, <2>1, <2>2, ChannelsOfSeq
<1>3. ASSUME NEW d \in Hub!Range(q) \cup {c} PROVE d \in Hub!Range(r)
  <2>1. CASE d = c
    <3>1. Len(q) + 1 \in 1..Len(r) BY <1>1
    <3> QED BY <1>1, <2>1, <3>1, ChannelsOfSeq
  <2>2. CASE d \in Hub!Range(q)
    <3>1. PICK i \in 1..Len(q) : d = q[i] BY <2>2, ChannelsOfSeq
    <3>2. i \in 1..Len(r) /\ r[i] = d BY <1>1, <3>1
    <3> QED BY <1>1, <3>2, ChannelsOfSeq
  <2> QED BY <2>1, <2>2
<1> QED BY <1>1, <1>2, <1>3 DEF r

\* A command is added.
LEMMA CommandAdded ==
  ASSUME wire \in Seq(Hub!Command), NEW x \in Hub!Command, wire' = Append(wire, x)
  PROVE  /\ wire' \in Seq(Hub!Command) /\ Len(wire') = Len(wire) + 1
         /\ \A i \in 1..Len(wire) : wire'[i] = wire[i]
         /\ wire'[Len(wire) + 1] = x
OBVIOUS

LEMMA StillHeard ==
  ASSUME wire \in Seq(Hub!Command), NEW x \in Hub!Command, wire' = Append(wire, x),
         redis' = redis, NEW d, x # Hub!Unsub(d), WillHear(d)
  PROVE  WillHear(d)'
<1>1. /\ Len(wire) \in Nat /\ Len(wire') = Len(wire) + 1
      /\ \A i \in 1..Len(wire) : wire'[i] = wire[i]
      /\ wire'[Len(wire) + 1] = x
  BY CommandAdded, WireElements
<1>2. ASSUME NEW i \in Nat \ {0}, KeptFrom(d, i) PROVE KeptFrom(d, i)'
  <2> SUFFICES ASSUME NEW j \in i..Len(wire') PROVE wire'[j] # Hub!Unsub(d) BY DEF KeptFrom
  <2>1. CASE j <= Len(wire)
    <3>1. j \in i..Len(wire) /\ j \in 1..Len(wire) BY <1>1, <2>1
    <3> QED BY <1>1, <1>2, <3>1 DEF KeptFrom
  <2>2. CASE j = Len(wire) + 1 BY <1>1, <2>2
  <2> QED BY <1>1, <2>1, <2>2
<1>3. CASE d \in redis /\ KeptFrom(d, 1) BY <1>2, <1>3 DEF WillHear
<1>4. CASE \E i \in 1..Len(wire) : wire[i] = Hub!Sub(d) /\ KeptFrom(d, i)
  <2>1. PICK i \in 1..Len(wire) : wire[i] = Hub!Sub(d) /\ KeptFrom(d, i) BY <1>4
  <2>2. KeptFrom(d, i)' BY <1>2, <2>1
  <2>3. i \in 1..Len(wire') /\ wire'[i] = Hub!Sub(d) BY <1>1, <2>1
  <2> QED BY <2>2, <2>3 DEF WillHear
<1> QED BY <1>3, <1>4 DEF WillHear

LEMMA SubscribeHeard ==
  ASSUME wire \in Seq(Hub!Command), NEW c \in Orgs, wire' = Append(wire, Hub!Sub(c))
  PROVE  WillHear(c)'
<1>1. Hub!Sub(c) \in Hub!Command BY SubAndUnsub
<1>2. /\ Len(wire) \in Nat /\ Len(wire') = Len(wire) + 1
      /\ wire'[Len(wire) + 1] = Hub!Sub(c)
  BY <1>1, CommandAdded, WireElements
<1>3. ASSUME NEW j \in (Len(wire) + 1)..Len(wire') PROVE wire'[j] # Hub!Unsub(c)
  BY <1>2, SubAndUnsub
<1>4. Len(wire) + 1 \in 1..Len(wire') BY <1>2
<1> QED BY <1>2, <1>3, <1>4 DEF WillHear, KeptFrom

\* What a command asks for is added.
LEMMA AskedAdded ==
  ASSUME wire \in Seq(Hub!Command), NEW x \in Hub!Command, wire' = Append(wire, x), NEW c,
         c \in Hub!Asked(wire')
  PROVE  c \in Hub!Asked(wire) \/ x = Hub!Sub(c)
<1>1. /\ wire' \in Seq(Hub!Command) /\ Len(wire) \in Nat /\ Len(wire') = Len(wire) + 1
      /\ \A i \in 1..Len(wire) : wire'[i] = wire[i]
      /\ wire'[Len(wire) + 1] = x
  BY CommandAdded, WireElements
<1>2. PICK i \in 1..Len(wire') : wire'[i] = Hub!Sub(c) BY <1>1, AskedHasCommand
<1>3. CASE i \in 1..Len(wire) BY <1>1, <1>2, <1>3, AskedHasCommand
<1>4. CASE i = Len(wire) + 1 BY <1>1, <1>2, <1>4
<1> QED BY <1>1, <1>3, <1>4

\* The channels of q are subscribed to, after all that waits.
LEMMA SubsAdded ==
  ASSUME wire \in Seq(Hub!Command), NEW q \in Seq(Orgs),
         wire' = wire \o [i \in DOMAIN q |-> Hub!Sub(q[i])]
  PROVE  /\ wire' \in Seq(Hub!Command)
         /\ \A c \in Hub!Asked(wire') : c \in Hub!Asked(wire) \/ c \in Hub!Range(q)
         /\ \A c \in Hub!Range(q) : WillHear(c)'
<1> DEFINE r == [i \in DOMAIN q |-> Hub!Sub(q[i])]
<1>1. Len(q) \in Nat /\ DOMAIN q = 1..Len(q) /\ \A i \in 1..Len(q) : q[i] \in Orgs
  BY ChannelsOfSeq
<1>2. /\ r \in [1..Len(q) -> Hub!Command]
      /\ \A i \in 1..Len(q) : r[i] = Hub!Sub(q[i])
  BY <1>1, SubAndUnsub
<1>3. wire' = wire \o r OBVIOUS
<1>4. r \in Seq(Hub!Command) /\ Len(r) = Len(q)
  <2>1. r = [i \in 1..Len(q) |-> Hub!Sub(q[i])] BY <1>1
  <2>2. \A i \in 1..Len(q) : Hub!Sub(q[i]) \in Hub!Command BY <1>1, SubAndUnsub
  <2>3. [i \in 1..Len(q) |-> Hub!Sub(q[i])] \in Seq(Hub!Command) BY <1>1, <2>2
  <2>4. Len([i \in 1..Len(q) |-> Hub!Sub(q[i])]) = Len(q) BY <1>1
  <2> QED BY <2>1, <2>3, <2>4
<1> HIDE DEF r
<1>5. /\ wire' \in Seq(Hub!Command) /\ Len(wire) \in Nat /\ Len(wire') = Len(wire) + Len(q)
      /\ \A i \in 1..Len(wire) : wire'[i] = wire[i]
      /\ \A i \in 1..Len(q) : wire'[Len(wire) + i] = Hub!Sub(q[i])
  <2>1. wire' \in Seq(Hub!Command) /\ Len(wire) \in Nat BY <1>3, <1>4
  <2>2. Len(wire') = Len(wire) + Len(r) BY <1>3, <1>4, ConcatProperties
  <2>3. \A i \in 1..Len(wire) : wire'[i] = wire[i] BY <1>3, <1>4
  <2>4. \A i \in 1..Len(r) : wire'[Len(wire) + i] = r[i] BY <1>3, <1>4
  <2> QED BY <1>2, <1>4, <2>1, <2>2, <2>3, <2>4
<1>6. ASSUME NEW i \in 1..Len(wire'), i \notin 1..Len(wire)
      PROVE  /\ i - Len(wire) \in 1..Len(q)
             /\ wire'[i] = Hub!Sub(q[i - Len(wire)])
  <2>1. i - Len(wire) \in 1..Len(q) /\ Len(wire) + (i - Len(wire)) = i BY <1>1, <1>5, <1>6
  <2> QED BY <1>5, <2>1
<1>7. ASSUME NEW c \in Hub!Asked(wire') PROVE c \in Hub!Asked(wire) \/ c \in Hub!Range(q)
  <2>1. PICK i \in 1..Len(wire') : wire'[i] = Hub!Sub(c) BY <1>5, AskedHasCommand
  <2>2. CASE i \in 1..Len(wire) BY <1>5, <2>1, <2>2, AskedHasCommand
  <2>3. CASE i \notin 1..Len(wire)
    <3>1. /\ i - Len(wire) \in 1..Len(q)
          /\ wire'[i] = Hub!Sub(q[i - Len(wire)])
      BY <1>6, <2>3
    <3>2. c = q[i - Len(wire)] BY ZenonT(60), <2>1, <3>1, SubAndUnsub
    <3> QED BY <3>1, <3>2, ChannelsOfSeq
  <2> QED BY <2>2, <2>3
<1>8. ASSUME NEW c \in Hub!Range(q) PROVE WillHear(c)'
  <2>1. PICK k \in 1..Len(q) : c = q[k] BY ChannelsOfSeq
  <2> DEFINE i == Len(wire) + k
  <2>2. i \in 1..Len(wire') /\ i > Len(wire) /\ wire'[i] = Hub!Sub(c) BY <1>1, <1>5, <2>1
  <2>3. ASSUME NEW j \in i..Len(wire') PROVE wire'[j] # Hub!Unsub(c)
    <3>1. j \in 1..Len(wire') /\ j \notin 1..Len(wire) BY <1>5, <2>2
    <3> QED BY <1>6, <3>1, SubAndUnsub
  <2> HIDE DEF i
  <2> QED BY <2>2, <2>3 DEF WillHear, KeptFrom
<1> QED BY <1>5, <1>7, <1>8
LEMMA EmptyQueues ==
  /\ <<>> \in Seq(Hub!Command) /\ <<>> \in Seq(Orgs)
  /\ Hub!Asked(<<>>) = {} /\ Hub!Range(<<>>) = {}
<1>1. <<>> \in Seq(Hub!Command) /\ <<>> \in Seq(Orgs) /\ Len(<<>>) = 0 OBVIOUS
<1>2. \A c : c \notin Hub!Asked(<<>>)
  <2> SUFFICES ASSUME NEW c \in Hub!Asked(<<>>) PROVE FALSE OBVIOUS
  <2>1. PICK i \in 1..Len(<<>>) : <<>>[i] = Hub!Sub(c) BY <1>1, AskedHasCommand
  <2> QED BY <1>1, <2>1
<1>3. \A c : c \notin Hub!Range(<<>>)
  <2> SUFFICES ASSUME NEW c \in Hub!Range(<<>>) PROVE FALSE OBVIOUS
  <2>1. PICK i \in 1..Len(<<>>) : c = <<>>[i] BY <1>1, ChannelsOfSeq
  <2> QED BY <1>1, <2>1
<1> QED BY <1>1, <1>2, <1>3

LEMMA AskedAreChannels ==
  ASSUME NEW w \in Seq(Hub!Command)
  PROVE  Hub!Asked(w) \subseteq Orgs
<1> SUFFICES ASSUME NEW c \in Hub!Asked(w) PROVE c \in Orgs OBVIOUS
<1>1. PICK i \in 1..Len(w) : w[i] = Hub!Sub(c) BY AskedHasCommand
<1> QED BY <1>1, WireElements, CommandIsSubOrUnsub, SubAndUnsub

-----------------------------------------------------------------------------
(* The pub/sub service.                                                     *)

HubTypes == /\ Hub!HubTypeOK /\ served \subseteq Streams /\ ends \in Nat
            /\ channel \in [Streams -> Orgs]

\* With the same hub and the same channels nothing changes.
LEMMA HubStays ==
  ASSUME HubInv, UNCHANGED <<hub, served>>, ends' = 0 => ends = 0,
         \A s \in served : channel'[s] = channel[s]
  PROVE  HubInv'
<1>1. /\ UNCHANGED <<link, listeners, known, waiting, wire, redis, hasty, served>>
  BY DEF hub
<1>2. \A o \in Orgs : Connections(o)' = Connections(o) BY <1>1 DEF Connections
<1>3. CallbacksAreStreams' BY <1>1, <1>2 DEF HubInv, CallbacksAreStreams
<1>4. Hub!Asked(wire)' = Hub!Asked(wire) /\ Hub!Range(waiting)' = Hub!Range(waiting)
  BY <1>1
<1>5. SubscribedAreWanted' BY <1>1, <1>4 DEF HubInv, SubscribedAreWanted
<1>6. \A c : Wanted(c)' = Wanted(c) /\ WillHear(c)' = WillHear(c)
  BY <1>1 DEF Wanted, WillHear, KeptFrom
<1>7. ends = 0 => WantedAreSubscribed'
  BY <1>1, <1>4, <1>6 DEF HubInv, WantedAreSubscribed
<1> QED BY <1>3, <1>5, <1>7 DEF HubInv

\* The callbacks of one channel change.
LEMMA OneChannel ==
  ASSUME HubTypes, HubInv, NEW s \in served', NEW c \in Orgs, channel[s] = c, channel' = channel,
         served' = served \cup {s}, listeners' = [listeners EXCEPT ![c] = @ \cup {s}]
  PROVE  CallbacksAreStreams'
<1>1. IsFiniteSet(served') BY FS_AddElement DEF HubInv, CallbacksAreStreams
<1>2. ASSUME NEW o \in Orgs PROVE listeners'[o] = Connections(o)'
  <2>1. listeners[o] = {x \in served : channel[x] = o}
    BY DEF HubInv, CallbacksAreStreams, Connections
  <2>2. listeners'[o] = IF o = c THEN listeners[o] \cup {s} ELSE listeners[o]
    BY DEF HubTypes, Hub!HubTypeOK
  <2>3. Connections(o)' = {x \in served' : channel[x] = o} BY DEF Connections
  <2> QED BY <2>1, <2>2, <2>3
<1> QED BY <1>1, <1>2 DEF CallbacksAreStreams

\* subscribe() by a new stream.
LEMMA SubscribeKeeps ==
  ASSUME HubTypes, HubInv, NEW s \in Streams, served' = served \cup {s},
         Hub!Subscribe(channel[s], s), UNCHANGED <<channel, ends>>
  PROVE  HubInv' /\ Hub!HubTypeOK'
<1> DEFINE c == channel[s]
<1>1. /\ c \in Orgs /\ wire \in Seq(Hub!Command) /\ waiting \in Seq(Orgs)
      /\ listeners \in [Orgs -> SUBSET Streams]
      /\ link \in {"none", "connecting", "ready", "lost"}
  BY DEF HubTypes, Hub!HubTypeOK, Streams
<1>2. /\ listeners' = [listeners EXCEPT ![c] = @ \cup {s}]
      /\ UNCHANGED <<known, redis, hasty>>
      /\ \/ link' = "connecting" /\ link = "none" /\ c \notin known
         \/ link' = link /\ (link # "none" \/ c \in known)
      /\ \/ /\ c \notin known /\ link \in {"none", "connecting"}
            /\ waiting' = Append(waiting, c) /\ wire' = wire
         \/ /\ c \notin known /\ link \in {"ready", "lost"}
            /\ waiting' = waiting /\ wire' = Append(wire, Hub!Sub(c))
         \/ c \in known /\ waiting' = waiting /\ wire' = wire
  BY <1>1 DEF Hub!Subscribe
<1> HIDE DEF c
<1>3. Hub!Sub(c) \in Hub!Command BY <1>1, SubAndUnsub
<1>4. wire' \in Seq(Hub!Command) /\ waiting' \in Seq(Orgs)
  <2>1. Append(wire, Hub!Sub(c)) \in Seq(Hub!Command) BY <1>1, <1>3
  <2>2. Append(waiting, c) \in Seq(Orgs) BY <1>1, ChannelAdded
  <2> QED BY <1>1, <1>2, <2>1, <2>2
<1>5. Hub!HubTypeOK'
  <2>1. listeners' \in [Orgs -> SUBSET Streams] BY <1>1, <1>2
  <2> QED BY <1>1, <1>2, <1>4, <2>1 DEF HubTypes, Hub!HubTypeOK, Streams
<1>6. CallbacksAreStreams' BY <1>1, <1>2, OneChannel DEF c
<1>7. /\ s \in listeners'[c] /\ \A d \in Orgs : listeners[d] # {} => listeners'[d] # {}
      /\ \A d \in Orgs : d # c => listeners'[d] = listeners[d]
  BY <1>1, <1>2
<1>8. waiting' = waiting \/ Hub!Range(waiting') = Hub!Range(waiting) \cup {c}
  BY <1>1, <1>2, ChannelAdded
<1>9. ASSUME NEW d \in Hub!Asked(wire') PROVE d \in Hub!Asked(wire) \/ d = c
  <2>1. CASE wire' = wire BY <1>9, <2>1
  <2>2. CASE wire' = Append(wire, Hub!Sub(c))
    <3>1. d \in Hub!Asked(wire) \/ Hub!Sub(c) = Hub!Sub(d)
      BY <1>1, <1>3, <1>9, <2>2, AskedAdded
    <3> QED BY <3>1, SubAndUnsub
  <2> QED BY <1>2, <2>1, <2>2
<1>10. SubscribedAreWanted'
  <2> SUFFICES ASSUME NEW d \in known' \cup Hub!Asked(wire') \cup Hub!Range(waiting')
               PROVE  listeners'[d] # {} \/ d \in hasty'
    BY DEF SubscribedAreWanted
  <2>1. d = c \/ d \in known \cup Hub!Asked(wire) \cup Hub!Range(waiting)
    BY <1>2, <1>8, <1>9
  <2>2. d \in known \cup Hub!Asked(wire) \cup Hub!Range(waiting) => d \in Orgs
    BY <1>1, ChannelsOfSeq, AskedAreChannels DEF HubTypes, Hub!HubTypeOK
  <2> QED BY <1>2, <1>7, <2>1, <2>2 DEF HubInv, SubscribedAreWanted
<1>11. ASSUME ends = 0 PROVE WantedAreSubscribed'
  <2>1. WantedAreSubscribed BY <1>11 DEF HubInv
  <2>2. \A d \in Orgs : Wanted(d)' => Wanted(d) \/ d = c BY <1>2, <1>7 DEF Wanted
  <2>3. c \in known => listeners[c] # {} \/ c \in hasty BY DEF HubInv, SubscribedAreWanted
  <2>4. CASE link \in {"none", "connecting"}
    <3>1. known = {} BY <2>1, <2>4 DEF WantedAreSubscribed
    <3>2. /\ link' = "connecting" /\ known' = {} /\ wire' = wire
          /\ waiting' = Append(waiting, c)
      BY <1>2, <2>4, <3>1
    <3>3. Hub!Asked(wire') = {} BY <2>1, <2>4, <3>2 DEF WantedAreSubscribed
    <3>4. Hub!Range(waiting') = Hub!Range(waiting) \cup {c} BY <1>1, <3>2, ChannelAdded
    <3>5. \A d \in Orgs : Wanted(d)' => d \in Hub!Range(waiting')
      BY <2>1, <2>2, <2>4, <3>4 DEF WantedAreSubscribed
    <3> QED BY <3>2, <3>3, <3>5 DEF WantedAreSubscribed
  <2>5. CASE link = "ready"
    <3>1. link' = "ready" BY <1>2, <2>5
    <3>2. ASSUME NEW d \in Orgs, Wanted(d)' PROVE WillHear(d)'
      <4>1. CASE c \in known
        <5>1. wire' = wire /\ redis' = redis BY <1>2, <4>1
        <5>2. Wanted(d) BY <1>2, <2>2, <2>3, <3>2, <4>1 DEF Wanted
        <5>3. WillHear(d) BY <2>1, <2>5, <5>2 DEF WantedAreSubscribed
        <5> QED BY <5>1, <5>3 DEF WillHear, KeptFrom
      <4>2. CASE c \notin known
        <5>1. wire' = Append(wire, Hub!Sub(c)) /\ redis' = redis BY <1>2, <2>5, <4>2
        <5>2. CASE d = c BY <1>1, <5>1, <5>2, SubscribeHeard
        <5>3. CASE d # c
          <6>1. WillHear(d) BY <2>1, <2>2, <2>5, <3>2, <5>3 DEF WantedAreSubscribed
          <6> QED BY <1>1, <1>3, <5>1, <6>1, StillHeard, SubAndUnsub
        <5> QED BY <5>2, <5>3
      <4> QED BY <4>1, <4>2
    <3> QED BY <3>1, <3>2 DEF WantedAreSubscribed
  <2>6. CASE link = "lost" BY <1>2, <2>6 DEF WantedAreSubscribed
  <2> QED BY <1>1, <2>4, <2>5, <2>6
<1> QED BY <1>5, <1>6, <1>10, <1>11 DEF HubInv
\* The teardown of a stream.
LEMMA UnsubscribeKeeps ==
  ASSUME HubTypes, HubInv, NEW s \in served, served' = served \ {s},
         Hub!Unsubscribe(channel[s], s), UNCHANGED <<channel, ends>>
  PROVE  HubInv' /\ Hub!HubTypeOK'
<1> DEFINE c == channel[s]
           last == listeners[c] = {s}
<1>1. /\ c \in Orgs /\ wire \in Seq(Hub!Command) /\ waiting \in Seq(Orgs) /\ s \in Streams
      /\ listeners \in [Orgs -> SUBSET Streams] /\ known \subseteq Orgs /\ hasty \subseteq Orgs
  BY DEF HubTypes, Hub!HubTypeOK, Streams
<1>2. /\ listeners' = [listeners EXCEPT ![c] = @ \ {s}]
      /\ UNCHANGED <<link, waiting, redis>>
      /\ known' = IF last THEN known \ {c} ELSE known
      /\ \/ wire' = wire
         \/ last /\ link # "none" /\ wire' = Append(wire, Hub!Unsub(c))
      /\ hasty' = IF last /\ c \in Hub!Range(waiting) \cup Hub!Asked(wire)
                    THEN hasty \cup {c} ELSE hasty
  BY DEF Hub!Unsubscribe
<1> HIDE DEF c, last
<1>3. Hub!Unsub(c) \in Hub!Command BY <1>1, SubAndUnsub
<1>4. wire' \in Seq(Hub!Command)
  <2>1. Append(wire, Hub!Unsub(c)) \in Seq(Hub!Command) BY <1>1, <1>3
  <2> QED BY <1>1, <1>2, <2>1
<1>5. Hub!HubTypeOK'
  <2>1. listeners' \in [Orgs -> SUBSET Streams] BY <1>1, <1>2
  <2>2. known' \subseteq Orgs /\ hasty' \subseteq Orgs BY <1>1, <1>2
  <2> QED BY <1>1, <1>2, <1>4, <2>1, <2>2 DEF HubTypes, Hub!HubTypeOK, Streams
<1>6. listeners[c] = Connections(c) /\ s \in listeners[c]
  <2>1. s \in Connections(c) BY DEF Connections, c
  <2> QED BY <1>1, <2>1 DEF HubInv, CallbacksAreStreams
<1>7. /\ listeners'[c] = listeners[c] \ {s}
      /\ \A d \in Orgs : d # c => listeners'[d] = listeners[d]
      /\ listeners'[c] = {} <=> last
  <2>1. listeners'[c] = listeners[c] \ {s} BY <1>1, <1>2
  <2>2. \A d \in Orgs : d # c => listeners'[d] = listeners[d] BY <1>1, <1>2
  <2>3. listeners'[c] = {} <=> last BY <1>6, <2>1 DEF last
  <2> QED BY <2>1, <2>2, <2>3
<1>8. CallbacksAreStreams'
  <2>1. IsFiniteSet(served') BY FS_RemoveElement DEF HubInv, CallbacksAreStreams
  <2>2. ASSUME NEW o \in Orgs PROVE listeners'[o] = Connections(o)'
    <3>1. listeners[o] = {x \in served : channel[x] = o}
      BY DEF HubInv, CallbacksAreStreams, Connections
    <3>2. Connections(o)' = {x \in served' : channel[x] = o} BY DEF Connections
    <3>3. CASE o = c BY <1>7, <3>1, <3>2, <3>3
    <3>4. CASE o # c
      <4>1. \A x \in served : channel[x] = o => x # s BY <3>4 DEF c
      <4> QED BY <1>7, <3>1, <3>2, <3>4, <4>1
    <3> QED BY <3>3, <3>4
  <2> QED BY <2>1, <2>2 DEF CallbacksAreStreams
<1>9. ASSUME NEW d \in Hub!Asked(wire') PROVE d \in Hub!Asked(wire)
  <2>1. CASE wire' = wire BY <1>9, <2>1
  <2>2. CASE wire' = Append(wire, Hub!Unsub(c))
    <3>1. d \in Hub!Asked(wire) \/ Hub!Unsub(c) = Hub!Sub(d)
      BY <1>1, <1>3, <1>9, <2>2, AskedAdded
    <3> QED BY <3>1, SubAndUnsub
  <2> QED BY <1>2, <2>1, <2>2
<1>10. SubscribedAreWanted'
  <2> SUFFICES ASSUME NEW d \in known' \cup Hub!Asked(wire') \cup Hub!Range(waiting')
               PROVE  listeners'[d] # {} \/ d \in hasty'
    BY DEF SubscribedAreWanted
  <2>1. d \in known' \cup Hub!Asked(wire) \cup Hub!Range(waiting) BY <1>2, <1>9
  <2>2. d \in known \cup Hub!Asked(wire) \cup Hub!Range(waiting) BY <1>2, <2>1
  <2>3. d \in Orgs
    BY <1>1, <2>2, ChannelsOfSeq, AskedAreChannels
  <2>4. listeners[d] # {} \/ d \in hasty BY <2>2 DEF HubInv, SubscribedAreWanted
  <2>5. CASE d = c /\ last
    <3>1. c \in Hub!Range(waiting) \cup Hub!Asked(wire) BY <1>2, <2>1, <2>5
    <3> QED BY <1>2, <2>5, <3>1
  <2>6. CASE d # c \/ ~last BY <1>2, <1>7, <2>3, <2>4, <2>6
  <2> QED BY <2>5, <2>6
<1>11. ASSUME ends = 0 PROVE WantedAreSubscribed'
  <2>1. WantedAreSubscribed BY <1>11 DEF HubInv
  <2>2. \A d \in Orgs : Wanted(d)' => Wanted(d) /\ (d = c => ~last)
    BY <1>2, <1>6, <1>7 DEF Wanted
  <2>3. CASE link \in {"none", "connecting"}
    <3>1. /\ known' = {} /\ \A d \in Orgs : Wanted(d)' => d \in Hub!Range(waiting)'
      BY <1>2, <2>1, <2>2, <2>3 DEF WantedAreSubscribed
    <3>2. Hub!Asked(wire)' = {} BY <1>9, <2>1, <2>3 DEF WantedAreSubscribed
    <3>3. link # "none" BY <1>1, <1>6, <2>1 DEF WantedAreSubscribed
    <3> QED BY <1>2, <2>3, <3>1, <3>2, <3>3 DEF WantedAreSubscribed
  <2>4. CASE link = "ready"
    <3>1. ASSUME NEW d \in Orgs, Wanted(d)' PROVE WillHear(d)'
      <4>1. WillHear(d) BY <2>1, <2>2, <2>4, <3>1 DEF WantedAreSubscribed
      <4>2. CASE wire' = wire BY <1>2, <4>1, <4>2 DEF WillHear, KeptFrom
      <4>3. CASE last /\ wire' = Append(wire, Hub!Unsub(c))
        <5>1. Hub!Unsub(c) # Hub!Unsub(d) BY <2>2, <3>1, <4>3, SubAndUnsub
        <5> QED BY <1>1, <1>2, <1>3, <4>1, <4>3, <5>1, StillHeard
      <4> QED BY <1>2, <4>2, <4>3
    <3> QED BY <1>2, <2>4, <3>1 DEF WantedAreSubscribed
  <2>5. CASE link = "lost" BY <1>2, <2>5 DEF WantedAreSubscribed
  <2>6. link \in {"none", "connecting", "ready", "lost"} BY DEF HubTypes, Hub!HubTypeOK
  <2> QED BY <2>3, <2>4, <2>5, <2>6
<1> QED BY <1>5, <1>8, <1>10, <1>11 DEF HubInv

\* Steps of the connection leave the callbacks alone.
LEMMA CallbacksStay ==
  ASSUME HubInv, UNCHANGED <<listeners, served, channel>>
  PROVE  CallbacksAreStreams'
<1>1. \A o : Connections(o)' = Connections(o) BY DEF Connections
<1> QED BY <1>1 DEF HubInv, CallbacksAreStreams

\* The first connection is there, and the calls that wait go on.
LEMMA ReadyKeeps ==
  ASSUME HubTypes, HubInv, Hub!Ready, UNCHANGED <<served, channel, ends>>
  PROVE  HubInv' /\ Hub!HubTypeOK'
<1>1. /\ link = "connecting" /\ link' = "ready" /\ waiting' = <<>>
      /\ wire' = wire \o [i \in DOMAIN waiting |-> Hub!Sub(waiting[i])]
      /\ UNCHANGED <<listeners, known, redis, hasty>>
  BY DEF Hub!Ready
<1>2. wire \in Seq(Hub!Command) /\ waiting \in Seq(Orgs) BY DEF HubTypes, Hub!HubTypeOK
<1>3. /\ wire' \in Seq(Hub!Command)
      /\ \A c \in Hub!Asked(wire') : c \in Hub!Asked(wire) \/ c \in Hub!Range(waiting)
      /\ \A c \in Hub!Range(waiting) : WillHear(c)'
  BY <1>1, <1>2, SubsAdded
<1>4. waiting' \in Seq(Orgs) /\ Hub!Range(waiting') = {} BY <1>1, EmptyQueues
<1>5. Hub!HubTypeOK' BY <1>1, <1>3, <1>4 DEF HubTypes, Hub!HubTypeOK
<1>6. CallbacksAreStreams' BY <1>1, CallbacksStay
<1>7. SubscribedAreWanted' BY <1>1, <1>3, <1>4 DEF HubInv, SubscribedAreWanted
<1>8. ends = 0 => WantedAreSubscribed'
  BY <1>1, <1>3 DEF HubInv, WantedAreSubscribed, Wanted
<1> QED BY <1>5, <1>6, <1>7, <1>8 DEF HubInv

\* Redis answers the oldest command.
LEMMA AnswerKeeps ==
  ASSUME HubTypes, HubInv, Hub!Answer, UNCHANGED <<served, channel, ends>>
  PROVE  HubInv' /\ Hub!HubTypeOK'
<1> DEFINE x == Head(wire)
           c == x.channel
<1>1. /\ link = "ready" /\ wire # <<>> /\ wire' = Tail(wire)
      /\ UNCHANGED <<link, listeners, waiting, hasty>>
      /\ \/ x.op = "subscribe" /\ redis' = redis \cup {c} /\ known' = known \cup {c}
         \/ x.op # "subscribe" /\ redis' = redis \ {c} /\ known' = known
  BY DEF Hub!Answer
<1>2. wire \in Seq(Hub!Command) BY DEF HubTypes, Hub!HubTypeOK
<1>3. /\ x = wire[1] /\ 1 \in 1..Len(wire) /\ Len(wire) \in Nat /\ x \in Hub!Command
      /\ wire' \in Seq(Hub!Command) /\ Len(wire') = Len(wire) - 1
      /\ \A i \in 1..Len(wire') : i + 1 \in 1..Len(wire) /\ wire'[i] = wire[i + 1]
  <2>1. wire # <<>> /\ wire' = Tail(wire) BY <1>1
  <2> QED BY <1>2, <2>1
<1> HIDE DEF x, c
<1>4. c \in Orgs /\ (x.op = "subscribe" => x = Hub!Sub(c)) /\ (x.op # "subscribe" => x = Hub!Unsub(c))
  BY <1>3, CommandIsSubOrUnsub DEF c
<1>5. Hub!HubTypeOK' BY <1>1, <1>3, <1>4 DEF HubTypes, Hub!HubTypeOK
<1>6. CallbacksAreStreams' BY <1>1, CallbacksStay
<1>7. ASSUME NEW d \in Hub!Asked(wire') PROVE d \in Hub!Asked(wire)
  <2>1. PICK i \in 1..Len(wire') : wire'[i] = Hub!Sub(d) BY <1>3, <1>7, AskedHasCommand
  <2> QED BY <1>2, <1>3, <2>1, AskedHasCommand
<1>8. x.op = "subscribe" => c \in Hub!Asked(wire) BY <1>2, <1>3, <1>4, AskedHasCommand
<1>9. SubscribedAreWanted' BY <1>1, <1>7, <1>8 DEF HubInv, SubscribedAreWanted
<1>10. ASSUME NEW d \in Orgs, WillHear(d) PROVE WillHear(d)'
  <2>1. ASSUME NEW i \in 1..Len(wire), KeptFrom(d, i), NEW k \in Nat \ {0}, k + 1 >= i
        PROVE  KeptFrom(d, k)'
    <3> SUFFICES ASSUME NEW j \in k..Len(wire') PROVE wire'[j] # Hub!Unsub(d) BY DEF KeptFrom
    <3>1. j \in 1..Len(wire') /\ j + 1 \in i..Len(wire) BY <1>3, <2>1
    <3> QED BY <1>3, <2>1, <3>1 DEF KeptFrom
  <2>2. CASE d \in redis /\ KeptFrom(d, 1)
    <3>1. KeptFrom(d, 1)' BY <1>3, <2>1, <2>2
    <3>2. x # Hub!Unsub(d) BY <1>3, <2>2 DEF KeptFrom
    <3>3. d \in redis' BY <1>1, <1>4, <2>2, <3>2
    <3> QED BY <3>1, <3>3 DEF WillHear
  <2>3. CASE \E i \in 1..Len(wire) : wire[i] = Hub!Sub(d) /\ KeptFrom(d, i)
    <3>1. PICK i \in 1..Len(wire) : wire[i] = Hub!Sub(d) /\ KeptFrom(d, i) BY <2>3
    <3>2. CASE i = 1
      <4>1. x = Hub!Sub(d) BY <1>3, <3>1, <3>2
      <4>2. d = c /\ x.op = "subscribe" BY <1>4, <4>1, SubAndUnsub
      <4>3. d \in redis' BY <1>1, <4>2
      <4>4. KeptFrom(d, 1)' BY <1>3, <2>1, <3>1, <3>2
      <4> QED BY <4>3, <4>4 DEF WillHear
    <3>3. CASE i # 1
      <4>1. i - 1 \in 1..Len(wire') /\ (i - 1) + 1 = i BY <1>3, <3>1, <3>3
      <4>2. wire'[i - 1] = Hub!Sub(d) BY <1>3, <3>1, <4>1
      <4>3. KeptFrom(d, i - 1)' BY <2>1, <3>1, <4>1
      <4> QED BY <4>1, <4>2, <4>3 DEF WillHear
    <3> QED BY <3>2, <3>3
  <2> QED BY <1>10, <2>2, <2>3 DEF WillHear
<1>11. ends = 0 => WantedAreSubscribed'
  BY <1>1, <1>10 DEF HubInv, WantedAreSubscribed, Wanted
<1> QED BY <1>5, <1>6, <1>9, <1>11 DEF HubInv

\* The connection is lost, or its commands are rejected.
LEMMA LossKeeps ==
  ASSUME HubTypes, HubInv, Hub!Lose \/ Hub!GiveUpCommands, UNCHANGED <<served, channel, ends>>
  PROVE  HubInv' /\ Hub!HubTypeOK'
<1>1. wire \in Seq(Hub!Command) BY DEF HubTypes, Hub!HubTypeOK
<1>2. Hub!Asked(wire) \subseteq Orgs BY <1>1, AskedAreChannels
<1>3. <<>> \in Seq(Hub!Command) /\ Hub!Asked(<<>>) = {} BY EmptyQueues
<1>4. CallbacksAreStreams' BY CallbacksStay DEF Hub!Lose, Hub!GiveUpCommands
<1>5. CASE Hub!Lose
  <2>1. link' = "lost" /\ UNCHANGED <<listeners, known, waiting, wire, redis, hasty>>
    BY <1>5 DEF Hub!Lose
  <2>2. Hub!HubTypeOK' BY <2>1 DEF HubTypes, Hub!HubTypeOK
  <2>3. SubscribedAreWanted' BY <2>1 DEF HubInv, SubscribedAreWanted
  <2>4. WantedAreSubscribed' BY <2>1 DEF WantedAreSubscribed
  <2> QED BY <1>4, <2>2, <2>3, <2>4 DEF HubInv
<1>6. CASE Hub!GiveUpCommands
  <2>1. /\ link \in {"connecting", "lost"} /\ known' = known \cup Hub!Asked(wire)
        /\ wire' = <<>> /\ UNCHANGED <<link, listeners, waiting, redis, hasty>>
    BY <1>6 DEF Hub!GiveUpCommands
  <2>2. Hub!HubTypeOK' BY <1>2, <1>3, <2>1 DEF HubTypes, Hub!HubTypeOK
  <2>3. SubscribedAreWanted' BY <1>3, <2>1 DEF HubInv, SubscribedAreWanted
  <2>4. ends = 0 => WantedAreSubscribed'
    BY <1>3, <2>1 DEF HubInv, WantedAreSubscribed, Wanted
  <2> QED BY <1>4, <2>2, <2>3, <2>4 DEF HubInv
<1> QED BY <1>5, <1>6
\* SetToSeq puts all of a finite set of channels into the sequence.
LEMMA AllInSequence ==
  ASSUME NEW S \in SUBSET Orgs
  PROVE  /\ Hub!SetToSeq(S) \in Seq(Orgs)
         /\ Hub!Range(Hub!SetToSeq(S)) = S
<1> DEFINE n == Cardinality(S)
           q == Hub!SetToSeq(S)
<1>1. IsFiniteSet(S) BY FS_Subset
<1>2. n \in Nat /\ \E f \in [1..n -> S] : Hub!IsInjective(f)
  BY <1>1, FS_CardinalityType
     DEF ExistsBijection, Bijection, Injection, IsInjective, Hub!IsInjective
<1>3. Hub!Cardinality(S) = n BY DEF Hub!Cardinality, Cardinality
<1>4. q \in [1..n -> S] /\ Hub!IsInjective(q) BY <1>2, <1>3 DEF Hub!SetToSeq
<1>5. IsFiniteSet(1..n) /\ Cardinality(1..n) = n
  BY <1>2, FS_Interval
<1> HIDE DEF q
<1>6. q \in Injection(1..n, S) BY <1>4 DEF Injection, IsInjective, Hub!IsInjective
<1>7. q \in Surjection(1..n, S) BY <1>1, <1>5, <1>6, FS_Injection DEF n
<1> HIDE DEF n
<1>8. q \in Seq(Orgs)
  <2>1. q = [i \in 1..n |-> q[i]] BY <1>4
  <2>2. \A i \in 1..n : q[i] \in Orgs BY <1>4
  <2>3. [i \in 1..n |-> q[i]] \in Seq(Orgs) BY <1>2, <2>2
  <2> QED BY <2>1, <2>3
<1>9. Hub!Range(q) = S BY <1>4, <1>7 DEF Hub!Range, Surjection
<1> QED BY <1>8, <1>9 DEF q

\* A later `ready': every channel with callbacks is subscribed to again.
LEMMA ComeBackKeeps ==
  ASSUME HubTypes, HubInv, Hub!ComeBack, UNCHANGED <<served, channel, ends>>
  PROVE  HubInv' /\ Hub!HubTypeOK'
<1> DEFINE S == {c \in Orgs : listeners[c] # {}}
           q == Hub!SetToSeq(S)
<1>1. /\ link' = "ready" /\ UNCHANGED <<listeners, known, waiting, redis, hasty>>
      /\ wire' = wire \o [i \in DOMAIN q |-> Hub!Sub(q[i])]
  BY DEF Hub!ComeBack
<1>2. wire \in Seq(Hub!Command) BY DEF HubTypes, Hub!HubTypeOK
<1>3. q \in Seq(Orgs) /\ Hub!Range(q) = S BY AllInSequence
<1> HIDE DEF q
<1>4. /\ wire' \in Seq(Hub!Command)
      /\ \A c \in Hub!Asked(wire') : c \in Hub!Asked(wire) \/ c \in S
      /\ \A c \in S : WillHear(c)'
  BY <1>1, <1>2, <1>3, SubsAdded
<1>5. Hub!HubTypeOK' BY <1>1, <1>4 DEF HubTypes, Hub!HubTypeOK
<1>6. CallbacksAreStreams' BY <1>1, CallbacksStay
<1>7. SubscribedAreWanted' BY <1>1, <1>4 DEF HubInv, SubscribedAreWanted
<1>8. WantedAreSubscribed' BY <1>1, <1>4 DEF WantedAreSubscribed, Wanted
<1> QED BY <1>5, <1>6, <1>7, <1>8 DEF HubInv

\* ioredis gives the connection up: nothing is said of the channels from then on.
LEMMA EndKeeps ==
  ASSUME HubTypes, HubInv, Hub!End, ends' = ends + 1, UNCHANGED <<served, channel>>
  PROVE  HubInv' /\ Hub!HubTypeOK'
<1>1. /\ link' = "none" /\ known' = Hub!Asked(wire) /\ waiting' = <<>> /\ wire' = <<>>
      /\ redis' = {} /\ UNCHANGED <<listeners, hasty>>
  BY DEF Hub!End
<1>2. Hub!Asked(wire) \subseteq Orgs BY AskedAreChannels DEF HubTypes, Hub!HubTypeOK
<1>3. Hub!HubTypeOK' BY <1>1, <1>2, EmptyQueues DEF HubTypes, Hub!HubTypeOK
<1>4. CallbacksAreStreams' BY <1>1, CallbacksStay
<1>5. SubscribedAreWanted' BY <1>1, EmptyQueues DEF HubInv, SubscribedAreWanted
<1>6. ends' # 0 BY DEF HubTypes
<1> QED BY <1>3, <1>4, <1>5, <1>6 DEF HubInv

\* A process that has just started.
LEMMA StartIsRight ==
  ASSUME link = "none", listeners = [c \in Orgs |-> {}], known = {}, waiting = <<>>,
         wire = <<>>, redis = {}, hasty = {}, served = {}
  PROVE  HubInv /\ Hub!HubTypeOK
<1>1. Hub!HubTypeOK BY EmptyQueues DEF Hub!HubTypeOK
<1>2. CallbacksAreStreams BY FS_EmptySet DEF CallbacksAreStreams, Connections
<1>3. SubscribedAreWanted BY EmptyQueues DEF SubscribedAreWanted
<1>4. WantedAreSubscribed BY EmptyQueues DEF WantedAreSubscribed, Wanted
<1> QED BY <1>1, <1>2, <1>3, <1>4 DEF HubInv

LEMMA RestartKeeps ==
  ASSUME Hub!Restart, served' = {}
  PROVE  HubInv' /\ Hub!HubTypeOK'
<1>1. /\ link' = "none" /\ listeners' = [c \in Orgs |-> {}] /\ known' = {} /\ waiting' = <<>>
      /\ wire' = <<>> /\ redis' = {} /\ hasty' = {}
  BY DEF Hub!Restart
<1>2. Hub!HubTypeOK' BY <1>1, EmptyQueues DEF Hub!HubTypeOK
<1>3. CallbacksAreStreams' BY <1>1, FS_EmptySet DEF CallbacksAreStreams, Connections
<1>4. SubscribedAreWanted' BY <1>1, EmptyQueues DEF SubscribedAreWanted
<1>5. WantedAreSubscribed' BY <1>1, EmptyQueues DEF WantedAreSubscribed, Wanted
<1> QED BY <1>2, <1>3, <1>4, <1>5 DEF HubInv

-----------------------------------------------------------------------------
(* The tabs.                                                                *)

\* A tab whose session lives has a stream, a request for one, or a timer.
Lives(t) == \/ \E i \in Slots : Tab!Busy(<<t, i>>)
            \/ timer[t] = "armed" \/ spare[t] > 0

\* connect() for stream s, called with its tab's timers as they are.
LEMMA ConnectKeeps ==
  ASSUME Tab!TabTypeOK, NEW s \in Streams, Tab!Connect(s)
  PROVE  /\ client' \in [Streams -> {"closed", "requesting", "open", "left"}]
         /\ channel' \in [Streams -> Orgs] /\ latest' \in [Tabs -> Slots]
         /\ client'[s] = "requesting"
         /\ \A x \in Streams : x # s => client'[x] = client[x] /\ channel'[x] = channel[x]
BY DEF Tab!TabTypeOK, Tab!Connect, Tab!Streams, Streams

\* The types of the provider's variables.
LEMMA TabTypes ==
  ASSUME Tab!TabTypeOK,
         \/ \E s \in Streams : \/ Tab!Opened(s) \/ Tab!Read(s) \/ Tab!Ends(s)
                               \/ Tab!TimerFires(s) \/ Tab!SpareFires(s) \/ Tab!Visible(s)
         \/ \E t \in Tabs : \/ Tab!Logout(t) \/ Tab!Refetch(t)
                            \/ \E o \in Orgs : Tab!SwitchOrganization(t, o)
  PROVE  Tab!TabTypeOK'
<1> USE DEF Streams, Tab!Streams, Tab!TabTypeOK
<1>1. ASSUME NEW s \in Streams, Tab!Opened(s) \/ Tab!Read(s) PROVE Tab!TabTypeOK'
  <2>1. s[1] \in Tabs OBVIOUS
  <2>2. client' \in [Streams -> {"closed", "requesting", "open", "left"}]
    BY <1>1 DEF Tab!Opened, Tab!Read
  <2>3. met' \in [Tabs -> BOOLEAN] BY <1>1 DEF Tab!Opened, Tab!Read
  <2>4. refetching' \subseteq Tabs BY <1>1, <2>1 DEF Tab!Opened, Tab!Read
  <2>5. UNCHANGED <<active, org, channel, latest, timer, spare, stale>>
    BY <1>1 DEF Tab!Opened, Tab!Read
  <2> QED BY <2>2, <2>3, <2>4, <2>5
<1>2. ASSUME NEW s \in Streams, Tab!Ends(s) PROVE Tab!TabTypeOK'
  <2>1. s[1] \in Tabs OBVIOUS
  <2>2. client' \in [Streams -> {"closed", "requesting", "open", "left"}] BY <1>2 DEF Tab!Ends
  <2>3. timer' \in [Tabs -> {"null", "armed", "fired"}] BY <1>2, <2>1 DEF Tab!Ends
  <2>4. spare' \in [Tabs -> Nat]
    <3>1. spare[s[1]] + 1 \in Nat BY <2>1
    <3>2. spare' = spare \/ spare' = [spare EXCEPT ![s[1]] = @ + 1] BY <1>2 DEF Tab!Ends
    <3> QED BY <2>1, <3>1, <3>2
  <2>5. UNCHANGED <<active, org, channel, latest, met, refetching, stale>> BY <1>2 DEF Tab!Ends
  <2> QED BY <2>2, <2>3, <2>4, <2>5
<1>3. ASSUME NEW s \in Streams, Tab!TimerFires(s) \/ Tab!Visible(s) PROVE Tab!TabTypeOK'
  <2>1. s[1] \in Tabs OBVIOUS
  <2>2. Tab!Connect(s) /\ UNCHANGED <<active, org, spare, met, refetching, stale>>
    BY <1>3 DEF Tab!TimerFires, Tab!Visible
  <2>3. timer' \in [Tabs -> {"null", "armed", "fired"}]
    BY <1>3, <2>1 DEF Tab!TimerFires, Tab!Visible
  <2> QED BY <2>2, <2>3, ConnectKeeps
<1>4. ASSUME NEW s \in Streams, Tab!SpareFires(s) PROVE Tab!TabTypeOK'
  <2>1. s[1] \in Tabs OBVIOUS
  <2>2. UNCHANGED <<active, org, timer, met, refetching, stale>> BY <1>4 DEF Tab!SpareFires
  <2>3. spare' \in [Tabs -> Nat]
    <3>1. spare[s[1]] > 0 /\ spare' = [spare EXCEPT ![s[1]] = @ - 1]
      BY <1>4 DEF Tab!SpareFires
    <3>2. spare[s[1]] - 1 \in Nat BY <2>1, <3>1
    <3> QED BY <2>1, <3>1, <3>2
  <2>4. Tab!Connect(s) \/ UNCHANGED <<client, channel, latest>> BY <1>4 DEF Tab!SpareFires
  <2> QED BY <2>2, <2>3, <2>4, ConnectKeeps
<1>5. ASSUME NEW t \in Tabs, Tab!Logout(t) PROVE Tab!TabTypeOK'
  <2>1. active' \in [Tabs -> BOOLEAN] /\ timer' \in [Tabs -> {"null", "armed", "fired"}]
    BY <1>5 DEF Tab!Logout
  <2>2. client' \in [Streams -> {"closed", "requesting", "open", "left"}]
    <3>1. <<t, latest[t]>> \in Streams OBVIOUS
    <3> QED BY <1>5, <3>1 DEF Tab!Logout
  <2>3. /\ refetching' \subseteq Tabs /\ stale' \subseteq Tabs
        /\ UNCHANGED <<org, channel, latest, spare, met>>
    BY <1>5 DEF Tab!Logout
  <2> QED BY <2>1, <2>2, <2>3
<1>6. ASSUME NEW t \in Tabs, Tab!Refetch(t) PROVE Tab!TabTypeOK'
  BY <1>6 DEF Tab!Refetch
<1>7. ASSUME NEW t \in Tabs, NEW o \in Orgs, Tab!SwitchOrganization(t, o)
      PROVE  Tab!TabTypeOK'
  BY <1>7 DEF Tab!SwitchOrganization
<1> QED BY <1>1, <1>2, <1>3, <1>4, <1>5, <1>6, <1>7
\* What does not take the last of a tab's streams and timers away keeps it alive.
LEMMA LivesOn ==
  ASSUME NEW t \in Tabs, Lives(t), timer'[t] = timer[t], spare'[t] >= spare[t], spare[t] \in Nat,
         spare'[t] \in Nat, \A i \in Slots : Tab!Busy(<<t, i>>) => Tab!Busy(<<t, i>>)'
  PROVE  Lives(t)'
BY DEF Lives

LEMMA ProviderStaysAlive ==
  ASSUME Tab!TabTypeOK, ProviderLives,
         \/ \E s \in Streams : \/ Tab!Opened(s) \/ Tab!Read(s) \/ Tab!Ends(s)
                               \/ Tab!TimerFires(s) \/ Tab!SpareFires(s) \/ Tab!Visible(s)
         \/ \E t \in Tabs : \/ Tab!Logout(t) \/ Tab!Refetch(t)
                            \/ \E o \in Orgs : Tab!SwitchOrganization(t, o)
  PROVE  ProviderLives'
<1> SUFFICES ASSUME NEW t \in Tabs, active'[t] PROVE Lives(t)'
  BY DEF ProviderLives, Lives
<1>1. Tab!TabTypeOK' BY TabTypes
<1>2. /\ client \in [Streams -> {"closed", "requesting", "open", "left"}]
      /\ timer \in [Tabs -> {"null", "armed", "fired"}] /\ active \in [Tabs -> BOOLEAN]
      /\ spare \in [Tabs -> Nat] /\ spare' \in [Tabs -> Nat]
      /\ \A i \in Slots : <<t, i>> \in Streams
  BY <1>1 DEF Tab!TabTypeOK, Tab!Streams, Streams
<1>3. active[t] => Lives(t) BY DEF ProviderLives, Lives
<1>4. \A s \in Streams : s[1] \in Tabs /\ s[2] \in Slots /\ s = <<s[1], s[2]>> BY DEF Streams
<1>5. ASSUME NEW s \in Streams, s[1] = t, client'[s] \in {"requesting", "open"}
      PROVE  Lives(t)'
  BY <1>4, <1>5 DEF Lives, Tab!Busy
<1>6. ASSUME NEW s \in Streams, Tab!Opened(s) \/ Tab!Read(s) PROVE Lives(t)'
  <2>1. /\ client' = [client EXCEPT ![s] = IF active[s[1]] THEN "open" ELSE "left"]
        /\ UNCHANGED <<active, timer, spare>>
    BY <1>6 DEF Tab!Opened, Tab!Read
  <2>2. CASE s[1] = t BY <1>2, <1>5, <2>1, <2>2
  <2>3. CASE s[1] # t
    <3>1. \A i \in Slots : <<t, i>> # s BY <2>3
    <3>2. \A i \in Slots : client'[<<t, i>>] = client[<<t, i>>] BY <1>2, <2>1, <3>1
    <3> QED BY <1>2, <1>3, <2>1, <3>2, LivesOn DEF Tab!Busy
  <2> QED BY <2>2, <2>3
<1>7. ASSUME NEW s \in Streams, Tab!Ends(s) PROVE Lives(t)'
  <2>1. /\ client' = [client EXCEPT ![s] = "closed"] /\ active' = active
        /\ timer' = IF active[s[1]] THEN [timer EXCEPT ![s[1]] = "armed"] ELSE timer
        /\ \/ spare' = spare
           \/ s[1] \in Tabs /\ spare' = [spare EXCEPT ![s[1]] = @ + 1]
    BY <1>4, <1>7 DEF Tab!Ends
  <2>2. CASE s[1] = t
    <3>1. timer'[t] = "armed" BY <1>2, <2>1, <2>2
    <3> QED BY <3>1 DEF Lives
  <2>3. CASE s[1] # t
    <3>1. \A i \in Slots : <<t, i>> # s BY <2>3
    <3>2. \A i \in Slots : client'[<<t, i>>] = client[<<t, i>>] BY <1>2, <2>1, <3>1
    <3>3. timer'[t] = timer[t] /\ spare'[t] = spare[t] BY <1>2, <2>1, <2>3
    <3> QED BY <1>2, <1>3, <2>1, <3>2, <3>3, LivesOn DEF Tab!Busy
  <2> QED BY <2>2, <2>3
<1>8. ASSUME NEW s \in Streams, Tab!TimerFires(s) \/ Tab!Visible(s) PROVE Lives(t)'
  <2>1. /\ Tab!Connect(s) /\ UNCHANGED <<active, spare>>
        /\ \E r : timer' = [timer EXCEPT ![s[1]] = r]
    BY <1>8 DEF Tab!TimerFires, Tab!Visible
  <2>2. /\ client'[s] = "requesting"
        /\ \A x \in Streams : x # s => client'[x] = client[x]
    BY <2>1, ConnectKeeps
  <2>3. CASE s[1] = t BY <1>5, <2>2, <2>3
  <2>4. CASE s[1] # t
    <3>1. \A i \in Slots : <<t, i>> # s BY <2>4
    <3>2. \A i \in Slots : client'[<<t, i>>] = client[<<t, i>>] BY <1>2, <2>2, <3>1
    <3>3. timer'[t] = timer[t] /\ spare'[t] = spare[t] BY <1>2, <2>1, <2>4
    <3> QED BY <1>2, <1>3, <2>1, <3>2, <3>3, LivesOn DEF Tab!Busy
  <2> QED BY <2>3, <2>4
<1>9. ASSUME NEW s \in Streams, Tab!SpareFires(s) PROVE Lives(t)'
  <2>1. /\ spare[s[1]] > 0 /\ spare' = [spare EXCEPT ![s[1]] = @ - 1]
        /\ IF active[s[1]] THEN Tab!Connect(s) ELSE UNCHANGED <<client, channel, latest>>
        /\ UNCHANGED <<active, timer>>
    BY <1>9 DEF Tab!SpareFires
  <2>2. CASE s[1] = t BY <1>5, <2>1, <2>2, ConnectKeeps
  <2>3. CASE s[1] # t
    <3>1. \A i \in Slots : <<t, i>> # s BY <2>3
    <3>2. \A i \in Slots : client'[<<t, i>>] = client[<<t, i>>]
      BY <1>2, <2>1, <3>1, ConnectKeeps
    <3>3. timer'[t] = timer[t] /\ spare'[t] = spare[t] BY <1>2, <2>1, <2>3
    <3> QED BY <1>2, <1>3, <2>1, <3>2, <3>3, LivesOn DEF Tab!Busy
  <2> QED BY <2>2, <2>3
<1>10. ASSUME NEW u \in Tabs, Tab!Logout(u) PROVE Lives(t)'
  <2>1. /\ active' = [active EXCEPT ![u] = FALSE] /\ spare' = spare
        /\ timer' = [timer EXCEPT ![u] = "null"]
        /\ \E r : client' = [client EXCEPT ![<<u, latest[u]>>] = r]
    BY <1>10 DEF Tab!Logout
  <2>2. u # t BY <1>2, <2>1
  <2>3. \A i \in Slots : client'[<<t, i>>] = client[<<t, i>>] BY <1>2, <2>1, <2>2
  <2>4. timer'[t] = timer[t] /\ spare'[t] = spare[t] /\ active[t] BY <1>2, <2>1, <2>2
  <2> QED BY <1>2, <1>3, <2>3, <2>4, LivesOn DEF Tab!Busy
<1>11. ASSUME UNCHANGED <<active, client, timer, spare>> PROVE Lives(t)'
  BY <1>3, <1>11 DEF Lives, Tab!Busy
<1>12. ASSUME NEW u \in Tabs, Tab!Refetch(u) \/ \E o \in Orgs : Tab!SwitchOrganization(u, o)
       PROVE  UNCHANGED <<active, client, timer, spare>>
  BY <1>12 DEF Tab!Refetch, Tab!SwitchOrganization
<1> QED BY <1>6, <1>7, <1>8, <1>9, <1>10, <1>11, <1>12

-----------------------------------------------------------------------------
(* The steps.                                                               *)

\* The parts of the type invariant.
Seats  == /\ served \subseteq Streams
          /\ \A o \in Orgs : Cardinality(Connections(o)) <= MaxConnections
Others == /\ gone \subseteq Streams /\ mail \subseteq Streams /\ due \subseteq Orgs
          /\ breaks \in 0..MaxBreaks /\ losses \in 0..MaxLosses
          /\ ends \in 0..MaxEnds /\ restarts \in 0..MaxRestarts

LEMMA TypeParts ==
  /\ TypeOK <=> Tab!TabTypeOK /\ Hub!HubTypeOK /\ Seats /\ Others
  /\ TypeOK => HubTypes
<1>1. TypeOK <=> Tab!TabTypeOK /\ Hub!HubTypeOK /\ Seats /\ Others
  BY DEF TypeOK, Seats, Others
<1>2. TypeOK => HubTypes
  BY DEF TypeOK, HubTypes, Tab!TabTypeOK, Tab!Streams, Streams
<1> QED BY <1>1, <1>2

\* A step of the tabs, with the service and the seats as they are.
LEMMA TabStep ==
  ASSUME IInv, Tab!TabTypeOK', ProviderLives', UNCHANGED <<hub, served, ends>>, Others',
         \A s \in served : channel'[s] = channel[s]
  PROVE  IInv'
<1>1. HubInv' BY HubStays DEF IInv
<1>2. Hub!HubTypeOK' BY TypeParts DEF IInv, hub, Hub!HubTypeOK
<1>3. Seats'
  <2>1. \A o \in Orgs : Connections(o)' = Connections(o) BY DEF Connections
  <2> QED BY <2>1, TypeParts DEF IInv, Seats
<1>4. TypeOK' BY <1>2, <1>3, TypeParts DEF TypeOK, Seats, Others
<1> QED BY <1>1, <1>4 DEF IInv

\* A step beside the tabs.
LEMMA TabsStay ==
  ASSUME IInv, UNCHANGED tab
  PROVE  Tab!TabTypeOK' /\ ProviderLives'
<1>1. UNCHANGED <<active, org, client, channel, latest, timer, spare, met, refetching, stale>>
  BY DEF tab
<1>2. Tab!TabTypeOK' BY <1>1, TypeParts DEF IInv, Tab!TabTypeOK
<1>3. ProviderLives' BY <1>1 DEF IInv, ProviderLives, Tab!Busy
<1> QED BY <1>2, <1>3
\* The streams, seen from the tabs.
LEMMA StreamsKeep ==
  ASSUME IInv, NEW s \in Streams,
         TooMany(s) \/ Opened(s) \/ Read(s) \/ Breaks(s) \/ Reconnect(s) \/ Visible(s)
  PROVE  IInv'
<1>1. Tab!TabTypeOK /\ ProviderLives /\ HubTypes /\ Others BY TypeParts DEF IInv
<1>2. \/ Tab!Opened(s) \/ Tab!Read(s) \/ Tab!Ends(s)
      \/ Tab!TimerFires(s) \/ Tab!SpareFires(s) \/ Tab!Visible(s)
  BY DEF TooMany, Opened, Read, Breaks, Reconnect, Visible
<1>3. Tab!TabTypeOK' /\ ProviderLives' BY <1>1, <1>2, TabTypes, ProviderStaysAlive
<1>4. UNCHANGED <<hub, served, due, losses, ends, restarts>>
  BY DEF TooMany, Opened, Read, Breaks, Reconnect, Visible, bounds
<1>5. /\ gone' \subseteq gone /\ mail' \subseteq mail
      /\ breaks' = breaks \/ (breaks < MaxBreaks /\ breaks' = breaks + 1)
  BY DEF TooMany, Opened, Read, Breaks, Reconnect, Visible, bounds
<1>6. Others' BY <1>1, <1>4, <1>5 DEF Others
<1>7. \A x \in served : channel'[x] = channel[x]
  <2>1. CASE UNCHANGED channel BY <2>1
  <2>2. CASE channel' # channel
    <3>1. Reconnect(s) \/ Visible(s)
      BY <2>2 DEF TooMany, Opened, Read, Breaks, Tab!Opened, Tab!Read, Tab!Ends
    <3>2. Free(s) /\ Tab!Connect(s)
      BY <2>2, <3>1 DEF Reconnect, Visible, Tab!TimerFires, Tab!SpareFires, Tab!Visible
    <3>3. s \notin served /\ \A x \in Streams : x # s => channel'[x] = channel[x]
      BY <1>1, <3>2, ConnectKeeps DEF Free
    <3> QED BY <1>1, <3>3 DEF HubTypes
  <2> QED BY <2>1, <2>2
<1> QED BY <1>3, <1>4, <1>6, <1>7, TabStep

\* The user.
LEMMA UserKeeps ==
  ASSUME IInv, NEW t \in Tabs, Logout(t) \/ Refetch(t) \/ \E o \in Orgs : SwitchOrganization(t, o)
  PROVE  IInv'
<1>1. Tab!TabTypeOK /\ ProviderLives /\ HubTypes /\ Others BY TypeParts DEF IInv
<1>2. Tab!Logout(t) \/ Tab!Refetch(t) \/ \E o \in Orgs : Tab!SwitchOrganization(t, o)
  BY DEF Logout, Refetch, SwitchOrganization
<1>3. Tab!TabTypeOK' /\ ProviderLives' BY <1>1, <1>2, TabTypes, ProviderStaysAlive
<1>4. /\ UNCHANGED <<hub, served, due, breaks, losses, ends, restarts>>
      /\ gone' \subseteq gone /\ mail' \subseteq mail
  BY DEF Logout, Refetch, SwitchOrganization, bounds
<1>5. Others' BY <1>1, <1>4 DEF Others
<1>6. channel' = channel BY <1>2 DEF Tab!Logout, Tab!Refetch, Tab!SwitchOrganization
<1> QED BY <1>3, <1>4, <1>5, <1>6, TabStep

\* The worker.
LEMMA WorkerKeeps ==
  ASSUME IInv, NEW o \in Orgs, Change(o) \/ Publish(o) \/ PublishFails(o)
  PROVE  IInv'
<1>1. Tab!TabTypeOK /\ ProviderLives /\ HubTypes /\ Others BY TypeParts DEF IInv
<1>2. Tab!TabTypeOK' /\ ProviderLives'
  <2>1. CASE Change(o)
    <3>1. /\ UNCHANGED <<active, org, client, channel, latest, timer, spare, met, refetching>>
          /\ stale' \subseteq stale \cup Tabs
      BY <2>1 DEF Change
    <3>2. Tab!TabTypeOK' BY <1>1, <3>1 DEF Tab!TabTypeOK
    <3>3. ProviderLives' BY <1>1, <3>1 DEF ProviderLives, Tab!Busy
    <3> QED BY <3>2, <3>3
  <2>2. CASE Publish(o) \/ PublishFails(o) BY <2>2, TabsStay DEF Publish, PublishFails
  <2> QED BY <2>1, <2>2
<1>3. UNCHANGED <<hub, served, gone, breaks, losses, ends, restarts>>
  BY DEF Change, Publish, PublishFails, hub, bounds
<1>4. mail' \subseteq Streams
  <2>1. Hub!Hear(o) \subseteq Streams BY <1>1 DEF HubTypes, Hub!HubTypeOK, Hub!Hear, Streams
  <2> QED BY <1>1, <2>1 DEF Change, Publish, PublishFails, Others
<1>5. due' \subseteq Orgs BY <1>1 DEF Change, Publish, PublishFails, Others
<1>6. Others' BY <1>1, <1>3, <1>4, <1>5 DEF Others
<1>7. channel' = channel BY DEF Change, Publish, PublishFails, tab
<1> QED BY <1>2, <1>3, <1>6, <1>7, TabStep

\* The SSE endpoint takes a stream on.
LEMMA ServeKeeps == ASSUME IInv, NEW s \in Streams, Serve(s) PROVE IInv'
<1>1. /\ s \notin served /\ served' = served \cup {s} /\ Hub!Subscribe(channel[s], s)
      /\ Cardinality(Connections(channel[s])) < MaxConnections
      /\ UNCHANGED <<tab, gone, mail, due, bounds>>
  BY DEF Serve
<1>2. HubTypes /\ HubInv /\ Seats /\ Others BY TypeParts DEF IInv
<1>3. Tab!TabTypeOK' /\ ProviderLives' BY <1>1, TabsStay
<1>4. UNCHANGED <<channel, ends>> BY <1>1 DEF tab, bounds
<1>5. HubInv' /\ Hub!HubTypeOK' BY <1>1, <1>2, <1>4, SubscribeKeeps
<1>6. Others' BY <1>1, <1>2 DEF Others, bounds
<1>7. Seats'
  <2>1. served' \subseteq Streams BY <1>1, <1>2 DEF Seats
  <2>2. ASSUME NEW o \in Orgs PROVE Cardinality(Connections(o)') <= MaxConnections
    <3>1. IsFiniteSet(Connections(o)) /\ Cardinality(Connections(o)) \in Nat
      BY <1>2, FS_Subset, FS_CardinalityType DEF HubInv, CallbacksAreStreams, Connections
    <3>2. CASE o = channel[s]
      <4>1. Connections(o)' = Connections(o) \cup {s}
        BY <1>1, <1>4, <3>2 DEF Connections
      <4>2. s \notin Connections(o) BY <1>1 DEF Connections
      <4>3. Cardinality(Connections(o)') = Cardinality(Connections(o)) + 1
        BY <3>1, <4>1, <4>2, FS_AddElement
      <4> QED BY <1>1, <3>1, <3>2, <4>3
    <3>3. CASE o # channel[s]
      <4>1. Connections(o)' = Connections(o) BY <1>1, <1>4, <3>3 DEF Connections
      <4> QED BY <1>2, <4>1 DEF Seats
    <3> QED BY <3>2, <3>3
  <2> QED BY <2>1, <2>2 DEF Seats
<1>8. TypeOK' BY <1>3, <1>5, <1>6, <1>7 DEF TypeOK, Seats, Others
<1> QED BY <1>3, <1>5, <1>8 DEF IInv

\* The streams of an organization get fewer.
LEMMA FewerSeats ==
  ASSUME IInv, served' \subseteq served, UNCHANGED channel
  PROVE  Seats'
<1>1. Seats /\ HubInv BY TypeParts DEF IInv
<1>2. ASSUME NEW o \in Orgs PROVE Cardinality(Connections(o)') <= MaxConnections
  <2>1. Connections(o)' \in SUBSET Connections(o) BY DEF Connections
  <2>2. IsFiniteSet(Connections(o))
    BY <1>1, FS_Subset DEF HubInv, CallbacksAreStreams, Connections
  <2>3. /\ Cardinality(Connections(o)') <= Cardinality(Connections(o))
        /\ Cardinality(Connections(o)') \in Nat /\ Cardinality(Connections(o)) \in Nat
    BY <2>1, <2>2, FS_Subset, FS_CardinalityType
  <2> QED BY <1>1, <2>3 DEF Seats
<1> QED BY <1>1, <1>2 DEF Seats

LEMMA TearDownKeeps == ASSUME IInv, NEW s \in Streams, TearDown(s) PROVE IInv'
<1>1. /\ s \in served /\ served' = served \ {s} /\ Hub!Unsubscribe(channel[s], s)
      /\ UNCHANGED <<tab, gone, mail, due, bounds>>
  BY DEF TearDown
<1>2. HubTypes /\ HubInv /\ Others BY TypeParts DEF IInv
<1>3. Tab!TabTypeOK' /\ ProviderLives' BY <1>1, TabsStay
<1>4. UNCHANGED <<channel, ends>> BY <1>1 DEF tab, bounds
<1>5. HubInv' /\ Hub!HubTypeOK' BY <1>1, <1>2, <1>4, UnsubscribeKeeps
<1>6. Others' BY <1>1, <1>2 DEF Others, bounds
<1>7. Seats' BY <1>1, <1>4, FewerSeats
<1>8. TypeOK' BY <1>3, <1>5, <1>6, <1>7 DEF TypeOK, Seats, Others
<1> QED BY <1>3, <1>5, <1>8 DEF IInv

\* Redis, and the connection to it.
LEMMA HubStepKeeps == ASSUME IInv, HubStep PROVE IInv'
<1>1. UNCHANGED <<tab, served, gone, mail, due>> BY DEF HubStep
<1>2. HubTypes /\ HubInv /\ Others BY TypeParts DEF IInv
<1>3. Tab!TabTypeOK' /\ ProviderLives' BY <1>1, TabsStay
<1>4. UNCHANGED channel BY <1>1 DEF tab
<1>5. HubInv' /\ Hub!HubTypeOK'
  <2>1. CASE Hub!End /\ ends' = ends + 1 BY <1>1, <1>2, <1>4, <2>1, EndKeeps
  <2>2. CASE /\ Hub!Ready \/ Hub!Answer \/ Hub!GiveUpCommands \/ Hub!ComeBack \/ Hub!Lose
             /\ ends' = ends
    BY <1>1, <1>2, <1>4, <2>2, ReadyKeeps, AnswerKeeps, LossKeeps, ComeBackKeeps
  <2> QED BY <2>1, <2>2 DEF HubStep, bounds
<1>6. Others' BY <1>1, <1>2 DEF Others, HubStep, bounds
<1>7. Seats' BY <1>1, <1>4, FewerSeats
<1>8. TypeOK' BY <1>3, <1>5, <1>6, <1>7 DEF TypeOK, Seats, Others
<1> QED BY <1>3, <1>5, <1>8 DEF IInv

\* The query API restarts.
LEMMA RestartOfApiKeeps == ASSUME IInv, Restart PROVE IInv'
<1>1. /\ restarts < MaxRestarts /\ restarts' = restarts + 1 /\ Hub!Restart /\ served' = {}
      /\ gone' \subseteq gone \cup served /\ UNCHANGED <<tab, mail, due, breaks, losses, ends>>
  BY DEF Restart
<1>2. Others /\ Seats BY TypeParts DEF IInv
<1>3. Tab!TabTypeOK' /\ ProviderLives' BY <1>1, TabsStay
<1>4. UNCHANGED channel BY <1>1 DEF tab
<1>5. HubInv' /\ Hub!HubTypeOK' BY <1>1, RestartKeeps
<1>6. Others' BY <1>1, <1>2 DEF Others, Seats
<1>7. Seats' BY <1>1, <1>4, FewerSeats
<1>8. TypeOK' BY <1>3, <1>5, <1>6, <1>7 DEF TypeOK, Seats, Others
<1> QED BY <1>3, <1>5, <1>8 DEF IInv

LEMMA IInvInit == Init => IInv
<1> SUFFICES ASSUME Init PROVE IInv OBVIOUS
<1>1. /\ Tab!TabInit /\ Hub!HubInit /\ served = {} /\ gone = {} /\ mail = {} /\ due = {}
      /\ breaks = 0 /\ losses = 0 /\ ends = 0 /\ restarts = 0
  BY DEF Init
<1>2. HubInv /\ Hub!HubTypeOK BY <1>1, StartIsRight DEF Hub!HubInit
<1>3. PICK first \in Slots :
        /\ active = [t \in Tabs |-> TRUE] /\ org = FirstOrg
        /\ client = [s \in Streams |-> IF s[2] = first THEN "requesting" ELSE "closed"]
        /\ channel = [s \in Streams |-> FirstOrg[s[1]]]
        /\ latest = [t \in Tabs |-> first] /\ timer = [t \in Tabs |-> "null"]
        /\ spare = [t \in Tabs |-> 0] /\ met = [t \in Tabs |-> FALSE]
        /\ refetching = {} /\ stale = {}
  BY <1>1 DEF Tab!TabInit, Tab!Streams, Streams
<1>4. Tab!TabTypeOK
  <2>1. channel \in [Streams -> Orgs] BY <1>3 DEF Streams
  <2>2. client \in [Streams -> {"closed", "requesting", "open", "left"}] BY <1>3
  <2>3. active \in [Tabs -> BOOLEAN] /\ met \in [Tabs -> BOOLEAN] BY <1>3
  <2>4. latest \in [Tabs -> Slots] /\ spare \in [Tabs -> Nat] BY <1>3
  <2>5. org \in [Tabs -> Orgs] /\ timer \in [Tabs -> {"null", "armed", "fired"}] BY <1>3
  <2> QED BY <1>3, <2>1, <2>2, <2>3, <2>4, <2>5 DEF Tab!TabTypeOK, Tab!Streams, Streams
<1>5. ProviderLives
  <2>1. \A t \in Tabs : Tab!Busy(<<t, first>>)
    <3>1. \A t \in Tabs : <<t, first>> \in Streams BY DEF Streams
    <3> QED BY <1>3, <3>1 DEF Tab!Busy
  <2> QED BY <2>1 DEF ProviderLives
<1>6. Seats
  <2>1. \A o \in Orgs : Connections(o) = {} BY <1>1 DEF Connections
  <2>2. \A o \in Orgs : Cardinality(Connections(o)) <= MaxConnections BY <2>1, FS_EmptySet
  <2> QED BY <1>1, <2>2 DEF Seats
<1>7. Others BY <1>1 DEF Others
<1>8. TypeOK BY <1>2, <1>4, <1>6, <1>7, TypeParts
<1> QED BY <1>2, <1>5, <1>8 DEF IInv

LEMMA IInvNext == IInv /\ [Next]_vars => IInv'
<1> SUFFICES ASSUME IInv, [Next]_vars PROVE IInv' OBVIOUS
<1>1. CASE UNCHANGED vars
  <2>1. UNCHANGED <<hub, tab, served, gone, mail, due, breaks, losses, ends, restarts>>
    BY <1>1 DEF vars, bounds
  <2>2. Tab!TabTypeOK' /\ ProviderLives' BY <2>1, TabsStay
  <2>3. Others /\ channel' = channel BY <2>1, TypeParts DEF IInv, tab
  <2>4. Others' BY <2>1, <2>3 DEF Others
  <2> QED BY <2>1, <2>2, <2>3, <2>4, TabStep
<1>2. CASE Next
  <2>1. CASE \E s \in Streams : \/ Serve(s) \/ TooMany(s) \/ TearDown(s) \/ Opened(s)
                                \/ Read(s) \/ Breaks(s) \/ Reconnect(s) \/ Visible(s)
    <3>1. PICK s \in Streams : \/ Serve(s) \/ TooMany(s) \/ TearDown(s) \/ Opened(s)
                               \/ Read(s) \/ Breaks(s) \/ Reconnect(s) \/ Visible(s)
      BY <2>1
    <3>2. CASE Serve(s) BY <3>2, ServeKeeps
    <3>3. CASE TearDown(s) BY <3>3, TearDownKeeps
    <3>4. CASE TooMany(s) \/ Opened(s) \/ Read(s) \/ Breaks(s) \/ Reconnect(s) \/ Visible(s)
      BY <3>4, StreamsKeep
    <3> QED BY <3>1, <3>2, <3>3, <3>4
  <2>2. CASE \E t \in Tabs : \/ Logout(t) \/ Refetch(t)
                             \/ \E o \in Orgs : SwitchOrganization(t, o)
    BY <2>2, UserKeeps
  <2>3. CASE \E o \in Orgs : Change(o) \/ Publish(o) \/ PublishFails(o) BY <2>3, WorkerKeeps
  <2>4. CASE HubStep BY <2>4, HubStepKeeps
  <2>5. CASE Restart BY <2>5, RestartOfApiKeeps
  <2> QED BY <1>2, <2>1, <2>2, <2>3, <2>4, <2>5 DEF Next
<1> QED BY <1>1, <1>2

-----------------------------------------------------------------------------
(* The theorems.                                                            *)

LEMMA Invariant == Spec => []IInv
BY IInvInit, IInvNext, PTL DEF Spec

\* Every variable keeps its type, and no organization gets more streams than its limit.
THEOREM NotificationsTyped == Spec => []TypeOK
<1>1. IInv => TypeOK BY DEF IInv
<1> QED BY <1>1, Invariant, PTL

\* SseProvider: whatever breaks, times out or is switched, a session that lives has a
\* stream, a request for one, or a timer that will ask for one.
THEOREM ProvidersLive == Spec => []ProviderLives
<1>1. IInv => ProviderLives BY DEF IInv
<1> QED BY <1>1, Invariant, PTL

\* RedisPubSubService: once connected with nothing on the way, the service is subscribed to
\* the channel of every stream it serves, after losses, rejected commands and restarts,
\* unless the last callback of the channel went while its SUBSCRIBE was to come.
THEOREM StreamsHear == Spec => []QuietStreamsHear
<1>1. IInv => QuietStreamsHear
  <2> SUFFICES ASSUME IInv, link = "ready", wire = <<>>, ends = 0, NEW s \in served
               PROVE  channel[s] \in redis \cup hasty
    BY DEF QuietStreamsHear
  <2> DEFINE c == channel[s]
  <2>1. HubTypes BY TypeParts DEF IInv
  <2>2. c \in Orgs BY <2>1 DEF HubTypes
  <2>3. s \in listeners[c]
    <3>1. s \in Connections(c) BY DEF Connections
    <3> QED BY <2>2, <3>1 DEF IInv, HubInv, CallbacksAreStreams
  <2>4. c \notin hasty => WillHear(c)
    BY <2>2, <2>3 DEF IInv, HubInv, WantedAreSubscribed, Wanted
  <2>5. Len(wire) = 0 OBVIOUS
  <2> QED BY <2>4, <2>5 DEF WillHear
<1> QED BY <1>1, Invariant, PTL
=============================================================================
