----------------------------- MODULE SseProvider -----------------------------
(***************************************************************************)
(* The dashboard's side of the notifications: in each tab SseProvider runs *)
(* connect(), which requests a stream, reads it until it ends, and arms a  *)
(* timer to connect again; a tab that becomes visible connects at once if  *)
(* reconnectTimer says that a timer is armed.  A page refetches what it    *)
(* shows when a notification or a reconnect asks it to.                    *)
(*                                                                         *)
(* A stream is a run of connect(), named by its tab and a slot.  A tab is  *)
(* one session: it starts logged in and ends with a logout.                *)
(***************************************************************************)
EXTENDS Integers

CONSTANTS Tabs, Slots, Orgs,
          FirstOrg \* [Tabs -> Orgs]: the organization a session starts with

VARIABLES
  active,     \* [Tabs -> BOOLEAN]: authenticated, and not stopped
  org,        \* [Tabs -> Orgs]: the organization of the session's token
  client,     \* [Streams -> "closed", "requesting", "open", or "left": connect() has
              \* returned, and nobody reads or cancels the response]
  channel,    \* [Streams -> Orgs]: the organization the stream was requested with
  latest,     \* [Tabs -> Slots]: whose abortController it is
  timer,      \* [Tabs -> "null", "armed", "fired"]: reconnectTimer
  spare,      \* [Tabs -> Nat]: armed timers reconnectTimer no longer holds
  met,        \* [Tabs -> BOOLEAN]: hasConnectedBefore
  refetching, \* tabs whose page has a debounced refetch to do
  stale       \* tabs that show less than the database holds

tab == <<active, org, client, channel, latest, timer, spare, met, refetching, stale>>

Streams == Tabs \X Slots
Busy(s) == client[s] \in {"requesting", "open"}

TabTypeOK ==
  /\ active \in [Tabs -> BOOLEAN]
  /\ org \in [Tabs -> Orgs]
  /\ client \in [Streams -> {"closed", "requesting", "open", "left"}]
  /\ channel \in [Streams -> Orgs]
  /\ latest \in [Tabs -> Slots]
  /\ timer \in [Tabs -> {"null", "armed", "fired"}]
  /\ spare \in [Tabs -> Nat]
  /\ met \in [Tabs -> BOOLEAN]
  /\ refetching \subseteq Tabs /\ stale \subseteq Tabs

\* The first connect() has just been called.
TabInit ==
  \E first \in Slots :
    /\ active = [t \in Tabs |-> TRUE]
    /\ org = FirstOrg
    /\ client = [s \in Streams |-> IF s[2] = first THEN "requesting" ELSE "closed"]
    /\ channel = [s \in Streams |-> FirstOrg[s[1]]]
    /\ latest = [t \in Tabs |-> first]
    /\ timer = [t \in Tabs |-> "null"]
    /\ spare = [t \in Tabs |-> 0]
    /\ met = [t \in Tabs |-> FALSE]
    /\ refetching = {} /\ stale = {}

-----------------------------------------------------------------------------

\* connect(): a new abort controller, and a request with the session's token.
Connect(s) ==
  /\ client[s] = "closed"
  /\ client' = [client EXCEPT ![s] = "requesting"]
  /\ channel' = [channel EXCEPT ![s] = org[s[1]]]
  /\ latest' = [latest EXCEPT ![s[1]] = s[2]]

\* Mutant: the page does not refetch after a reconnect.
OpenedQuietly(s) ==
  LET t == s[1]
  IN  /\ client[s] = "requesting"
      /\ client' = [client EXCEPT ![s] = IF active[t] THEN "open" ELSE "left"]
      /\ met' = [met EXCEPT ![t] = TRUE]
      /\ UNCHANGED <<active, org, channel, latest, timer, spare, refetching, stale>>

\* The response is there.  Any but the first makes the page refetch; after a logout
\* the loop is not entered.
Opened(s) ==
  LET t == s[1]
  IN  /\ client[s] = "requesting"
      /\ client' = [client EXCEPT ![s] = IF active[t] THEN "open" ELSE "left"]
      /\ refetching' = IF met[t] /\ active[t] THEN refetching \cup {t} ELSE refetching
      /\ met' = [met EXCEPT ![t] = TRUE]
      /\ UNCHANGED <<active, org, channel, latest, timer, spare, stale>>

\* Mutant: the event is taken for a heartbeat.
ReadNothing(s) ==
  LET t == s[1]
  IN  /\ client[s] = "open"
      /\ client' = [client EXCEPT ![s] = IF active[t] THEN "open" ELSE "left"]
      /\ UNCHANGED <<active, org, channel, latest, timer, spare, met, refetching, stale>>

\* A notification makes the page refetch, whatever it is about.  A loop that reads on
\* after the logout stops at the next chunk.
Read(s) ==
  LET t == s[1]
  IN  /\ client[s] = "open"
      /\ client' = [client EXCEPT ![s] = IF active[t] THEN "open" ELSE "left"]
      /\ refetching' = IF active[t] THEN refetching \cup {t} ELSE refetching
      /\ UNCHANGED <<active, org, channel, latest, timer, spare, met, stale>>

\* Mutant: a request that fails is not tried again.
GivesUpRequest(s) ==
  LET t == s[1]
      again == active[t] /\ client[s] = "open"
  IN  /\ Busy(s)
      /\ client' = [client EXCEPT ![s] = "closed"]
      /\ timer' = IF again THEN [timer EXCEPT ![t] = "armed"] ELSE timer
      /\ spare' = IF again /\ timer[t] = "armed" THEN [spare EXCEPT ![t] = @ + 1] ELSE spare
      /\ UNCHANGED <<active, org, channel, latest, met, refetching, stale>>

\* The stream ends, or its request fails: the timer to connect again is armed.  One
\* that is armed already goes on, but reconnectTimer now holds the new one.
Ends(s) ==
  LET t == s[1]
  IN  /\ Busy(s)
      /\ client' = [client EXCEPT ![s] = "closed"]
      /\ timer' = IF active[t] THEN [timer EXCEPT ![t] = "armed"] ELSE timer
      /\ spare' = IF active[t] /\ timer[t] = "armed" THEN [spare EXCEPT ![t] = @ + 1] ELSE spare
      /\ UNCHANGED <<active, org, channel, latest, met, refetching, stale>>

\* The timer calls connect(); reconnectTimer keeps the id of the timer that fired.
TimerFires(s) ==
  /\ timer[s[1]] = "armed"
  /\ timer' = [timer EXCEPT ![s[1]] = "fired"]
  /\ Connect(s)
  /\ UNCHANGED <<active, org, spare, met, refetching, stale>>

\* Another timer: connect() returns at once when the provider has stopped.
SpareFires(s) ==
  /\ spare[s[1]] > 0
  /\ spare' = [spare EXCEPT ![s[1]] = @ - 1]
  /\ IF active[s[1]] THEN Connect(s) ELSE UNCHANGED <<client, channel, latest>>
  /\ UNCHANGED <<active, org, timer, met, refetching, stale>>

\* handleVisibilityChange: a reconnectTimer that is not null is taken for one that is armed.
Visible(s) ==
  /\ active[s[1]] /\ timer[s[1]] # "null"
  /\ timer' = [timer EXCEPT ![s[1]] = "null"]
  /\ Connect(s)
  /\ UNCHANGED <<active, org, spare, met, refetching, stale>>

\* switchOrganization: a new token and the start page.  isAuthenticated does not change,
\* so the provider goes on as it is.
SwitchOrganization(t, o) ==
  /\ active[t] /\ org[t] # o
  /\ org' = [org EXCEPT ![t] = o]
  /\ refetching' = refetching \ {t} /\ stale' = stale \ {t}
  /\ UNCHANGED <<active, client, channel, latest, timer, spare, met>>

\* logout: the cleanup of the effect aborts the latest stream and clears reconnectTimer.
Logout(t) ==
  /\ active[t]
  /\ active' = [active EXCEPT ![t] = FALSE]
  /\ client' = [client EXCEPT ![<<t, latest[t]>>] =
                  IF Busy(<<t, latest[t]>>) THEN "closed" ELSE @]
  /\ timer' = [timer EXCEPT ![t] = "null"]
  /\ refetching' = refetching \ {t} /\ stale' = stale \ {t}
  /\ UNCHANGED <<org, channel, latest, spare, met>>

\* The page reads the database.
Refetch(t) ==
  /\ t \in refetching
  /\ refetching' = refetching \ {t} /\ stale' = stale \ {t}
  /\ UNCHANGED <<active, org, client, channel, latest, timer, spare, met>>

=============================================================================
