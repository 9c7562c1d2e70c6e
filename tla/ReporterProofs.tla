--------------------------- MODULE ReporterProofs ---------------------------
(* What TLAPS proves about the reporter, for every sequence of callbacks,     *)
(* every size of the queue and every number of retries; and of the events     *)
(* its callbacks make, for any tests and retries of them.                     *)
EXTENDS SpecHiveReporter, TLAPS

USE BurstsAssumption, SizeAssumption

-----------------------------------------------------------------------------
(* The invariant.                                                           *)

\* The position up to which the queue has let go of what was enqueued.
Start == Len(enqueued) - Len(items)

\* The queue holds the end of what was enqueued, and an event is enqueued once.
QueueIsSuffix ==
  /\ Len(items) <= Len(enqueued)
  /\ \A k \in 1..Len(items) : items[k] = enqueued[Start + k]
  /\ \A i, j \in 1..Len(enqueued) : enqueued[i] = enqueued[j] => i = j

\* What the queue has let go is being sent, sent, failed or dropped, and only one of them.
LetGo   == {enqueued[k] : k \in 1..Start}
Current == {sending.event} \ {NoEvent}

LetGoIsAccounted ==
  /\ LetGo = sent \cup failed \cup dropped \cup Current
  /\ sent \cap failed = {} /\ sent \cap dropped = {} /\ failed \cap dropped = {}
  /\ sending.event \notin sent \cup failed \cup dropped

\* The call of sendEvent: when there is none the queue is empty.
CallIsConsistent ==
  /\ Idle => items = <<>> /\ reply = "none"
  /\ ~Idle => sending.event \in Events
  /\ sending.asleep => sending.attempt < MaxRetries
  /\ reply = "ok" => sending.event \in Range(stored)

\* The outbox and the late requests have events that were tried, and nothing after the
\* event being sent was tried.
OnlyTriedIsStored ==
  /\ Range(stored) \cup late \subseteq Range(enqueued)
  /\ late \cap Range(stored) = {}
  /\ ~Idle => \E p \in 1..Start :
       /\ enqueued[p] = sending.event
       /\ \A j \in (p + 1)..Len(enqueued) : enqueued[j] \notin Range(stored) \cup late

QueueInv == /\ QueueIsSuffix /\ LetGoIsAccounted /\ CallIsConsistent /\ OnlyTriedIsStored
            /\ SentInOrder

\* Where an event that was enqueued, or will be after an upload, comes from.
FromBurst(e) == \E i \in 1..(next - 1) : e \in Range(Bursts[i])
FromAttachment(e) == \E i \in 1..(next - 1) : e \in Range(Attachments[i])

\* What is still to be enqueued has not been.
StillToCome ==
  /\ \A e \in Range(enqueued) :
       FromBurst(e) \/ FromAttachment(e) \/ (e = RunEnd /\ phase # "running")
  /\ \A u \in uploads : \A j, l \in 1..Len(u) :
       /\ FromAttachment(u[j]) /\ u[j] \notin Range(enqueued)
       /\ u[j] = u[l] => j = l
  /\ \A u, v \in uploads : u # v => Range(u) \cap Range(v) = {}

\* onEnd waits for the uploads first, then for the queue.
OnEndWaits ==
  /\ phase \in {"draining", "finished"} => uploads = {}
  /\ phase # "finished" => ~flushed
  /\ DrainedIsSettled

IInv == TypeOK /\ QueueInv /\ StillToCome /\ OnEndWaits

-----------------------------------------------------------------------------
(* Enqueuing.                                                               *)

\* A full queue keeps the end of what it is given, and drops the rest.
LEMMA KeepsTheEnd ==
  ASSUME NEW q \in Seq(Events), Keep(q)
  PROVE  /\ items' \in Seq(Events)
         /\ Len(items') <= MaxQueueSize /\ Len(items') <= Len(q)
         /\ \A k \in 1..Len(items') : items'[k] = q[Len(q) - Len(items') + k]
         /\ dropped' = dropped \cup {q[i] : i \in 1..(Len(q) - Len(items'))}
<1> DEFINE over == IF Len(q) > MaxQueueSize THEN Len(q) - MaxQueueSize ELSE 0
<1>1. over \in Nat /\ over <= Len(q) /\ Len(q) \in Nat OBVIOUS
<1>2. items' = SubSeq(q, over + 1, Len(q)) /\ dropped' = dropped \cup {q[i] : i \in 1..over}
  BY DEF Keep
<1>3. Len(q) - over <= MaxQueueSize OBVIOUS
<1> HIDE DEF over
<1>4. /\ items' \in Seq(Events) /\ Len(items') = Len(q) - over
      /\ \A k \in 1..Len(items') : items'[k] = q[over + k]
  BY <1>1, <1>2
<1>5. Len(q) - Len(items') = over /\ Len(items') <= Len(q) BY <1>1, <1>4
<1>6. Len(items') <= MaxQueueSize BY <1>3, <1>4
<1>7. dropped' = dropped \cup {q[i] : i \in 1..(Len(q) - Len(items'))} BY <1>2, <1>5
<1>8. \A k \in 1..Len(items') : items'[k] = q[Len(q) - Len(items') + k] BY <1>4, <1>5
<1> QED BY <1>4, <1>5, <1>6, <1>7, <1>8

LEMMA RangeOfSeq ==
  ASSUME NEW q \in Seq(Events)
  PROVE  /\ \A k \in 1..Len(q) : q[k] \in Range(q)
         /\ \A x \in Range(q) : \E k \in 1..Len(q) : x = q[k]
         /\ Range(q) \subseteq Events
<1>1. DOMAIN q = 1..Len(q) /\ \A k \in 1..Len(q) : q[k] \in Events OBVIOUS
<1> QED BY <1>1 DEF Range

\* What b adds is new, and each event of it is there once.
Fresh(b) == /\ \A k \in 1..Len(b) : b[k] \notin Range(enqueued)
            /\ \A j, k \in 1..Len(b) : b[j] = b[k] => j = k

\* Both branches of enqueue() keep the end of what was enqueued.
LEMMA EnqueueKeepsTheEnd ==
  ASSUME TypeOK, QueueInv, NEW b \in Seq(Events) \ {<<>>}, Enqueue(b)
  PROVE  /\ enqueued' \in Seq(Events) /\ items' \in Seq(Events)
         /\ Len(enqueued') = Len(enqueued) + Len(b)
         /\ \A k \in 1..Len(enqueued) : enqueued'[k] = enqueued[k]
         /\ \A k \in 1..Len(b) : enqueued'[Len(enqueued) + k] = b[k]
         /\ Len(items') <= MaxQueueSize
         /\ \A k \in 1..Len(items') :
              items'[k] = enqueued'[Len(enqueued') - Len(items') + k]
         /\ \/ /\ Idle /\ sending' = First(b[1]) /\ reply' = "asked"
               /\ Start = Len(enqueued) /\ Len(items') < Len(b)
               /\ dropped' = dropped \cup {enqueued'[k] : k \in (Start + 2)..Start'}
            \/ /\ ~Idle /\ UNCHANGED <<sending, reply>>
               /\ Len(items') <= Len(items) + Len(b)
               /\ dropped' = dropped \cup {enqueued'[k] : k \in (Start + 1)..Start'}
<1> DEFINE L == Len(enqueued)
<1>1. /\ enqueued \in Seq(Events) /\ items \in Seq(Events) /\ L \in Nat
      /\ Len(b) \in Nat \ {0} /\ Len(items) \in Nat
  BY DEF TypeOK
<1>2. /\ enqueued' \in Seq(Events) /\ Len(enqueued') = L + Len(b)
      /\ \A k \in 1..L : enqueued'[k] = enqueued[k]
      /\ \A k \in 1..Len(b) : enqueued'[L + k] = b[k]
  BY <1>1 DEF Enqueue
<1>3. ASSUME NEW q \in Seq(Events), Keep(q), Len(q) <= L + Len(b),
             \A k \in 1..Len(q) : q[k] = enqueued'[L + Len(b) - Len(q) + k]
      PROVE  /\ items' \in Seq(Events) /\ Len(items') <= MaxQueueSize
             /\ Len(items') <= Len(q)
             /\ \A k \in 1..Len(items') :
                  items'[k] = enqueued'[Len(enqueued') - Len(items') + k]
             /\ dropped' = dropped \cup
                  {enqueued'[k] : k \in (L + Len(b) - Len(q) + 1)..Start'}
  <2>1. /\ items' \in Seq(Events)
        /\ Len(items') <= MaxQueueSize /\ Len(items') <= Len(q)
        /\ \A k \in 1..Len(items') : items'[k] = q[Len(q) - Len(items') + k]
        /\ dropped' = dropped \cup {q[i] : i \in 1..(Len(q) - Len(items'))}
    BY <1>3, KeepsTheEnd
  <2>2. Len(q) \in Nat /\ Len(items') \in Nat BY <2>1
  <2>3. \A k \in 1..Len(items') : items'[k] = enqueued'[Len(enqueued') - Len(items') + k]
    <3> SUFFICES ASSUME NEW k \in 1..Len(items')
                 PROVE  items'[k] = enqueued'[L + Len(b) - Len(items') + k]
      BY <1>2
    <3> DEFINE i == Len(q) - Len(items') + k
    <3>1. i \in 1..Len(q) /\ L + Len(b) - Len(q) + i = L + Len(b) - Len(items') + k
      BY <1>1, <2>1, <2>2
    <3>2. items'[k] = q[i] BY <2>1
    <3> HIDE DEF i
    <3>3. q[i] = enqueued'[L + Len(b) - Len(q) + i] BY <1>3, <3>1
    <3> QED BY <3>1, <3>2, <3>3
  <2>4. Start' = L + Len(b) - Len(items') BY <1>2 DEF Start
  <2>5. {q[i] : i \in 1..(Len(q) - Len(items'))}
          = {enqueued'[k] : k \in (L + Len(b) - Len(q) + 1)..Start'}
    <3>1. ASSUME NEW i \in 1..(Len(q) - Len(items'))
          PROVE  \E k \in (L + Len(b) - Len(q) + 1)..Start' : q[i] = enqueued'[k]
      <4>1. L + Len(b) - Len(q) + i \in (L + Len(b) - Len(q) + 1)..Start'
        BY <1>1, <2>2, <2>4
      <4>2. q[i] = enqueued'[L + Len(b) - Len(q) + i] BY <1>3, <2>2
      <4> QED BY <4>1, <4>2
    <3>2. ASSUME NEW k \in (L + Len(b) - Len(q) + 1)..Start'
          PROVE  \E i \in 1..(Len(q) - Len(items')) : enqueued'[k] = q[i]
      <4> DEFINE i == k - (L + Len(b) - Len(q))
      <4>1. i \in 1..(Len(q) - Len(items')) /\ i \in 1..Len(q) BY <1>1, <2>2, <2>4
      <4>2. L + Len(b) - Len(q) + i = k BY <1>1, <2>2
      <4> HIDE DEF i
      <4>3. q[i] = enqueued'[k] BY <1>3, <4>1, <4>2
      <4> QED BY <4>1, <4>3
    <3> DEFINE I == 1..(Len(q) - Len(items'))
               K == (L + Len(b) - Len(q) + 1)..Start'
               Q(i) == q[i]
               E(k) == enqueued'[k]
    <3>3. \A i \in I : \E k \in K : Q(i) = E(k) BY <3>1
    <3>4. \A k \in K : \E i \in I : E(k) = Q(i) BY <3>2
    <3> HIDE DEF I, K, Q, E
    <3>5. {Q(i) : i \in I} = {E(k) : k \in K} BY <3>3, <3>4
    <3> QED BY <3>5 DEF I, K, Q, E
  <2> QED BY <2>1, <2>3, <2>5
<1>4. CASE Idle
  <2>1. items = <<>> BY <1>4 DEF QueueInv, CallIsConsistent
  <2>2. Send(Head(b)) /\ Keep(Tail(b)) BY <1>4 DEF Enqueue
  <2>3. /\ Tail(b) \in Seq(Events) /\ Len(Tail(b)) = Len(b) - 1
        /\ \A k \in 1..Len(Tail(b)) : Tail(b)[k] = b[k + 1]
    BY <1>1
  <2>4. \A k \in 1..Len(Tail(b)) : Tail(b)[k] = enqueued'[L + Len(b) - Len(Tail(b)) + k]
    BY <1>1, <1>2, <2>3
  <2>5. Len(Tail(b)) <= L + Len(b) /\ L + Len(b) - Len(Tail(b)) + 1 = L + 2
    BY <1>1, <2>3
  <2>6. Start = L BY <1>1, <2>1 DEF Start
  <2>7. sending' = First(b[1]) /\ reply' = "asked" BY <1>1, <2>2 DEF Send
  <2> DEFINE q == Tail(b)
  <2>8. q \in Seq(Events) /\ Keep(q) /\ Len(q) <= L + Len(b) BY <2>2, <2>3, <2>5
  <2>9. \A k \in 1..Len(q) : q[k] = enqueued'[L + Len(b) - Len(q) + k] BY <2>4
  <2>10. L + Len(b) - Len(q) + 1 = Start + 2 /\ Len(q) = Len(b) - 1 BY <2>3, <2>5, <2>6
  <2> HIDE DEF q
  <2>11. /\ items' \in Seq(Events) /\ Len(items') <= MaxQueueSize
         /\ Len(items') <= Len(b) - 1
         /\ \A k \in 1..Len(items') :
              items'[k] = enqueued'[Len(enqueued') - Len(items') + k]
         /\ dropped' = dropped \cup {enqueued'[k] : k \in (Start + 2)..Start'}
    BY <1>3, <2>8, <2>9, <2>10
  <2>12. Len(items') \in Nat /\ Len(items') < Len(b) BY <1>1, <2>11
  <2> QED BY <1>2, <1>4, <2>6, <2>7, <2>11, <2>12
<1>5. CASE ~Idle
  <2>1. Keep(items \o b) /\ UNCHANGED <<sending, reply>> BY <1>5 DEF Enqueue
  <2> DEFINE q == items \o b
  <2>2. /\ q \in Seq(Events) /\ Len(q) = Len(items) + Len(b)
        /\ \A k \in 1..Len(items) : q[k] = items[k]
        /\ \A k \in 1..Len(b) : q[Len(items) + k] = b[k]
    BY <1>1
  <2>3. Len(items) <= L /\ \A k \in 1..Len(items) : items[k] = enqueued[L - Len(items) + k]
    BY DEF QueueInv, QueueIsSuffix, Start
  <2> HIDE DEF q
  <2>4. ASSUME NEW k \in 1..Len(q) PROVE q[k] = enqueued'[L + Len(b) - Len(q) + k]
    <3>1. CASE k <= Len(items)
      <4>1. q[k] = enqueued[L - Len(items) + k] BY <1>1, <2>2, <2>3, <3>1
      <4>2. L - Len(items) + k \in 1..L BY <1>1, <2>3, <3>1
      <4>3. L + Len(b) - Len(q) + k = L - Len(items) + k BY <1>1, <2>2
      <4> QED BY <1>2, <4>1, <4>2, <4>3
    <3>2. CASE k > Len(items)
      <4> DEFINE i == k - Len(items)
      <4>1. i \in 1..Len(b) /\ k = Len(items) + i BY <1>1, <2>2, <3>2
      <4>2. L + Len(b) - Len(q) + k = L + i BY <1>1, <2>2
      <4> HIDE DEF i
      <4>3. q[k] = b[i] /\ enqueued'[L + i] = b[i] BY <1>2, <2>2, <4>1
      <4> QED BY <4>2, <4>3
    <3> QED BY <1>1, <3>1, <3>2
  <2>5. Len(q) <= L + Len(b) /\ L + Len(b) - Len(q) + 1 = Start + 1
    BY <1>1, <2>2, <2>3 DEF Start
  <2>6. Keep(q) BY <2>1 DEF q
  <2> QED BY <1>2, <1>3, <1>5, <2>1, <2>2, <2>4, <2>5, <2>6
<1> QED BY <1>4, <1>5

\* The queue that is enqueued to keeps all that it promises.
LEMMA EnqueueKeepsQueue ==
  ASSUME TypeOK, QueueInv, NEW b \in Seq(Events) \ {<<>>}, Fresh(b), Enqueue(b),
         UNCHANGED <<statVars, late, stored>>
  PROVE  QueueInv'
<1> DEFINE L == Len(enqueued)
<1>1. /\ enqueued' \in Seq(Events) /\ items' \in Seq(Events)
      /\ Len(enqueued') = L + Len(b)
      /\ \A k \in 1..L : enqueued'[k] = enqueued[k]
      /\ \A k \in 1..Len(b) : enqueued'[L + k] = b[k]
      /\ \A k \in 1..Len(items') : items'[k] = enqueued'[Len(enqueued') - Len(items') + k]
  BY EnqueueKeepsTheEnd
<1>2. \/ /\ Idle /\ sending' = First(b[1]) /\ reply' = "asked"
         /\ Start = Len(enqueued) /\ Len(items') < Len(b)
         /\ dropped' = dropped \cup {enqueued'[k] : k \in (Start + 2)..Start'}
      \/ /\ ~Idle /\ UNCHANGED <<sending, reply>>
         /\ Len(items') <= Len(items) + Len(b)
         /\ dropped' = dropped \cup {enqueued'[k] : k \in (Start + 1)..Start'}
  BY EnqueueKeepsTheEnd
<1>3. /\ L \in Nat /\ Len(b) \in Nat \ {0} /\ Len(items) \in Nat /\ Len(items') \in Nat
      /\ enqueued \in Seq(Events) /\ Len(items) <= L
  BY <1>1 DEF TypeOK, QueueInv, QueueIsSuffix
<1>4. UNCHANGED <<sent, failed, late, stored>> BY DEF statVars
<1>5. /\ Start = L - Len(items) /\ Start' = L + Len(b) - Len(items')
      /\ Start \in Nat /\ Start' \in Nat /\ Start' >= Start
      /\ (Idle => Start = L /\ Start' >= L + 1)
  BY <1>1, <1>2, <1>3 DEF Start
<1>6. \A k \in 1..Len(enqueued') : \/ k \in 1..L /\ enqueued'[k] = enqueued[k]
                                   \/ \E m \in 1..Len(b) : k = L + m /\ enqueued'[k] = b[m]
  <2> SUFFICES ASSUME NEW k \in 1..Len(enqueued'), k \notin 1..L
               PROVE  \E m \in 1..Len(b) : k = L + m /\ enqueued'[k] = b[m]
    BY <1>1
  <2> DEFINE m == k - L
  <2>1. m \in 1..Len(b) /\ k = L + m BY <1>1, <1>3
  <2> QED BY <1>1, <2>1
<1>7. \A k \in 1..L : enqueued[k] \in Range(enqueued) BY <1>3, RangeOfSeq
<1>8. \A i, j \in 1..Len(enqueued') : enqueued'[i] = enqueued'[j] => i = j
  <2> SUFFICES ASSUME NEW i \in 1..Len(enqueued'), NEW j \in 1..Len(enqueued'),
                      enqueued'[i] = enqueued'[j]
               PROVE  i = j
    OBVIOUS
  <2>1. /\ \A k \in 1..Len(b) : b[k] \notin Range(enqueued)
        /\ \A k, l \in 1..Len(b) : b[k] = b[l] => k = l
        /\ \A k, l \in 1..L : enqueued[k] = enqueued[l] => k = l
    BY DEF Fresh, QueueInv, QueueIsSuffix
  <2>2. CASE i \in 1..L /\ j \in 1..L BY <1>1, <2>1, <2>2
  <2>3. CASE i \in 1..L /\ j \notin 1..L
    <3>1. enqueued'[i] \in Range(enqueued) BY <1>1, <1>7, <2>3
    <3>2. enqueued'[j] \notin Range(enqueued) BY <1>6, <2>1, <2>3
    <3> QED BY <3>1, <3>2
  <2>4. CASE i \notin 1..L /\ j \in 1..L
    <3>1. enqueued'[j] \in Range(enqueued) BY <1>1, <1>7, <2>4
    <3>2. enqueued'[i] \notin Range(enqueued) BY <1>6, <2>1, <2>4
    <3> QED BY <3>1, <3>2
  <2>5. CASE i \notin 1..L /\ j \notin 1..L
    <3>1. PICK k \in 1..Len(b) : i = L + k /\ enqueued'[i] = b[k] BY <1>6, <2>5
    <3>2. PICK l \in 1..Len(b) : j = L + l /\ enqueued'[j] = b[l] BY <1>6, <2>5
    <3> QED BY <2>1, <3>1, <3>2
  <2> QED BY <2>2, <2>3, <2>4, <2>5
<1>9. QueueIsSuffix'
  <2>1. Len(items') <= Len(enqueued') BY <1>1, <1>3, <1>5
  <2> QED BY <1>1, <1>5, <1>8, <2>1 DEF QueueIsSuffix
<1>10. Range(enqueued) \subseteq Range(enqueued')
  <2> SUFFICES ASSUME NEW x \in Range(enqueued) PROVE x \in Range(enqueued') OBVIOUS
  <2>1. PICK k \in 1..L : x = enqueued[k] BY <1>3, RangeOfSeq
  <2>2. k \in 1..Len(enqueued') /\ x = enqueued'[k] BY <1>1, <1>3, <2>1
  <2> QED BY <1>1, <2>2, RangeOfSeq
<1>11. b[1] \in Events /\ b[1] = enqueued'[L + 1] /\ b[1] # NoEvent
  <2>1. 1 \in 1..Len(b) BY <1>3
  <2>2. b[1] \in Events BY <2>1
  <2>3. enqueued'[L + 1] = b[1] BY <1>1, <2>1
  <2>4. NoEvent \notin Events OBVIOUS
  <2> QED BY <2>2, <2>3, <2>4
<1>12. LetGo \subseteq Range(enqueued) /\ LetGo = {enqueued'[k] : k \in 1..Start}
  <2>1. (1..Start) \subseteq 1..L BY <1>3, <1>5
  <2>2. \A k \in 1..Start : enqueued'[k] = enqueued[k] /\ enqueued[k] \in Range(enqueued)
    BY <1>1, <1>7, <2>1
  <2> QED BY <2>2 DEF LetGo
<1>13. LetGoIsAccounted'
  <2>0. LetGo' = {enqueued'[k] : k \in 1..Start'} BY DEF LetGo
  <2>1. CASE Idle
    <3> DEFINE D == {enqueued'[k] : k \in (Start + 2)..Start'}
    <3>1. dropped' = dropped \cup D /\ sending'.event = b[1] /\ Current' = {b[1]}
      BY <1>2, <1>11, <2>1 DEF First, Current
    <3>2. Current = {} BY <2>1 DEF Idle, NotSending, Current
    <3>3. LetGo' = LetGo \cup {b[1]} \cup D
      <4>1. ASSUME NEW k \in 1..Start'
            PROVE  k \in 1..Start \/ k = L + 1 \/ k \in (Start + 2)..Start'
        <5>1. k \in Int /\ 1 <= k /\ k <= Start' /\ Start = L BY <1>5, <2>1
        <5> QED BY <1>3, <5>1
      <4>2. (1..Start) \subseteq 1..Start' /\ L + 1 \in 1..Start'
            /\ ((Start + 2)..Start') \subseteq 1..Start'
        BY <1>3, <1>5, <2>1
      <4> QED BY <1>11, <1>12, <2>0, <4>1, <4>2
    <3>4. /\ \A k \in 1..Start' : k \in 1..Len(enqueued')
          /\ L + 1 \in 1..Len(enqueued') /\ L + 1 \notin 1..Start
          /\ L + 1 \notin (Start + 2)..Start'
          /\ \A k \in (Start + 2)..Start' : k \notin 1..Start /\ k \in 1..Len(enqueued')
      BY SMTT(60), <1>1, <1>3, <1>5, <2>1
    <3>5. b[1] \notin LetGo /\ b[1] \notin D
      <4>1. \A k \in 1..Start : k \in 1..Len(enqueued') BY <1>1, <1>3, <1>5
      <4> QED BY <1>8, <1>11, <1>12, <3>4, <4>1
    <3>6. LetGo \cap D = {}
      <4>1. \A k \in 1..Start : k \in 1..Len(enqueued') BY <1>1, <1>3, <1>5
      <4> QED BY <1>8, <1>12, <3>4, <4>1
    <3> HIDE DEF D
    <3> QED BY <1>4, <3>1, <3>2, <3>3, <3>5, <3>6 DEF QueueInv, LetGoIsAccounted
  <2>2. CASE ~Idle
    <3> DEFINE D == {enqueued'[k] : k \in (Start + 1)..Start'}
    <3>1. dropped' = dropped \cup D /\ sending' = sending
      BY <1>2, <2>2
    <3>2. LetGo' = LetGo \cup D
      <4>1. \A k \in 1..Start' : k \in 1..Start \/ k \in (Start + 1)..Start'
        BY <1>3, <1>5
      <4>2. (1..Start) \subseteq 1..Start' /\ ((Start + 1)..Start') \subseteq 1..Start'
        BY SMTT(30), <1>3, <1>5
      <4> QED BY <1>12, <2>0, <4>1, <4>2
    <3>3. \A k \in (Start + 1)..Start' : k \notin 1..Start /\ k \in 1..Len(enqueued')
      BY <1>1, <1>3, <1>5
    <3>4. \A k \in 1..Start : k \in 1..Len(enqueued') BY <1>1, <1>3, <1>5
    <3>5. LetGo \cap D = {} BY <1>8, <1>12, <3>3, <3>4
    <3>6. sending.event \in LetGo
      BY <2>2 DEF QueueInv, OnlyTriedIsStored, LetGo
    <3> HIDE DEF D
    <3> QED BY <1>4, <3>1, <3>2, <3>5, <3>6 DEF QueueInv, LetGoIsAccounted, Current
  <2> QED BY <2>1, <2>2
<1>14. CallIsConsistent'
  <2>1. CASE Idle
    <3>1. sending' = First(b[1]) /\ reply' = "asked" BY <1>2, <2>1
    <3>2. sending'.event = b[1] /\ ~sending'.asleep BY <3>1 DEF First
    <3>3. ~Idle' BY <1>11, <3>2 DEF Idle, NotSending
    <3> QED BY <1>11, <3>1, <3>2, <3>3 DEF CallIsConsistent
  <2>2. CASE ~Idle
    BY <1>2, <1>4, <2>2 DEF QueueInv, CallIsConsistent, Idle
  <2> QED BY <2>1, <2>2
<1> DEFINE Tried == Range(stored) \cup late
<1>15. \A m \in 1..Len(b) : b[m] \notin Tried
  BY DEF Fresh, QueueInv, OnlyTriedIsStored
<1>16. OnlyTriedIsStored'
  <2>1. (Range(stored) \cup late)' = Tried BY <1>4
  <2>2. Tried \subseteq Range(enqueued') /\ late' \cap Range(stored') = {}
    BY <1>4, <1>10 DEF QueueInv, OnlyTriedIsStored
  <2>3. \E p \in 1..Start' : /\ enqueued'[p] = sending'.event
                             /\ \A j \in (p + 1)..Len(enqueued') : enqueued'[j] \notin Tried
    <3>1. CASE Idle
      <4>1. sending'.event = enqueued'[L + 1] BY <1>2, <1>11, <3>1 DEF First
      <4>2. L + 1 \in 1..Start' BY <1>3, <1>5, <3>1
      <4>3. ASSUME NEW j \in (L + 2)..Len(enqueued') PROVE enqueued'[j] \notin Tried
        <5>1. j \in 1..Len(enqueued') /\ j \notin 1..L BY <1>1, <1>3
        <5> QED BY <1>6, <1>15, <5>1
      <4> HIDE DEF Tried
      <4> QED BY <4>1, <4>2, <4>3, <1>3, SMTT(90)
    <3>2. CASE ~Idle
      <4>1. PICK p \in 1..Start : /\ enqueued[p] = sending.event
                                  /\ \A j \in (p + 1)..L : enqueued[j] \notin Tried
        BY <3>2 DEF QueueInv, OnlyTriedIsStored
      <4>2. p \in 1..Start' /\ p \in 1..L BY <1>3, <1>5
      <4>3. enqueued'[p] = sending'.event BY <1>1, <1>2, <3>2, <4>1, <4>2
      <4>4. ASSUME NEW j \in (p + 1)..Len(enqueued') PROVE enqueued'[j] \notin Tried
        <5>1. j \in 1..Len(enqueued') /\ (j \in 1..L => j \in (p + 1)..L)
          BY <1>1, <1>3, <1>5
        <5> QED BY <1>6, <1>15, <4>1, <5>1
      <4> HIDE DEF Tried
      <4> QED BY <4>2, <4>3, <4>4
    <3> QED BY <3>1, <3>2
  <2> QED BY <2>1, <2>2, <2>3 DEF OnlyTriedIsStored
<1>17. SentInOrder'
  <2>1. sent \subseteq Range(stored) BY DEF QueueInv, SentInOrder
  <2>2. ASSUME NEW i \in 1..Len(enqueued'), NEW j \in 1..Len(enqueued'), i < j,
               enqueued'[i] \in sent, NEW m \in 1..Len(stored), stored[m] = enqueued'[j]
        PROVE  \E k \in 1..(m - 1) : stored[k] = enqueued'[i]
    <3>1. enqueued'[i] \in Range(stored) /\ enqueued'[j] \in Range(stored)
      BY SMTT(60), <2>1, <2>2 DEF Range, TypeOK
    <3>2. i \in 1..L /\ j \in 1..L BY <1>6, <1>15, <3>1
    <3>3. enqueued'[i] = enqueued[i] /\ enqueued'[j] = enqueued[j] BY <1>1, <3>2
    <3> QED BY <2>2, <3>2, <3>3 DEF QueueInv, SentInOrder
  <2> QED BY <1>4, <2>1, <2>2 DEF SentInOrder
<1> QED BY <1>9, <1>13, <1>14, <1>16, <1>17 DEF QueueInv

-----------------------------------------------------------------------------
(* Sending.                                                                 *)

\* The client may give up a request that is not stored: its event may turn up late.
GivesUpAtMost == \/ late' = late
                 \/ late' = late \cup {sending.event} /\ sending.event \notin Range(stored)

\* What a step that lets go of nothing has to show of the tried events.
LEMMA TriedAfter ==
  ASSUME TypeOK, QueueInv, ~Idle, GivesUpAtMost, UNCHANGED <<items, enqueued, stored>>,
         sending'.event = sending.event
  PROVE  OnlyTriedIsStored'
<1>1. PICK p \in 1..Start :
        /\ enqueued[p] = sending.event
        /\ \A j \in (p + 1)..Len(enqueued) : enqueued[j] \notin Range(stored) \cup late
  BY DEF QueueInv, OnlyTriedIsStored
<1>2. enqueued \in Seq(Events) /\ items \in Seq(Events) BY DEF TypeOK
<1>3. p \in 1..Len(enqueued) BY <1>2 DEF Start
<1>4. \A j \in (p + 1)..Len(enqueued) : enqueued[j] # sending.event
  BY <1>1, <1>2, <1>3 DEF QueueInv, QueueIsSuffix
<1>5. sending.event \in Range(enqueued) BY <1>1, <1>2, <1>3, RangeOfSeq
<1>6. Start' = Start BY DEF Start
<1>7. Range(stored)' = Range(stored) /\ Range(enqueued)' = Range(enqueued) OBVIOUS
<1>8. /\ Range(stored) \cup late' \subseteq Range(enqueued)
      /\ late' \cap Range(stored) = {}
      /\ \A j \in (p + 1)..Len(enqueued) : enqueued[j] \notin Range(stored) \cup late'
  BY <1>1, <1>4, <1>5 DEF GivesUpAtMost, QueueInv, OnlyTriedIsStored
<1> QED BY <1>1, <1>6, <1>7, <1>8 DEF OnlyTriedIsStored

\* The call goes on with the same event.
LEMMA SameCallKeepsQueue ==
  ASSUME TypeOK, QueueInv, ~Idle, GivesUpAtMost, sending'.event = sending.event,
         UNCHANGED <<items, enqueued, dropped, statVars, stored>>, CallIsConsistent'
  PROVE  QueueInv'
<1>1. UNCHANGED <<sent, failed>> BY DEF statVars
<1>2. QueueIsSuffix' BY DEF QueueInv, QueueIsSuffix, Start
<1>3. LetGoIsAccounted'
  BY <1>1 DEF QueueInv, LetGoIsAccounted, LetGo, Start, Current
<1>4. SentInOrder' BY <1>1 DEF QueueInv, SentInOrder
<1> QED BY <1>2, <1>3, <1>4, TriedAfter DEF QueueInv

\* The loop counts the event, and takes the next one off the queue.
LEMMA SettleKeepsQueue ==
  ASSUME TypeOK, QueueInv, ~Idle, GivesUpAtMost, NEW r, Settle(r),
         r = "ok" => sending.event \in Range(stored),
         UNCHANGED <<dropped, enqueued, stored>>
  PROVE  QueueInv'
<1> DEFINE L == Len(enqueued)
           e == sending.event
           Tried == Range(stored) \cup late
<1>1. PICK p \in 1..Start :
        enqueued[p] = e /\ \A j \in (p + 1)..L : enqueued[j] \notin Tried
  BY DEF QueueInv, OnlyTriedIsStored
<1>2. /\ enqueued \in Seq(Events) /\ items \in Seq(Events) /\ L \in Nat
      /\ Len(items) \in Nat /\ Len(items) <= L /\ Start = L - Len(items) /\ Start \in Nat
  BY DEF TypeOK, QueueInv, QueueIsSuffix, Start
<1>3. p \in 1..L BY <1>2
<1>4. \A i, j \in 1..L : enqueued[i] = enqueued[j] => i = j BY DEF QueueInv, QueueIsSuffix
<1>5. \A k \in 1..Len(items) : items[k] = enqueued[Start + k] BY DEF QueueInv, QueueIsSuffix
<1>6. /\ LetGo = sent \cup failed \cup dropped \cup Current /\ Current = {e}
      /\ e \notin sent \cup failed \cup dropped /\ e \in Events
      /\ sent \cap failed = {} /\ sent \cap dropped = {} /\ failed \cap dropped = {}
  BY DEF QueueInv, LetGoIsAccounted, CallIsConsistent, Current
<1>7. /\ sent' = (IF r = "ok" THEN sent \cup {e} ELSE sent)
      /\ failed' = (IF r # "ok" THEN failed \cup {e} ELSE failed)
      /\ TakeNext
  BY DEF Settle
<1>8. /\ sent' \cup failed' \cup dropped' = LetGo
      /\ sent' \cap failed' = {} /\ sent' \cap dropped' = {} /\ failed' \cap dropped' = {}
  BY <1>6, <1>7
<1>9. /\ Range(stored) \cup late' \subseteq Range(enqueued)
      /\ late' \cap Range(stored) = {}
      /\ \A j \in (p + 1)..L : enqueued[j] \notin Range(stored) \cup late'
  <2>1. e \in Range(enqueued) BY <1>1, <1>2, <1>3, RangeOfSeq
  <2>2. \A j \in (p + 1)..L : j \in 1..L /\ j # p BY <1>2, <1>3
  <2>3. \A j \in (p + 1)..L : enqueued[j] # e BY <1>1, <1>3, <1>4, <2>2
  <2> QED BY <1>1, <2>1, <2>3 DEF GivesUpAtMost, QueueInv, OnlyTriedIsStored
<1>10. SentInOrder'
  <2>1. sent' \subseteq Range(stored) BY <1>7 DEF QueueInv, SentInOrder
  <2>2. ASSUME NEW i \in 1..L, NEW j \in 1..L, i < j, enqueued[i] \in sent',
               NEW m \in 1..Len(stored), stored[m] = enqueued[j]
        PROVE  \E k \in 1..(m - 1) : stored[k] = enqueued[i]
    <3>1. CASE enqueued[i] \in sent BY <2>2, <3>1 DEF QueueInv, SentInOrder
    <3>2. CASE enqueued[i] = e
      <4>1. i = p BY <1>1, <1>3, <1>4, <3>2
      <4>2. enqueued[j] \in Range(stored) BY <2>2, RangeOfSeq DEF TypeOK
      <4>3. j \in (p + 1)..L BY <1>2, <2>2, <4>1
      <4> QED BY <1>1, <4>2, <4>3
    <3> QED BY <1>7, <2>2, <3>1, <3>2
  <2> QED BY SMTT(60), <2>1, <2>2 DEF SentInOrder
<1>11. CASE items = <<>>
  <2>1. sending' = NotSending /\ reply' = "none" /\ items' = items BY <1>7, <1>11 DEF TakeNext
  <2>2. Start' = Start /\ LetGo' = LetGo /\ Idle'
    BY <2>1 DEF Start, LetGo, Idle
  <2>3. sending'.event = NoEvent /\ Current' = {} /\ ~sending'.asleep
    BY <2>1 DEF Current, NotSending
  <2>4. NoEvent \notin sent' \cup failed' \cup dropped'
    <3>1. sent \subseteq Events /\ failed \subseteq Events /\ dropped \subseteq Events
      BY DEF TypeOK
    <3> QED BY <1>6, <1>7, <3>1
  <2>5. QueueIsSuffix' BY <2>1, <2>2 DEF QueueInv, QueueIsSuffix
  <2>6. LetGoIsAccounted' BY <1>8, <2>2, <2>3, <2>4 DEF LetGoIsAccounted
  <2>7. CallIsConsistent' BY <1>11, <2>1, <2>2, <2>3 DEF CallIsConsistent
  <2>8. OnlyTriedIsStored' BY <1>9, <2>2 DEF OnlyTriedIsStored
  <2> QED BY <1>10, <2>5, <2>6, <2>7, <2>8 DEF QueueInv
<1>12. CASE items # <<>>
  <2> DEFINE h == items[1]
  <2>1. /\ sending' = First(h) /\ reply' = "asked" /\ items' = Tail(items)
    BY <1>2, <1>7, <1>12 DEF TakeNext, Send
  <2>2. /\ Len(items') = Len(items) - 1 /\ items' \in Seq(Events) /\ Len(items) >= 1
        /\ \A k \in 1..Len(items') : items'[k] = items[k + 1]
    BY <1>2, <1>12, <2>1
  <2>3. Start' = Start + 1 /\ Start + 1 \in 1..L BY <1>2, <2>2 DEF Start
  <2>4. h = enqueued[Start + 1] /\ h \in Events
    <3>1. 1 \in 1..Len(items) BY <1>2, <2>2
    <3>2. h = enqueued[Start + 1] BY <1>5, <3>1
    <3>3. enqueued[Start + 1] \in Events BY <1>2, <2>3
    <3> QED BY <3>2, <3>3
  <2>5. sending'.event = h /\ ~sending'.asleep BY <2>1 DEF First
  <2>6. ~Idle' BY <2>4, <2>5 DEF Idle, NotSending
  <2>7. QueueIsSuffix'
    <3>1. ASSUME NEW k \in 1..Len(items') PROVE items'[k] = enqueued[Start + 1 + k]
      <4>1. k + 1 \in 1..Len(items) /\ Start + (k + 1) = Start + 1 + k BY <1>2, <2>2
      <4> QED BY <1>5, <2>2, <4>1
    <3> QED BY <1>2, <1>4, <2>2, <2>3, <3>1 DEF QueueIsSuffix
  <2>8. LetGo' = LetGo \cup {h}
    <3>1. \A k \in 1..(Start + 1) : k \in 1..Start \/ k = Start + 1 BY <1>2
    <3>2. (1..Start) \subseteq 1..(Start + 1) /\ Start + 1 \in 1..(Start + 1) BY <1>2
    <3> QED BY <2>3, <2>4, <3>1, <3>2 DEF LetGo
  <2>9. h \notin LetGo
    <3>1. \A k \in 1..Start : k \in 1..L /\ k # Start + 1 BY <1>2
    <3> QED BY <1>4, <2>3, <2>4, <3>1 DEF LetGo
  <2>10. Current' = {h} BY <2>4, <2>5 DEF Current
  <2>11. LetGoIsAccounted' BY <1>8, <2>5, <2>8, <2>9, <2>10 DEF LetGoIsAccounted
  <2>12. CallIsConsistent' BY <2>1, <2>4, <2>5, <2>6 DEF CallIsConsistent
  <2>13. OnlyTriedIsStored'
    <3>1. \A j \in (Start + 2)..L : j \in (p + 1)..L BY <1>2, <1>3
    <3>2. (Start + 1) + 1 = Start + 2 BY <1>2
    <3>3. \A j \in ((Start + 1) + 1)..L : enqueued[j] \notin Range(stored) \cup late'
      BY <1>9, <3>1, <3>2
    <3>4. Start + 1 \in 1..Start' BY <1>2, <2>3
    <3> QED BY <1>9, <2>4, <2>5, <3>3, <3>4 DEF OnlyTriedIsStored
  <2> QED BY <1>10, <2>7, <2>11, <2>12, <2>13 DEF QueueInv
<1> QED BY <1>11, <1>12

\* The ingestion API stores an event that has been tried.
LEMMA InsertKeepsQueue ==
  ASSUME TypeOK, QueueInv, NEW e \in late \cup Current, Insert(e), UNCHANGED <<queueVars, statVars>>,
         reply' = "ok" => reply = "ok" \/ sending.event = e,
         reply' = reply \/ ~Idle
  PROVE  QueueInv'
<1>1. UNCHANGED <<items, sending, dropped, enqueued, sent, failed>> BY DEF queueVars, statVars
<1>2. /\ stored \in Seq(Events) /\ enqueued \in Seq(Events) /\ items \in Seq(Events)
      /\ late \subseteq Events
  BY DEF TypeOK
<1>3. QueueIsSuffix' BY <1>1 DEF QueueInv, QueueIsSuffix, Start
<1>4. LetGoIsAccounted'
  BY <1>1 DEF QueueInv, LetGoIsAccounted, LetGo, Start, Current
<1>5. e \in Range(enqueued)
  <2>1. CASE e \in late BY <2>1 DEF QueueInv, OnlyTriedIsStored
  <2>2. CASE e \in Current
    <3>1. ~Idle /\ e = sending.event BY <2>2 DEF Current, Idle, NotSending
    <3>2. PICK p \in 1..Start : enqueued[p] = e BY <3>1 DEF QueueInv, OnlyTriedIsStored
    <3>3. p \in 1..Len(enqueued) BY <1>2 DEF Start
    <3> QED BY <1>2, <3>2, <3>3, RangeOfSeq
  <2> QED BY <2>1, <2>2
<1>6. e \in Events BY <1>2, <1>5, RangeOfSeq
<1>7. /\ Range(stored') = Range(stored) \cup {e}
      /\ \/ stored' = stored
         \/ /\ e \notin Range(stored) /\ stored' \in Seq(Events)
            /\ Len(stored') = Len(stored) + 1 /\ stored'[Len(stored) + 1] = e
            /\ \A k \in 1..Len(stored) : stored'[k] = stored[k]
  <2>1. CASE e \in Range(stored) BY <2>1 DEF Insert
  <2>2. CASE e \notin Range(stored)
    <3>1. stored' = Append(stored, e) BY <2>2 DEF Insert
    <3>2. /\ stored' \in Seq(Events) /\ Len(stored') = Len(stored) + 1
          /\ stored'[Len(stored) + 1] = e
          /\ \A k \in 1..Len(stored) : stored'[k] = stored[k]
      BY <1>2, <1>6, <3>1
    <3>3. \A k \in 1..Len(stored') : k \in 1..Len(stored) \/ k = Len(stored) + 1
      BY <1>2, <3>2
    <3>4. Len(stored) + 1 \in 1..Len(stored') /\ (1..Len(stored)) \subseteq 1..Len(stored')
      BY <1>2, <3>2
    <3>5. Range(stored') \subseteq Range(stored) \cup {e}
      <4> SUFFICES ASSUME NEW x \in Range(stored') PROVE x \in Range(stored) \cup {e}
        OBVIOUS
      <4>1. PICK k \in 1..Len(stored') : x = stored'[k] BY <3>2, RangeOfSeq
      <4>2. CASE k \in 1..Len(stored) BY <1>2, <3>2, <4>1, <4>2, RangeOfSeq
      <4> QED BY <3>2, <3>3, <4>1, <4>2
    <3>6. Range(stored) \cup {e} \subseteq Range(stored')
      <4> SUFFICES ASSUME NEW x \in Range(stored) PROVE x \in Range(stored')
        BY <3>2, <3>4, RangeOfSeq
      <4>1. PICK k \in 1..Len(stored) : x = stored[k] BY <1>2, RangeOfSeq
      <4> QED BY <3>2, <3>4, <4>1, RangeOfSeq
    <3> QED BY <2>2, <3>2, <3>5, <3>6
  <2> QED BY <2>1, <2>2
<1>8. CallIsConsistent'
  BY <1>1, <1>7 DEF QueueInv, CallIsConsistent, Idle
<1>9. late' = late \ {e} BY DEF Insert
<1>10. OnlyTriedIsStored'
  <2>1. Range(stored') \cup late' \subseteq Range(enqueued) /\ late' \cap Range(stored') = {}
    BY <1>5, <1>7, <1>9 DEF QueueInv, OnlyTriedIsStored
  <2>2. ASSUME ~Idle
        PROVE  \E p \in 1..Start :
                 /\ enqueued[p] = sending.event
                 /\ \A j \in (p + 1)..Len(enqueued) : enqueued[j] \notin Range(stored') \cup late'
    <3>1. PICK p \in 1..Start :
            /\ enqueued[p] = sending.event
            /\ \A j \in (p + 1)..Len(enqueued) : enqueued[j] \notin Range(stored) \cup late
      BY <2>2 DEF QueueInv, OnlyTriedIsStored
    <3>2. p \in 1..Len(enqueued) BY <1>2 DEF Start
    <3>3. \A j \in (p + 1)..Len(enqueued) : j \in 1..Len(enqueued) /\ j # p BY <1>2, <3>2
    <3>4. \A j \in (p + 1)..Len(enqueued) : enqueued[j] # sending.event
      BY <3>1, <3>2, <3>3 DEF QueueInv, QueueIsSuffix
    <3>5. \A j \in (p + 1)..Len(enqueued) : enqueued[j] # e BY <3>1, <3>4 DEF Current
    <3> QED BY <1>7, <1>9, <3>1, <3>5
  <2>3. Start' = Start /\ (Idle' <=> Idle) BY <1>1 DEF Start, Idle
  <2> QED BY <1>1, <2>1, <2>2, <2>3 DEF OnlyTriedIsStored
<1>11. SentInOrder'
  <2>1. sent \subseteq Range(stored') BY <1>7 DEF QueueInv, SentInOrder
  <2>2. ASSUME NEW i \in 1..Len(enqueued), NEW j \in 1..Len(enqueued), i < j,
               enqueued[i] \in sent, NEW m \in 1..Len(stored'), stored'[m] = enqueued[j]
        PROVE  \E k \in 1..(m - 1) : stored'[k] = enqueued[i]
    <3>1. CASE m \in 1..Len(stored)
      <4>1. stored'[m] = stored[m] BY <1>7, <3>1
      <4>2. PICK k \in 1..(m - 1) : stored[k] = enqueued[i]
        BY <2>2, <3>1, <4>1 DEF QueueInv, SentInOrder
      <4>3. k \in 1..Len(stored) BY <1>2, <3>1
      <4>4. stored'[k] = stored[k] BY <1>7, <4>3
      <4> QED BY <4>2, <4>4
    <3>2. CASE m \notin 1..Len(stored)
      <4>1. m = Len(stored) + 1 BY <1>2, <1>7, <2>2, <3>2
      <4>2. enqueued[i] \in Range(stored) BY <2>2 DEF QueueInv, SentInOrder
      <4>3. PICK k \in 1..Len(stored) : stored[k] = enqueued[i] BY <1>2, <4>2, RangeOfSeq
      <4>4. k \in 1..(m - 1) /\ stored'[k] = stored[k] BY <1>2, <1>7, <4>1, <4>3
      <4> QED BY <4>3, <4>4
    <3> QED BY <3>1, <3>2
  <2>3. enqueued' = enqueued /\ sent' = sent BY <1>1
  <2> HIDE BurstsAssumption, SizeAssumption
  <2>4. \A i, j \in 1..Len(enqueued') : i < j /\ enqueued'[i] \in sent' =>
          \A m \in 1..Len(stored') : stored'[m] = enqueued'[j] =>
            \E k \in 1..(m - 1) : stored'[k] = enqueued'[i]
    BY <2>2, <2>3
  <2> QED BY <2>1, <2>3, <2>4, Zenon DEF SentInOrder
<1> QED BY <1>3, <1>4, <1>8, <1>10, <1>11 DEF QueueInv

-----------------------------------------------------------------------------
(* What is enqueued is new.                                                 *)

\* The events of two callbacks, and their attachments, have nothing in common.
LEMMA Sources ==
  ASSUME NEW i \in 1..Len(Bursts), NEW k \in 1..Len(Bursts)
  PROVE  /\ Bursts[i] \in Seq(Events) \ {<<>>} /\ Attachments[i] \in Seq(Events)
         /\ i # k => /\ Range(Bursts[i]) \cap Range(Bursts[k]) = {}
                     /\ Range(Attachments[i]) \cap Range(Attachments[k]) = {}
         /\ Range(Bursts[i]) \cap Range(Attachments[k]) = {}
         /\ RunEnd \notin Range(Bursts[i]) /\ RunEnd \notin Range(Attachments[i])
         /\ \A j, l \in 1..Len(Bursts[i]) : Bursts[i][j] = Bursts[i][l] => j = l
         /\ \A j, l \in 1..Len(Attachments[i]) : Attachments[i][j] = Attachments[i][l] => j = l
<1>1. \A m \in 1..Len(Bursts) : Bursts[m] \in Seq(Events) \ {<<>>} /\ Attachments[m] \in Seq(Events)
  OBVIOUS
<1>2. i # k => Range(Bursts[i]) \cap Range(Bursts[k]) = {}
  <2> SUFFICES ASSUME i # k, NEW x \in Range(Bursts[i]), x \in Range(Bursts[k]) PROVE FALSE
    OBVIOUS
  <2>1. PICK j \in 1..Len(Bursts[i]) : x = Bursts[i][j] BY <1>1, RangeOfSeq
  <2>2. PICK l \in 1..Len(Bursts[k]) : x = Bursts[k][l] BY <1>1, RangeOfSeq
  <2>3. Bursts[i][j] = Bursts[k][l] => i = k BY DistinctAssumption
  <2> QED BY <2>1, <2>2, <2>3
<1>3. i # k => Range(Attachments[i]) \cap Range(Attachments[k]) = {}
  <2> SUFFICES ASSUME i # k, NEW x \in Range(Attachments[i]), x \in Range(Attachments[k])
               PROVE  FALSE
    OBVIOUS
  <2>1. PICK j \in 1..Len(Attachments[i]) : x = Attachments[i][j] BY <1>1, RangeOfSeq
  <2>2. PICK l \in 1..Len(Attachments[k]) : x = Attachments[k][l] BY <1>1, RangeOfSeq
  <2>3. Attachments[i][j] = Attachments[k][l] => i = k BY DistinctAssumption
  <2> QED BY <2>1, <2>2, <2>3
<1>4. /\ Range(Bursts[i]) \cap Range(Attachments[k]) = {}
      /\ RunEnd \notin Range(Bursts[i]) \cup Range(Attachments[i])
  BY DistinctAssumption
<1>5. \A j, l \in 1..Len(Bursts[i]) : Bursts[i][j] = Bursts[i][l] => j = l
  BY DistinctAssumption
<1>6. \A j, l \in 1..Len(Attachments[i]) : Attachments[i][j] = Attachments[i][l] => j = l
  BY DistinctAssumption
<1> QED BY <1>1, <1>2, <1>3, <1>4, <1>5, <1>6

LEMMA EnqueueRange ==
  ASSUME TypeOK, NEW b \in Seq(Events) \ {<<>>}, Enqueue(b)
  PROVE  \A x \in Range(enqueued') : x \in Range(enqueued) \/ x \in Range(b)
<1>1. enqueued \in Seq(Events) /\ enqueued' = enqueued \o b BY DEF TypeOK, Enqueue
<1> SUFFICES ASSUME NEW x \in Range(enqueued') PROVE x \in Range(enqueued) \/ x \in Range(b)
  OBVIOUS
<1>2. enqueued' \in Seq(Events) /\ Len(enqueued') = Len(enqueued) + Len(b) BY <1>1
<1>3. PICK k \in 1..Len(enqueued') : x = enqueued'[k] BY <1>2, RangeOfSeq
<1>4. CASE k <= Len(enqueued)
  <2>1. k \in 1..Len(enqueued) /\ x = enqueued[k] BY <1>1, <1>2, <1>3, <1>4
  <2> QED BY <1>1, <2>1, RangeOfSeq
<1>5. CASE k > Len(enqueued)
  <2>1. k - Len(enqueued) \in 1..Len(b) /\ x = b[k - Len(enqueued)]
    BY <1>1, <1>2, <1>3, <1>5
  <2> QED BY <2>1, RangeOfSeq
<1> QED BY <1>1, <1>2, <1>4, <1>5

\* What the callbacks have made so far is not what the next one makes.
LEMMA NextIsNew ==
  ASSUME TypeOK, StillToCome, next <= Len(Bursts), NEW e
  PROVE  /\ FromBurst(e) => e \notin Range(Bursts[next]) /\ e \notin Range(Attachments[next])
         /\ FromAttachment(e) => e \notin Range(Bursts[next]) /\ e \notin Range(Attachments[next])
         /\ FromBurst(e) \/ FromAttachment(e) => e # RunEnd
         /\ FromBurst(e) => ~FromAttachment(e)
<1>1. next \in 1..Len(Bursts) BY DEF TypeOK
<1>2. ASSUME NEW i \in 1..(next - 1) PROVE i \in 1..Len(Bursts) /\ i # next BY <1>1
<1> QED BY <1>1, <1>2, Sources DEF FromBurst, FromAttachment

LEMMA RunEndIsNew ==
  ASSUME TypeOK, NEW e, FromBurst(e) \/ FromAttachment(e)
  PROVE  e # RunEnd
<1>1. ASSUME NEW i \in 1..(next - 1) PROVE i \in 1..Len(Bursts) BY DEF TypeOK
<1> QED BY <1>1, Sources DEF FromBurst, FromAttachment

\* A callback enqueues its burst, and sets its attachments going.
LEMMA CallbackIsFresh ==
  ASSUME TypeOK, StillToCome, Callback
  PROVE  Bursts[next] \in Seq(Events) \ {<<>>} /\ Fresh(Bursts[next]) /\ StillToCome'
<1> DEFINE b == Bursts[next]
           a == Attachments[next]
<1>1. /\ next \in 1..Len(Bursts) /\ next <= Len(Bursts) /\ phase = "running" /\ phase' = phase
      /\ Enqueue(b) /\ next' = next + 1
      /\ uploads' = IF a = <<>> THEN uploads ELSE uploads \cup {a}
  BY DEF Callback, TypeOK
<1>2. /\ b \in Seq(Events) \ {<<>>} /\ a \in Seq(Events)
      /\ \A j, l \in 1..Len(b) : b[j] = b[l] => j = l
      /\ \A j, l \in 1..Len(a) : a[j] = a[l] => j = l
      /\ Range(b) \cap Range(a) = {}
  BY <1>1, Sources
<1>3. \A e \in Range(enqueued) : FromBurst(e) \/ FromAttachment(e)
  BY <1>1 DEF StillToCome
<1>4. \A e \in Range(enqueued) : e \notin Range(b) /\ e \notin Range(a)
  BY <1>1, <1>3, NextIsNew
<1>5. \A k \in 1..Len(b) : b[k] \in Range(b) BY <1>2, RangeOfSeq
<1>6. \A k \in 1..Len(a) : a[k] \in Range(a) BY <1>2, RangeOfSeq
<1>7. Fresh(b) BY <1>2, <1>4, <1>5 DEF Fresh
<1>8. \A e \in Range(enqueued') : e \in Range(enqueued) \/ e \in Range(b)
  BY <1>1, <1>2, EnqueueRange
<1>9. /\ \A e : FromBurst(e) => FromBurst(e)'
      /\ \A e : FromAttachment(e) => FromAttachment(e)'
      /\ \A e \in Range(b) : FromBurst(e)'
      /\ \A e \in Range(a) : FromAttachment(e)'
  <2>1. next \in 1..(next' - 1) /\ \A i \in 1..(next - 1) : i \in 1..(next' - 1) BY <1>1
  <2> QED BY <2>1 DEF FromBurst, FromAttachment
<1>10. \A u \in uploads' : u \in uploads \/ u = a BY <1>1
<1>11. \A e \in Range(enqueued') : FromBurst(e)' \/ FromAttachment(e)'
  BY <1>3, <1>8, <1>9
<1>12. ASSUME NEW u \in uploads', NEW j \in 1..Len(u), NEW l \in 1..Len(u)
       PROVE  /\ FromAttachment(u[j])' /\ u[j] \notin Range(enqueued')
              /\ u[j] = u[l] => j = l
  <2>1. CASE u \in uploads
    <3>1. /\ FromAttachment(u[j]) /\ u[j] \notin Range(enqueued)
          /\ u[j] = u[l] => j = l
      BY <2>1 DEF StillToCome
    <3>2. u[j] \notin Range(b) BY <1>1, <3>1, NextIsNew
    <3> QED BY <1>8, <1>9, <3>1, <3>2
  <2>2. CASE u = a BY <1>2, <1>4, <1>6, <1>8, <1>9, <2>2
  <2> QED BY <1>10, <2>1, <2>2
<1>13. ASSUME NEW u \in uploads', NEW v \in uploads', u # v
       PROVE  Range(u) \cap Range(v) = {}
  <2>1. ASSUME NEW w \in uploads PROVE Range(w) \cap Range(a) = {}
    <3>1. w \in Seq(Events) BY DEF TypeOK
    <3>2. \A x \in Range(w) : FromAttachment(x) BY <3>1, RangeOfSeq DEF StillToCome
    <3> QED BY <1>1, <3>2, NextIsNew
  <2>2. CASE u \in uploads /\ v \in uploads BY <1>13, <2>2 DEF StillToCome
  <2> QED BY <1>10, <1>13, <2>1, <2>2
<1> QED BY <1>2, <1>7, <1>11, <1>12, <1>13 DEF StillToCome

\* What is left of an upload.
LEMMA RestOfUpload ==
  ASSUME TypeOK, NEW u \in uploads, NEW v \in Rest(u)
  PROVE  \/ v \in uploads /\ v # u
         \/ /\ v = Tail(u) /\ v \in Seq(Events) \ {<<>>} /\ Len(v) = Len(u) - 1
            /\ \A k \in 1..Len(v) : k + 1 \in 1..Len(u) /\ v[k] = u[k + 1]
<1>1. u \in Seq(Events) /\ u # <<>>
  <2>1. uploads \subseteq Seq(Events) \ {<<>>} BY DEF TypeOK
  <2> QED BY <2>1
<1>2. ASSUME NEW w \in Seq(Events), Len(w) > 1, v = Tail(w)
      PROVE  /\ v \in Seq(Events) /\ Len(v) = Len(w) - 1 /\ v # <<>>
             /\ \A k \in 1..Len(v) : k + 1 \in 1..Len(w) /\ v[k] = w[k + 1]
  <2>1. v \in Seq(Events) /\ Len(v) = Len(w) - 1 BY <1>2, SMTT(60)
  <2>2. Len(v) > 0 BY <1>2, <2>1
  <2>3. v # <<>>
    <3> SUFFICES ASSUME v = <<>> PROVE FALSE OBVIOUS
    <3>1. Len(v) = 0 BY SMTT(60)
    <3> QED BY <2>2, <3>1
  <2>4. \A k \in 1..Len(v) : k + 1 \in 1..Len(w) BY <2>1
  <2>5. \A k \in 1..Len(v) : v[k] = w[k + 1] BY <1>2, <2>1
  <2> QED BY <2>1, <2>3, <2>4, <2>5
<1>3. CASE v = Tail(u) /\ Len(u) > 1 BY <1>1, <1>2, <1>3
<1>4. CASE v \in uploads /\ v # u BY <1>4
<1> QED BY <1>3, <1>4 DEF Rest

\* An upload is over: what is left of it, and the others, stay new.
LEMMA RestIsNew ==
  ASSUME TypeOK, StillToCome, NEW u \in uploads, uploads' = Rest(u), UNCHANGED next,
         phase' = phase,
         \A x \in Range(enqueued') : x \in Range(enqueued) \/ x = u[1]
  PROVE  StillToCome'
<1>1. u \in Seq(Events) /\ Len(u) \in Nat \ {0} /\ 1 \in 1..Len(u) BY DEF TypeOK
<1>2. /\ \A j, l \in 1..Len(u) : u[j] = u[l] => j = l
      /\ \A j \in 1..Len(u) : FromAttachment(u[j]) /\ u[j] \notin Range(enqueued)
  BY DEF StillToCome
<1>3. \A e : (FromBurst(e)' <=> FromBurst(e)) /\ (FromAttachment(e)' <=> FromAttachment(e))
  BY DEF FromBurst, FromAttachment
<1>4. \A e \in Range(enqueued') :
        FromBurst(e)' \/ FromAttachment(e)' \/ (e = RunEnd /\ phase' # "running")
  BY <1>1, <1>2, <1>3 DEF StillToCome
<1>5. ASSUME NEW v \in uploads, v # u, NEW x \in Range(v)
      PROVE  FromAttachment(x) /\ x \notin Range(enqueued')
  <2>1. v \in Seq(Events) BY DEF TypeOK
  <2>2. FromAttachment(x) /\ x \notin Range(enqueued)
    BY <2>1, RangeOfSeq DEF StillToCome
  <2>3. x # u[1] BY <1>1, <1>5, RangeOfSeq DEF StillToCome
  <2> QED BY <2>2, <2>3
<1>6. ASSUME NEW v \in uploads', NEW j \in 1..Len(v), NEW l \in 1..Len(v)
      PROVE  /\ FromAttachment(v[j])' /\ v[j] \notin Range(enqueued')
             /\ v[j] = v[l] => j = l
  <2>1. CASE v \in uploads /\ v # u
    <3>1. v \in Seq(Events) BY <2>1 DEF TypeOK
    <3>2. v[j] = v[l] => j = l BY <2>1 DEF StillToCome
    <3> QED BY <1>3, <1>5, <2>1, <3>1, <3>2, RangeOfSeq
  <2>2. CASE /\ Len(v) = Len(u) - 1
             /\ \A k \in 1..Len(v) : k + 1 \in 1..Len(u) /\ v[k] = u[k + 1]
    <3>1. v[j] = u[j + 1] /\ v[l] = u[l + 1] /\ j + 1 \in 1..Len(u) /\ l + 1 \in 1..Len(u)
      BY <2>2
    <3>2. u[j + 1] # u[1]
      <4>1. j + 1 # 1 OBVIOUS
      <4> QED BY <1>1, <1>2, <3>1, <4>1
    <3>3. v[j] = v[l] => j = l
      <4>1. v[j] = v[l] => j + 1 = l + 1 BY <1>2, <3>1
      <4> QED BY <4>1
    <3> QED BY <1>2, <1>3, <3>1, <3>2, <3>3
  <2> QED BY <2>1, <2>2, RestOfUpload
<1>7. ASSUME NEW v \in uploads', NEW w \in uploads', v # w
      PROVE  Range(v) \cap Range(w) = {}
  <2>1. ASSUME NEW x \in uploads'
        PROVE  \/ x \in uploads /\ x # u
               \/ x = Tail(u) /\ Range(x) \subseteq Range(u)
    <3>1. CASE x \in uploads /\ x # u BY <3>1
    <3>2. CASE /\ x = Tail(u) /\ x \in Seq(Events)
               /\ \A k \in 1..Len(x) : k + 1 \in 1..Len(u) /\ x[k] = u[k + 1]
      <4> SUFFICES ASSUME NEW e \in Range(x) PROVE e \in Range(u) BY <3>2
      <4>1. PICK k \in 1..Len(x) : e = x[k] BY <3>2, RangeOfSeq
      <4> QED BY <1>1, <3>2, <4>1, RangeOfSeq
    <3> QED BY <2>1, <3>1, <3>2, RestOfUpload
  <2>2. \A x, y \in uploads : x # y => Range(x) \cap Range(y) = {} BY DEF StillToCome
  <2> QED BY <1>7, <2>1, <2>2
<1> QED BY <1>4, <1>6, <1>7 DEF StillToCome

-----------------------------------------------------------------------------
(* The steps.                                                               *)

LEMMA IInvInit == Init => IInv
<1> SUFFICES ASSUME Init PROVE IInv OBVIOUS
<1>1. /\ <<>> \in Seq(Events) /\ Len(<<>>) = 0 /\ Range(<<>>) = {}
  BY DEF Range
<1>2. TypeOK
  <2>1. /\ phase = "running" /\ next = 1 /\ uploads = {} /\ flushed = FALSE
        /\ items = <<>> /\ sending = NotSending /\ dropped = {} /\ enqueued = <<>>
        /\ sent = {} /\ failed = {} /\ reply = "none" /\ late = {} /\ stored = <<>>
    BY DEF Init
  <2>2. next \in 1..(Len(Bursts) + 1)
    <3>1. Len(Bursts) \in Nat OBVIOUS
    <3> QED BY <2>1, <3>1
  <2>3. sending \in [event: Events \cup {NoEvent}, attempt: 0..MaxRetries, asleep: BOOLEAN]
    <3>1. 0 \in 0..MaxRetries OBVIOUS
    <3> QED BY <2>1, <3>1 DEF NotSending
  <2>4. items \in Seq(Events) /\ stored \in Seq(Events) /\ enqueued \in Seq(Events)
    BY <1>1, <2>1
  <2>5. Len(items) <= MaxQueueSize BY <1>1, <2>1
  <2> QED BY <2>1, <2>2, <2>3, <2>4, <2>5 DEF TypeOK
<1>3. QueueIsSuffix BY <1>1 DEF Init, QueueIsSuffix
<1>4. LetGo = {} /\ Current = {}
  BY <1>1 DEF Init, LetGo, Start, Current, NotSending
<1>5. LetGoIsAccounted BY <1>4 DEF Init, LetGoIsAccounted
<1>6. CallIsConsistent BY DEF Init, CallIsConsistent, Idle, NotSending
<1>7. OnlyTriedIsStored BY <1>1 DEF Init, OnlyTriedIsStored, Idle
<1>8. SentInOrder BY <1>1 DEF Init, SentInOrder
<1>9. StillToCome BY <1>1 DEF Init, StillToCome
<1>10. OnEndWaits BY DEF Init, OnEndWaits, DrainedIsSettled
<1> QED BY <1>2, <1>3, <1>5, <1>6, <1>7, <1>8, <1>9, <1>10 DEF IInv, QueueInv

\* The types of what enqueue() writes.
LEMMA EnqueueTypes ==
  ASSUME TypeOK, QueueInv, NEW b \in Seq(Events) \ {<<>>}, Enqueue(b)
  PROVE  /\ items' \in Seq(Events) /\ Len(items') <= MaxQueueSize
         /\ sending' \in [event: Events \cup {NoEvent}, attempt: 0..MaxRetries, asleep: BOOLEAN]
         /\ reply' \in {"none", "asked", "ok", "retryable", "refused"}
         /\ dropped' \subseteq Events
         /\ enqueued' \in Seq(Events)
<1>1. /\ enqueued' \in Seq(Events) /\ items' \in Seq(Events) /\ Len(items') <= MaxQueueSize
      /\ \/ /\ sending' = First(b[1]) /\ reply' = "asked"
            /\ dropped' = dropped \cup {enqueued'[k] : k \in (Start + 2)..Start'}
         \/ /\ UNCHANGED <<sending, reply>>
            /\ dropped' = dropped \cup {enqueued'[k] : k \in (Start + 1)..Start'}
  BY EnqueueKeepsTheEnd
<1>2. Start \in Nat /\ Start' \in Int /\ Start' <= Len(enqueued')
  BY <1>1 DEF Start, TypeOK, QueueInv, QueueIsSuffix
<1>3. \A k \in (Start + 1)..Start' : k \in 1..Len(enqueued') BY <1>1, <1>2
<1>4. \A k \in (Start + 2)..Start' : k \in (Start + 1)..Start' BY <1>2
<1>5. \A k \in (Start + 1)..Start' : enqueued'[k] \in Events BY <1>1, <1>3
<1>6. dropped' \subseteq Events
  <2> SUFFICES ASSUME NEW e \in dropped' PROVE e \in Events OBVIOUS
  <2>1. CASE e \in dropped BY <2>1 DEF TypeOK
  <2>2. CASE e \notin dropped
    <3>1. \E k \in (Start + 1)..Start' : e = enqueued'[k] BY <1>1, <1>4, <2>2
    <3> QED BY <1>5, <3>1
  <2> QED BY <2>1, <2>2
<1>7. First(b[1]) \in [event: Events \cup {NoEvent}, attempt: 0..MaxRetries, asleep: BOOLEAN]
  <2>1. b[1] \in Events OBVIOUS
  <2> QED BY <2>1 DEF First
<1> QED BY <1>1, <1>6, <1>7 DEF TypeOK

LEMMA CallbackInv == IInv /\ Callback => IInv'
<1> SUFFICES ASSUME IInv, Callback PROVE IInv' OBVIOUS
<1> USE DEF IInv
<1>1. /\ phase = "running" /\ next <= Len(Bursts) /\ Enqueue(Bursts[next]) /\ next' = next + 1
      /\ UNCHANGED <<phase, flushed, statVars, late, stored>>
      /\ \/ uploads' = uploads
         \/ Attachments[next] # <<>> /\ uploads' = uploads \cup {Attachments[next]}
  BY DEF Callback
<1>2. Bursts[next] \in Seq(Events) \ {<<>>} /\ Fresh(Bursts[next]) /\ StillToCome'
  BY CallbackIsFresh
<1>3. QueueInv' BY <1>1, <1>2, EnqueueKeepsQueue
<1>4. TypeOK'
  <2>1. next \in 1..Len(Bursts) BY <1>1 DEF TypeOK
  <2>2. Attachments[next] \in Seq(Events) BY <2>1
  <2>3. uploads' \subseteq Seq(Events) \ {<<>>} BY <1>1, <2>2 DEF TypeOK
  <2>4. next' \in 1..(Len(Bursts) + 1) BY <1>1, <2>1
  <2> QED BY <1>1, <1>2, <2>3, <2>4, EnqueueTypes DEF TypeOK, statVars
<1>5. OnEndWaits' BY <1>1 DEF OnEndWaits, DrainedIsSettled
<1> QED BY <1>2, <1>3, <1>4, <1>5

LEMMA UploadDoneInv ==
  ASSUME IInv, NEW u \in uploads, UploadDone(u)
  PROVE  IInv'
<1> USE DEF IInv
<1> DEFINE b == <<u[1]>>
<1>1. /\ Enqueue(<<Head(u)>>) /\ uploads' = Rest(u)
      /\ UNCHANGED <<phase, next, flushed, statVars, late, stored>>
  BY DEF UploadDone
<1>2. /\ u \in Seq(Events) /\ u # <<>> /\ Head(u) = u[1] /\ 1 \in 1..Len(u) /\ u[1] \in Events
  BY DEF TypeOK
<1>3. /\ b \in Seq(Events) \ {<<>>} /\ Len(b) = 1 /\ b[1] = u[1] /\ Enqueue(b)
      /\ \A k \in 1..Len(b) : k = 1
  BY <1>1, <1>2
<1>4. u[1] \notin Range(enqueued) BY <1>2 DEF StillToCome
<1> HIDE DEF b
<1>5. Fresh(b) BY <1>3, <1>4 DEF Fresh
<1>6. QueueInv' BY <1>1, <1>3, <1>5, EnqueueKeepsQueue
<1>7. \A x \in Range(enqueued') : x \in Range(enqueued) \/ x = u[1]
  <2>1. \A x \in Range(b) : x = u[1] BY <1>3, RangeOfSeq
  <2> QED BY <1>3, <2>1, EnqueueRange
<1>8. StillToCome' BY <1>1, <1>7, RestIsNew
<1>9. uploads' \subseteq Seq(Events) \ {<<>>} BY <1>1, RestOfUpload DEF TypeOK
<1>10. TypeOK' BY <1>1, <1>3, <1>9, EnqueueTypes DEF TypeOK, statVars
<1>11. OnEndWaits' BY <1>1 DEF OnEndWaits, DrainedIsSettled
<1> QED BY <1>6, <1>8, <1>10, <1>11

LEMMA UploadFailsInv ==
  ASSUME IInv, NEW u \in uploads, UploadFails(u)
  PROVE  IInv'
<1> USE DEF IInv
<1>1. /\ uploads' = Rest(u)
      /\ UNCHANGED <<phase, next, flushed, items, sending, dropped, enqueued, sent, failed,
                     reply, late, stored>>
  BY DEF UploadFails, queueVars, statVars, netVars
<1>2. StillToCome' BY <1>1, RestIsNew
<1>3. uploads' \subseteq Seq(Events) \ {<<>>} BY <1>1, RestOfUpload DEF TypeOK
<1>4. TypeOK' BY <1>1, <1>3 DEF TypeOK
<1>5. QueueInv'
  BY <1>1 DEF QueueInv, QueueIsSuffix, LetGoIsAccounted, CallIsConsistent, OnlyTriedIsStored,
     SentInOrder, Start, LetGo, Current, Idle
<1>6. OnEndWaits' BY <1>1 DEF OnEndWaits, DrainedIsSettled
<1> QED BY <1>2, <1>4, <1>5, <1>6

LEMMA OnEndInv == IInv /\ OnEnd => IInv'
<1> SUFFICES ASSUME IInv, OnEnd PROVE IInv' OBVIOUS
<1> USE DEF IInv
<1> DEFINE b == <<RunEnd>>
<1>1. /\ phase = "running" /\ Enqueue(b) /\ phase' = "settling"
      /\ UNCHANGED <<next, uploads, flushed, statVars, late, stored>>
  BY DEF OnEnd
<1>2. /\ b \in Seq(Events) \ {<<>>} /\ Len(b) = 1 /\ b[1] = RunEnd
      /\ \A k \in 1..Len(b) : k = 1
  OBVIOUS
<1>3. RunEnd \notin Range(enqueued) BY <1>1, RunEndIsNew DEF StillToCome
<1> HIDE DEF b
<1>4. Fresh(b) BY <1>2, <1>3 DEF Fresh
<1>5. QueueInv' BY <1>1, <1>2, <1>4, EnqueueKeepsQueue
<1>6. \A x \in Range(enqueued') : x \in Range(enqueued) \/ x = RunEnd
  <2>1. \A x \in Range(b) : x = RunEnd BY <1>2, RangeOfSeq
  <2> QED BY <1>1, <1>2, <2>1, EnqueueRange
<1>7. StillToCome'
  <2>1. \A e : (FromBurst(e)' <=> FromBurst(e)) /\ (FromAttachment(e)' <=> FromAttachment(e))
    BY <1>1 DEF FromBurst, FromAttachment
  <2>2. \A e : FromAttachment(e) => e # RunEnd BY RunEndIsNew
  <2> QED BY <1>1, <1>6, <2>1, <2>2 DEF StillToCome
<1>8. TypeOK' BY <1>1, <1>2, EnqueueTypes DEF TypeOK, statVars
<1>9. OnEndWaits' BY <1>1 DEF OnEndWaits, DrainedIsSettled
<1> QED BY <1>5, <1>7, <1>8, <1>9

\* A step of the phases alone.
LEMMA PhaseInv ==
  ASSUME IInv, phase # "running", phase' \in {"draining", "finished"}, flushed' \in BOOLEAN,
         UNCHANGED <<next, uploads, queueVars, statVars, netVars>>, OnEndWaits'
  PROVE  IInv'
<1> USE DEF IInv
<1>1. UNCHANGED <<items, sending, dropped, enqueued, sent, failed, reply, late, stored>>
  BY DEF queueVars, statVars, netVars
<1>2. TypeOK' BY <1>1 DEF TypeOK
<1>3. QueueInv'
  BY <1>1 DEF QueueInv, QueueIsSuffix, LetGoIsAccounted, CallIsConsistent, OnlyTriedIsStored,
     SentInOrder, Start, LetGo, Current, Idle
<1>4. \A e : (FromBurst(e)' <=> FromBurst(e)) /\ (FromAttachment(e)' <=> FromAttachment(e))
  BY DEF FromBurst, FromAttachment
<1>5. StillToCome' BY <1>1, <1>4 DEF StillToCome
<1> QED BY <1>2, <1>3, <1>5

LEMMA SettledInv == IInv /\ (ArtifactsSettled \/ FlushTimeout) => IInv'
<1>1. ASSUME IInv, ArtifactsSettled PROVE IInv'
  <2>1. /\ phase = "settling" /\ uploads = {}
        /\ phase' = IF NothingToSend THEN "finished" ELSE "draining"
        /\ UNCHANGED <<next, uploads, flushed, queueVars, statVars, netVars>>
    BY <1>1 DEF ArtifactsSettled
  <2>2. OnEndWaits'
    BY <1>1, <2>1 DEF IInv, OnEndWaits, DrainedIsSettled, NothingToSend, queueVars, Idle
  <2> QED BY <1>1, <2>1, <2>2, PhaseInv DEF IInv, TypeOK
<1>2. ASSUME IInv, FlushTimeout PROVE IInv'
  <2>1. /\ phase = "draining" /\ phase' = "finished" /\ flushed' = TRUE
        /\ UNCHANGED <<next, uploads, queueVars, statVars, netVars>>
    BY <1>2 DEF FlushTimeout, Draining
  <2>2. OnEndWaits' BY <1>2, <2>1 DEF IInv, OnEndWaits, DrainedIsSettled
  <2> QED BY <1>2, <2>1, <2>2, PhaseInv
<1> QED BY <1>1, <1>2

\* An attempt ends, with a reply or without.
LEMMA AttemptEndsInv ==
  ASSUME IInv, ~Idle, NEW r, AttemptEnds(r), r = "ok" => sending.event \in Range(stored),
         GivesUpAtMost
  PROVE  IInv'
<1> USE DEF IInv
<1>1. UNCHANGED <<next, uploads, flushed, dropped, enqueued, stored>> BY DEF AttemptEnds
<1>2. /\ sending \in [event: Events \cup {NoEvent}, attempt: 0..MaxRetries, asleep: BOOLEAN]
      /\ sending.event \in Events
  BY DEF TypeOK, QueueInv, CallIsConsistent
<1>3. late' \subseteq Events BY <1>2 DEF GivesUpAtMost, TypeOK
<1>4. CASE r = "retryable" /\ sending.attempt < MaxRetries
  <2>1. /\ sending' = [sending EXCEPT !.asleep = TRUE] /\ reply' = "none"
        /\ UNCHANGED <<phase, items, statVars>>
    BY <1>4 DEF AttemptEnds
  <2>2. /\ sending'.event = sending.event /\ sending'.attempt = sending.attempt
        /\ sending' \in [event: Events \cup {NoEvent}, attempt: 0..MaxRetries, asleep: BOOLEAN]
    BY <1>2, <2>1
  <2>3. ~Idle' BY <1>2, <2>2 DEF Idle, NotSending
  <2>4. CallIsConsistent' BY <1>2, <1>4, <2>1, <2>2, <2>3 DEF CallIsConsistent
  <2>5. QueueInv' BY <1>1, <2>1, <2>2, <2>4, SameCallKeepsQueue
  <2>6. TypeOK' BY <1>1, <1>3, <2>1, <2>2 DEF TypeOK, statVars
  <2>7. StillToCome' BY <1>1, <2>1 DEF StillToCome, FromBurst, FromAttachment
  <2>8. OnEndWaits' BY <1>1, <2>1 DEF OnEndWaits, DrainedIsSettled
  <2> QED BY <2>5, <2>6, <2>7, <2>8
<1>5. CASE ~(r = "retryable" /\ sending.attempt < MaxRetries)
  <2>1. Settle(r) BY <1>5 DEF AttemptEnds
  <2>2. QueueInv' BY <1>1, <2>1, SettleKeepsQueue
  <2>3. sent' \subseteq Events /\ failed' \subseteq Events
    BY <1>2, <2>1 DEF Settle, TypeOK
  <2>4. CASE items = <<>>
    <3>1. /\ sending' = NotSending /\ reply' = "none" /\ items' = items
          /\ phase' = IF Draining THEN "finished" ELSE phase
      BY <2>1, <2>4 DEF Settle, TakeNext
    <3>2. TypeOK' BY <1>1, <1>3, <2>3, <3>1 DEF TypeOK, NotSending
    <3>3. StillToCome'
      BY <1>1, <3>1 DEF StillToCome, FromBurst, FromAttachment, Draining
    <3>4. OnEndWaits'
      BY <1>1, <2>4, <3>1 DEF OnEndWaits, DrainedIsSettled, Draining, Idle, TypeOK
    <3> QED BY <2>2, <3>2, <3>3, <3>4
  <2>5. CASE items # <<>>
    <3>1. /\ sending' = First(Head(items)) /\ reply' = "asked" /\ items' = Tail(items)
          /\ phase' = phase
      BY <2>1, <2>5 DEF Settle, TakeNext, Send
    <3>2. /\ items \in Seq(Events) /\ Len(items) <= MaxQueueSize /\ Head(items) \in Events
          /\ items' \in Seq(Events) /\ Len(items') = Len(items) - 1
      BY <2>5, <3>1 DEF TypeOK
    <3>3. /\ sending' \in [event: Events \cup {NoEvent}, attempt: 0..MaxRetries, asleep: BOOLEAN]
          /\ Len(items') <= MaxQueueSize
      BY <3>1, <3>2 DEF First
    <3>4. TypeOK' BY <1>1, <1>3, <2>3, <3>1, <3>2, <3>3 DEF TypeOK
    <3>5. StillToCome' BY <1>1, <3>1 DEF StillToCome, FromBurst, FromAttachment
    <3>6. OnEndWaits' BY <1>1, <2>5, <3>1 DEF OnEndWaits, DrainedIsSettled
    <3> QED BY <2>2, <3>4, <3>5, <3>6
  <2> QED BY <2>4, <2>5
<1> QED BY <1>4, <1>5

LEMMA ClientInv == IInv /\ (ReceiveReply \/ AttemptTimesOut \/ Retry) => IInv'
<1> USE DEF IInv
<1>1. ASSUME IInv, ReceiveReply PROVE IInv'
  <2>1. /\ reply \in {"ok", "retryable", "refused"} /\ AttemptEnds(reply) /\ late' = late
    BY <1>1 DEF ReceiveReply
  <2>2. ~Idle /\ (reply = "ok" => sending.event \in Range(stored))
    BY <1>1, <2>1 DEF QueueInv, CallIsConsistent
  <2> QED BY <1>1, <2>1, <2>2, AttemptEndsInv DEF GivesUpAtMost
<1>2. ASSUME IInv, AttemptTimesOut PROVE IInv'
  <2>1. ~Idle /\ AttemptEnds("retryable") /\ GivesUpAtMost
    BY <1>2 DEF AttemptTimesOut, GivesUpAtMost
  <2> QED BY <1>2, <2>1, AttemptEndsInv
<1>3. ASSUME IInv, Retry PROVE IInv'
  <2>1. /\ sending.asleep /\ reply' = "asked"
        /\ sending' = [sending EXCEPT !.attempt = @ + 1, !.asleep = FALSE]
        /\ UNCHANGED <<callVars, statVars, items, dropped, enqueued, late, stored>>
    BY <1>3 DEF Retry
  <2>2. /\ sending \in [event: Events \cup {NoEvent}, attempt: 0..MaxRetries, asleep: BOOLEAN]
        /\ sending.attempt < MaxRetries /\ ~Idle /\ sending.event \in Events
    BY <1>3, <2>1 DEF TypeOK, QueueInv, CallIsConsistent, Idle, NotSending
  <2>3. /\ sending'.event = sending.event /\ ~sending'.asleep
        /\ sending' \in [event: Events \cup {NoEvent}, attempt: 0..MaxRetries, asleep: BOOLEAN]
    <3>1. sending.attempt \in 0..MaxRetries /\ MaxRetries \in Nat BY <2>2
    <3>2. sending.attempt + 1 \in 0..MaxRetries BY <2>2, <3>1
    <3>3. sending' = [event |-> sending.event, attempt |-> sending.attempt + 1,
                      asleep |-> FALSE]
      BY <2>1, <2>2
    <3> QED BY <2>2, <3>2, <3>3
  <2>4. ~Idle' BY <2>2, <2>3 DEF Idle, NotSending
  <2>5. CallIsConsistent' BY <2>1, <2>2, <2>3, <2>4 DEF CallIsConsistent
  <2>6. QueueInv' BY <1>3, <2>1, <2>2, <2>3, <2>5, SameCallKeepsQueue DEF GivesUpAtMost
  <2>7. TypeOK' BY <1>3, <2>1, <2>3 DEF TypeOK, callVars, statVars
  <2>8. StillToCome'
    BY <1>3, <2>1 DEF StillToCome, FromBurst, FromAttachment, callVars
  <2>9. OnEndWaits'
    BY <1>3, <2>1, <2>2 DEF OnEndWaits, DrainedIsSettled, callVars
  <2> QED BY <2>6, <2>7, <2>8, <2>9
<1> QED BY <1>1, <1>2, <1>3

LEMMA ApiInv == IInv /\ (Store \/ Refuse \/ \E e \in late : StoreLate(e)) => IInv'
<1> USE DEF IInv
<1>1. ASSUME IInv, NEW e \in late \cup Current, Insert(e),
             UNCHANGED <<callVars, queueVars, statVars>>,
             reply' = "ok" => reply = "ok" \/ sending.event = e,
             reply' = reply \/ ~Idle, reply' \in {"ok", reply}
      PROVE  IInv'
  <2>1. QueueInv' BY <1>1, InsertKeepsQueue
  <2>2. e \in Events BY <1>1 DEF Current, TypeOK
  <2>3. stored' \in Seq(Events) /\ late' \subseteq Events
    BY <1>1, <2>2 DEF Insert, TypeOK
  <2>4. TypeOK' BY <1>1, <2>3 DEF TypeOK, callVars, queueVars, statVars
  <2>5. StillToCome'
    BY <1>1 DEF StillToCome, FromBurst, FromAttachment, callVars, queueVars
  <2>6. OnEndWaits'
    BY <1>1 DEF OnEndWaits, DrainedIsSettled, callVars, queueVars, Idle
  <2> QED BY <2>1, <2>4, <2>5, <2>6
<1>2. ASSUME IInv, Store PROVE IInv'
  <2>1. ~Idle /\ sending.event \in Events
    BY <1>2 DEF Store, QueueInv, CallIsConsistent
  <2>2. sending.event \in Current BY <2>1 DEF Current
  <2>3. /\ Insert(sending.event) /\ reply' = "ok"
        /\ UNCHANGED <<callVars, queueVars, statVars>>
    BY <1>2 DEF Store
  <2>4. sending.event \in late \cup Current BY <2>2
  <2> QED BY <1>1, <1>2, <2>1, <2>3, <2>4
<1>3. ASSUME IInv, NEW e \in late, StoreLate(e) PROVE IInv'
  <2>1. /\ Insert(e) /\ reply' = reply
        /\ UNCHANGED <<callVars, queueVars, statVars>>
    BY <1>3 DEF StoreLate
  <2>2. e \in late \cup Current OBVIOUS
  <2> QED BY <1>1, <1>3, <2>1, <2>2
<1>4. ASSUME IInv, Refuse PROVE IInv'
  <2>1. /\ reply = "asked" /\ reply' \in {"retryable", "refused"}
        /\ UNCHANGED <<callVars, queueVars, statVars, late, stored>>
    BY <1>4 DEF Refuse
  <2>2. ~Idle BY <1>4, <2>1 DEF QueueInv, CallIsConsistent
  <2>3. UNCHANGED <<items, sending, dropped, enqueued>> BY <2>1 DEF queueVars
  <2>4. CallIsConsistent'
    BY <1>4, <2>1, <2>2, <2>3 DEF QueueInv, CallIsConsistent, Idle
  <2>5. QueueInv' BY <1>4, <2>1, <2>2, <2>3, <2>4, SameCallKeepsQueue DEF GivesUpAtMost
  <2>6. TypeOK' BY <1>4, <2>1, <2>3 DEF TypeOK, callVars, statVars
  <2>7. StillToCome'
    BY <1>4, <2>1, <2>3 DEF StillToCome, FromBurst, FromAttachment, callVars
  <2>8. OnEndWaits'
    BY <1>4, <2>1, <2>3 DEF OnEndWaits, DrainedIsSettled, callVars, Idle
  <2> QED BY <2>5, <2>6, <2>7, <2>8
<1> QED BY <1>2, <1>3, <1>4

LEMMA IInvNext == IInv /\ [Next]_vars => IInv'
<1> SUFFICES ASSUME IInv, [Next]_vars PROVE IInv' OBVIOUS
<1>1. CASE Next
  <2>1. CASE Callback BY <2>1, CallbackInv
  <2>2. CASE OnEnd BY <2>2, OnEndInv
  <2>3. CASE ArtifactsSettled \/ FlushTimeout BY <2>3, SettledInv
  <2>4. CASE \E u \in uploads : UploadDone(u) \/ UploadFails(u)
    <3>1. PICK u \in uploads : UploadDone(u) \/ UploadFails(u) BY <2>4
    <3>2. CASE UploadDone(u) BY <3>2, UploadDoneInv
    <3>3. CASE UploadFails(u) BY <3>3, UploadFailsInv
    <3> QED BY <3>1, <3>2, <3>3
  <2>5. CASE ReceiveReply \/ AttemptTimesOut \/ Retry BY <2>5, ClientInv
  <2>6. CASE Store \/ Refuse \/ \E e \in late : StoreLate(e) BY <2>6, ApiInv
  <2> QED BY <1>1, <2>1, <2>2, <2>3, <2>4, <2>5, <2>6 DEF Next
<1>2. CASE UNCHANGED vars
  <2>1. UNCHANGED <<phase, next, uploads, flushed, items, sending, dropped, enqueued,
                    sent, failed, reply, late, stored>>
    BY <1>2 DEF vars, callVars, queueVars, statVars, netVars
  <2>2. TypeOK' BY <2>1 DEF IInv, TypeOK
  <2>3. QueueIsSuffix' BY <2>1 DEF IInv, QueueInv, QueueIsSuffix, Start
  <2>4. LetGoIsAccounted'
    BY <2>1 DEF IInv, QueueInv, LetGoIsAccounted, LetGo, Start, Current
  <2>5. CallIsConsistent' BY <2>1 DEF IInv, QueueInv, CallIsConsistent, Idle
  <2>6. OnlyTriedIsStored' BY <2>1 DEF IInv, QueueInv, OnlyTriedIsStored, Start, Idle
  <2>7. SentInOrder' BY <2>1 DEF IInv, QueueInv, SentInOrder
  <2>8. StillToCome' BY <2>1 DEF IInv, StillToCome, FromBurst, FromAttachment
  <2>9. OnEndWaits' BY <2>1 DEF IInv, OnEndWaits, DrainedIsSettled, Idle
  <2> QED BY <2>2, <2>3, <2>4, <2>5, <2>6, <2>7, <2>8, <2>9 DEF IInv, QueueInv
<1> QED BY <1>1, <1>2

-----------------------------------------------------------------------------
(* The theorems.                                                            *)

LEMMA Invariant == Spec => []IInv
BY IInvInit, IInvNext, PTL DEF Spec

\* Every variable of the reporter keeps its type; the queue is never longer than its size.
THEOREM TypesKept == Spec => []TypeOK
<1>1. IInv => TypeOK BY DEF IInv
<1> QED BY <1>1, Invariant, PTL

\* However the callbacks, the uploads, the replies and the timeouts fall together: each
\* event that was enqueued is in the queue, being sent, sent, failed or dropped, and in
\* one of these only.
THEOREM NothingGoesMissing == Spec => []EveryEventAccounted
<1>1. IInv => EveryEventAccounted
  <2> SUFFICES ASSUME IInv PROVE EveryEventAccounted OBVIOUS
  <2> USE DEF IInv, QueueInv
  <2>1. /\ items \in Seq(Events) /\ enqueued \in Seq(Events) /\ Start \in Nat
        /\ Start + Len(items) = Len(enqueued)
    BY DEF TypeOK, QueueIsSuffix, Start
  <2>2. Range(enqueued) = LetGo \cup Range(items)
    <3>1. ASSUME NEW x \in Range(enqueued) PROVE x \in LetGo \cup Range(items)
      <4>1. PICK k \in 1..Len(enqueued) : x = enqueued[k] BY <2>1, RangeOfSeq
      <4>2. CASE k \in 1..Start BY <4>1, <4>2 DEF LetGo
      <4>3. CASE k \notin 1..Start
        <5>1. k - Start \in 1..Len(items) /\ Start + (k - Start) = k BY <2>1, <4>3
        <5>2. items[k - Start] = enqueued[k] BY <5>1 DEF QueueIsSuffix
        <5> QED BY <2>1, <4>1, <5>1, <5>2, RangeOfSeq
      <4> QED BY <4>2, <4>3
    <3>2. ASSUME NEW x \in LetGo PROVE x \in Range(enqueued)
      <4>1. PICK k \in 1..Start : x = enqueued[k] BY DEF LetGo
      <4>2. k \in 1..Len(enqueued) BY <2>1
      <4> QED BY <2>1, <4>1, <4>2, RangeOfSeq
    <3>3. ASSUME NEW x \in Range(items) PROVE x \in Range(enqueued)
      <4>1. PICK k \in 1..Len(items) : x = items[k] BY <2>1, RangeOfSeq
      <4>2. Start + k \in 1..Len(enqueued) /\ x = enqueued[Start + k]
        BY <2>1, <4>1 DEF QueueIsSuffix
      <4> QED BY <2>1, <4>2, RangeOfSeq
    <3> QED BY <3>1, <3>2, <3>3
  <2>3. LetGo \cap Range(items) = {}
    <3> SUFFICES ASSUME NEW x \in LetGo, x \in Range(items) PROVE FALSE OBVIOUS
    <3>1. PICK k \in 1..Start : x = enqueued[k] BY DEF LetGo
    <3>2. PICK j \in 1..Len(items) : x = items[j] BY <2>1, RangeOfSeq
    <3>3. x = enqueued[Start + j] BY <3>2 DEF QueueIsSuffix
    <3>4. k \in 1..Len(enqueued) /\ Start + j \in 1..Len(enqueued) /\ k # Start + j
      BY <2>1
    <3> QED BY <3>1, <3>3, <3>4 DEF QueueIsSuffix
  <2>4. LetGo = sent \cup failed \cup dropped \cup Current BY DEF LetGoIsAccounted
  <2>5. /\ sent \cap failed = {} /\ sent \cap dropped = {} /\ failed \cap dropped = {}
        /\ Current \cap (sent \cup failed \cup dropped) = {}
    BY DEF LetGoIsAccounted, Current
  <2>6. /\ Outcomes[1] = sent /\ Outcomes[2] = failed /\ Outcomes[3] = dropped
        /\ Outcomes[4] = Range(items) /\ Outcomes[5] = Current
    BY DEF Outcomes, Current
  <2>7. \A i \in 1..5 : i = 1 \/ i = 2 \/ i = 3 \/ i = 4 \/ i = 5 OBVIOUS
  <2>8. UNION {Outcomes[i] : i \in 1..5} = LetGo \cup Range(items)
    <3>1. 1 \in 1..5 /\ 2 \in 1..5 /\ 3 \in 1..5 /\ 4 \in 1..5 /\ 5 \in 1..5 OBVIOUS
    <3>2. {Outcomes[i] : i \in 1..5} = {sent, failed, dropped, Range(items), Current}
      BY <2>6, <2>7, <3>1
    <3> QED BY <2>4, <3>2
  <2>9. \A i, j \in 1..5 : i # j => Outcomes[i] \cap Outcomes[j] = {}
    BY <2>3, <2>4, <2>5, <2>6, <2>7
  <2> QED BY <2>2, <2>8, <2>9 DEF EveryEventAccounted, CallIsConsistent
<1> QED BY <1>1, Invariant, PTL

\* What the reporter counts as sent is stored, and before all that was enqueued after it,
\* although requests are retried and those that were given up may be served late.
THEOREM OrderIsKept == Spec => []SentInOrder
<1>1. IInv => SentInOrder BY DEF IInv, QueueInv
<1> QED BY <1>1, Invariant, PTL

\* onEnd that resolves before its timeout leaves no upload, no queued event and no call.
THEOREM DrainIsComplete == Spec => []DrainedIsSettled
<1>1. IInv => DrainedIsSettled BY DEF IInv, OnEndWaits
<1> QED BY <1>1, Invariant, PTL

-----------------------------------------------------------------------------
(* The events of a test.                                                      *)

\* What can be enqueued of a test.
Reported ==
  [type : {"test.start", "test.end"}, run : BOOLEAN, attempts : Seq(T!Statuses),
   status : {"pending", "passed", "failed", "flaky", "skipped"}]

TestsTyped ==
  /\ progress \in [Tests -> {"waiting", "running", "ended"}]
  /\ results \in [Tests -> Seq(T!Statuses)] /\ events \in [Tests -> Seq(Reported)]
  /\ stopped \in BOOLEAN /\ begun \in BOOLEAN /\ tracker = results

\* How far the attempts of a test and its events have come.
AttemptsFit(t) ==
  /\ progress[t] = "waiting" => results[t] = <<>> /\ events[t] = <<>>
  /\ progress[t] = "running" => Len(results[t]) <= Retries
  /\ progress[t] = "ended" => results[t] # <<>>
  /\ Len(results[t]) <= Retries + 1

StartsFirst(t) ==
  /\ progress[t] # "waiting" => events[t] # <<>>
  /\ \A i \in DOMAIN events[t] :
       events[t][i].type = IF i = 1 THEN "test.start" ELSE "test.end"

\* After the final attempt the last event has all attempts, and only a run that is stopped
\* interrupts one.
FinalIsReported(t) ==
  progress[t] = "ended" =>
    /\ T!IsFinalAttempt(T!Last(results[t]), Len(results[t]) - 1) => T!Complete(t)
    /\ ~stopped => T!Last(results[t]) # "interrupted"

TestsInv == TestsTyped /\ \A t \in Tests : AttemptsFit(t) /\ StartsFirst(t) /\ FinalIsReported(t)

\* The status of a test is one of four, whatever it has played.
LEMMA StatusOfPlayed ==
  ASSUME NEW t, NEW p PROVE T!Status(t, p) \in {"passed", "failed", "flaky", "skipped"}
<1>1. T!Outcome(t, p) \in {"skipped", "expected", "unexpected", "flaky"} BY Zenon DEF T!Outcome
<1> QED BY <1>1 DEF T!Status

LEMMA TestsBegin == T!ReporterTestsAssumption /\ T!Init => TestsInv
<1> SUFFICES ASSUME T!ReporterTestsAssumption, T!Init PROVE TestsInv OBVIOUS
<1>1. TestsTyped
  <2>1. <<>> \in Seq(T!Statuses) /\ <<>> \in Seq(Reported) OBVIOUS
  <2>2. /\ results = [t \in Tests |-> <<>>] /\ events = [t \in Tests |-> <<>>] /\ tracker = results
        /\ progress = [t \in Tests |-> "waiting"] /\ stopped = FALSE /\ begun = FALSE
    BY DEF T!Init
  <2> QED BY <2>1, <2>2, Zenon DEF TestsTyped
<1>2. ASSUME NEW t \in Tests PROVE AttemptsFit(t) /\ StartsFirst(t) /\ FinalIsReported(t)
  <2>1. progress[t] = "waiting" /\ results[t] = <<>> /\ events[t] = <<>> BY DEF T!Init
  <2>2. Len(results[t]) = 0 /\ DOMAIN events[t] = {} BY <2>1
  <2>3. AttemptsFit(t) BY <2>1, <2>2 DEF AttemptsFit, T!ReporterTestsAssumption
  <2>4. StartsFirst(t) BY <2>1, <2>2 DEF StartsFirst
  <2>5. FinalIsReported(t) BY <2>1 DEF FinalIsReported
  <2> QED BY <2>3, <2>4, <2>5
<1> QED BY <1>1, <1>2 DEF TestsInv

\* What is said of a test stands as long as nothing happens to it, and stays true when the run
\* is stopped.
LEMMA TestsApart ==
  ASSUME NEW t \in Tests, AttemptsFit(t), StartsFirst(t), FinalIsReported(t),
         progress'[t] = progress[t], results'[t] = results[t], events'[t] = events[t],
         stopped => stopped'
  PROVE  AttemptsFit(t)' /\ StartsFirst(t)' /\ FinalIsReported(t)'
<1>1. AttemptsFit(t)' BY DEF AttemptsFit
<1>2. StartsFirst(t)' BY DEF StartsFirst
<1>3. T!Complete(t) => T!Complete(t)' BY DEF T!Complete
<1>4. FinalIsReported(t)' BY <1>3 DEF FinalIsReported
<1> QED BY <1>1, <1>2, <1>4

LEMMA TestBegins ==
  ASSUME T!ReporterTestsAssumption, TestsInv, NEW t \in Tests, T!OnTestBegin(t)
  PROVE  TestsInv'
<1> USE DEF TestsTyped
<1>0. TestsTyped /\ Retries \in Nat BY DEF TestsInv, T!ReporterTestsAssumption
<1>1. /\ progress' = [progress EXCEPT ![t] = "running"] /\ UNCHANGED <<results, stopped, begun>>
      /\ Len(results[t]) \in Nat
  BY <1>0 DEF T!OnTestBegin
<1>2. AttemptsFit(t) /\ StartsFirst(t) BY DEF TestsInv
<1>3. CASE T!Retry(t) > 0
  <2>1. UNCHANGED <<tracker, events>> BY <1>3 DEF T!OnTestBegin
  <2>2. TestsTyped' BY <1>0, <1>1, <2>1
  <2>3. T!RunAgain(t) BY <1>1, <1>2, <1>3 DEF T!OnTestBegin, AttemptsFit, T!Retry
  <2>4. AttemptsFit(t)' /\ StartsFirst(t)' /\ FinalIsReported(t)'
    <3>1. progress[t] = "ended" /\ Len(results[t]) <= Retries BY <2>3 DEF T!RunAgain, T!Retry
    <3>2. progress'[t] = "running" /\ results'[t] = results[t] /\ events'[t] = events[t]
      BY <1>0, <1>1, <2>1
    <3> QED BY <1>0, <1>1, <1>2, <3>1, <3>2 DEF AttemptsFit, StartsFirst, FinalIsReported
  <2>5. ASSUME NEW u \in Tests, u # t
        PROVE  AttemptsFit(u)' /\ StartsFirst(u)' /\ FinalIsReported(u)'
    <3>1. progress'[u] = progress[u] BY <1>0, <1>1, <2>5
    <3> QED BY <1>1, <2>1, <3>1, TestsApart DEF TestsInv
  <2> QED BY <2>2, <2>4, <2>5 DEF TestsInv
<1>4. CASE ~(T!Retry(t) > 0)
  <2> DEFINE start == [type |-> "test.start", run |-> begun, status |-> "pending", attempts |-> <<>>]
  <2>1. results[t] = <<>> BY <1>0, <1>1, <1>4 DEF T!Retry
  <2>2. /\ events' = [events EXCEPT ![t] = Append(events[t], start)]
        /\ tracker' = [tracker EXCEPT ![t] = <<>>]
    BY <1>0, <1>4 DEF T!OnTestBegin, T!Enqueue
  <2>3. start \in Reported BY <1>0 DEF Reported
  <2>4. events[t] \in Seq(Reported) BY <1>0
  <2> HIDE DEF start
  <2>5. Append(events[t], start) \in Seq(Reported) BY <2>3, <2>4
  <2>6. TestsTyped' BY <1>0, <1>1, <2>1, <2>2, <2>5
  <2>7. progress[t] = "waiting" /\ events[t] = <<>>
    BY <1>1, <1>2, <1>4, <2>1 DEF T!OnTestBegin, T!RunAgain, AttemptsFit
  <2>8. events'[t] = <<start>> BY <1>0, <2>2, <2>7
  <2>9. AttemptsFit(t)' /\ StartsFirst(t)' /\ FinalIsReported(t)'
    <3>1. progress'[t] = "running" /\ results'[t] = results[t] BY <1>0, <1>1
    <3>2. AttemptsFit(t)' BY <1>0, <1>1, <2>1, <3>1 DEF AttemptsFit
    <3>3. DOMAIN <<start>> = {1} /\ <<start>>[1].type = "test.start" /\ <<start>> # <<>>
      BY DEF start
    <3>4. StartsFirst(t)' BY <2>8, <3>3 DEF StartsFirst
    <3>5. FinalIsReported(t)' BY <3>1 DEF FinalIsReported
    <3> QED BY <3>2, <3>4, <3>5
  <2>10. ASSUME NEW u \in Tests, u # t
         PROVE  AttemptsFit(u)' /\ StartsFirst(u)' /\ FinalIsReported(u)'
    <3>1. progress'[u] = progress[u] /\ events'[u] = events[u] BY <1>0, <1>1, <2>2, <2>10
    <3> QED BY <1>1, <3>1, TestsApart DEF TestsInv
  <2> QED BY <2>6, <2>9, <2>10 DEF TestsInv
<1> QED BY <1>3, <1>4

LEMMA TestEnds ==
  ASSUME T!ReporterTestsAssumption, TestsInv, NEW t \in Tests, NEW s \in T!Statuses,
         T!OnTestEnd(t, s)
  PROVE  TestsInv'
<1> USE DEF TestsTyped
<1> DEFINE all == Append(results[t], s)
           end == [type |-> "test.end", run |-> begun, status |-> T!Status(t, all),
                   attempts |-> all]
           final == T!IsFinalAttempt(s, Len(results[t]))
<1>0. TestsTyped /\ Retries \in Nat BY DEF TestsInv, T!ReporterTestsAssumption
<1>1. /\ progress[t] = "running" /\ (s = "interrupted" => stopped)
      /\ progress' = [progress EXCEPT ![t] = "ended"]
      /\ results' = [results EXCEPT ![t] = all] /\ UNCHANGED <<stopped, begun>>
  BY <1>0 DEF T!OnTestEnd
<1>2. tracker' = [tracker EXCEPT ![t] = all] BY <1>0 DEF T!OnTestEnd
<1>3. results[t] \in Seq(T!Statuses) /\ events[t] \in Seq(Reported) BY <1>0
<1>4. /\ all \in Seq(T!Statuses) /\ all # <<>> /\ T!Last(all) = s
      /\ Len(all) = Len(results[t]) + 1 /\ Len(results[t]) \in Nat
  <2>1. /\ all \in Seq(T!Statuses) /\ Len(results[t]) \in Nat /\ Len(all) = Len(results[t]) + 1
        /\ all[Len(results[t]) + 1] = s
    BY <1>3
  <2> HIDE DEF all
  <2>2. all # <<>> BY <2>1
  <2> QED BY <2>1, <2>2 DEF T!Last
<1>5. end \in Reported
  <2>1. T!Status(t, all) \in {"pending", "passed", "failed", "flaky", "skipped"}
    BY StatusOfPlayed, Zenon
  <2> HIDE DEF all
  <2> QED BY <1>0, <1>4, <2>1 DEF Reported
<1>6. final => events' = [events EXCEPT ![t] = Append(events[t], end)]
  BY <1>0 DEF T!OnTestEnd, T!Enqueue, T!Retry
<1>7. ~final => events' = events BY DEF T!OnTestEnd, T!Retry
<1> HIDE DEF all, end, final
<1>8. /\ Append(events[t], end) \in Seq(Reported) /\ T!Last(Append(events[t], end)) = end
      /\ Append(events[t], end) # <<>> /\ DOMAIN Append(events[t], end) = 1 .. Len(events[t]) + 1
      /\ Append(events[t], end)[Len(events[t]) + 1] = end /\ Len(events[t]) \in Nat
      /\ \A i \in DOMAIN events[t] : Append(events[t], end)[i] = events[t][i]
  <2> DEFINE longer == Append(events[t], end)
  <2>1. /\ longer \in Seq(Reported) /\ Len(events[t]) \in Nat /\ Len(longer) = Len(events[t]) + 1
        /\ DOMAIN longer = 1 .. Len(events[t]) + 1 /\ longer[Len(events[t]) + 1] = end
        /\ \A i \in DOMAIN events[t] : longer[i] = events[t][i]
    BY <1>3, <1>5
  <2> HIDE DEF longer
  <2>2. longer # <<>> /\ T!Last(longer) = end BY <2>1 DEF T!Last
  <2> QED BY <2>1, <2>2 DEF longer
<1>9. TestsTyped'
  <2>1. progress' \in [Tests -> {"waiting", "running", "ended"}] BY <1>0, <1>1
  <2>2. results' \in [Tests -> Seq(T!Statuses)] /\ tracker' = results'
    BY <1>0, <1>1, <1>2, <1>4
  <2>3. events' \in [Tests -> Seq(Reported)] BY <1>0, <1>6, <1>7, <1>8
  <2> QED BY <1>0, <1>1, <2>1, <2>2, <2>3
<1>10. /\ AttemptsFit(t) /\ StartsFirst(t)
       /\ progress'[t] = "ended" /\ results'[t] = all
       /\ final => events'[t] = Append(events[t], end)
       /\ ~final => events'[t] = events[t]
  BY <1>0, <1>1, <1>6, <1>7 DEF TestsInv
<1>11. AttemptsFit(t)'
  <2>1. Len(results[t]) <= Retries BY <1>1, <1>10 DEF AttemptsFit
  <2> QED BY <1>0, <1>4, <1>10, <2>1 DEF AttemptsFit
<1>12. StartsFirst(t)'
  <2>1. events[t] # <<>> BY <1>1, <1>10 DEF StartsFirst
  <2>2. CASE ~final BY <1>10, <2>1, <2>2 DEF StartsFirst
  <2>3. CASE final
    <3>1. Len(events[t]) > 0 /\ DOMAIN events[t] = 1 .. Len(events[t]) BY <1>3, <2>1
    <3>2. ASSUME NEW i \in 1 .. Len(events[t]) + 1
          PROVE  Append(events[t], end)[i].type = IF i = 1 THEN "test.start" ELSE "test.end"
      <4>1. CASE i \in DOMAIN events[t]
        <5>1. Append(events[t], end)[i] = events[t][i] BY <1>8, <4>1, Zenon
        <5> QED BY <1>10, <4>1, <5>1, Zenon DEF StartsFirst
      <4>2. CASE i = Len(events[t]) + 1
        <5>1. end.type = "test.end" BY DEF end
        <5>2. i # 1 BY <1>8, <3>1, <4>2
        <5>3. Append(events[t], end)[i] = end BY <1>8, <4>2, Zenon
        <5> QED BY <5>1, <5>2, <5>3, Zenon
      <4>3. i \in 1 .. Len(events[t]) \/ i = Len(events[t]) + 1
        <5>1. Len(events[t]) \in Nat BY <1>8
        <5> QED BY <5>1
      <4> QED BY <3>1, <4>1, <4>2, <4>3, Zenon
    <3> QED BY <1>8, <1>10, <2>3, <3>2 DEF StartsFirst
  <2> QED BY <2>2, <2>3
<1>13. FinalIsReported(t)'
  <2>1. T!Last(results'[t]) = s /\ Len(results'[t]) - 1 = Len(results[t]) BY <1>4, <1>10
  <2>2. final => T!Complete(t)'
    <3>1. end.type = "test.end" /\ end.attempts = all /\ end.status = T!Status(t, all)
      BY DEF end
    <3> QED BY <1>8, <1>10, <3>1 DEF T!Complete
  <2>3. T!IsFinalAttempt(T!Last(results'[t]), Len(results'[t]) - 1) = final
    BY <2>1 DEF final
  <2>4. ~stopped' => s # "interrupted" BY <1>1
  <2> QED BY <2>1, <2>2, <2>3, <2>4 DEF FinalIsReported
<1>14. ASSUME NEW u \in Tests, u # t
       PROVE  AttemptsFit(u)' /\ StartsFirst(u)' /\ FinalIsReported(u)'
  <2>1. progress'[u] = progress[u] /\ results'[u] = results[u] /\ events'[u] = events[u]
    BY <1>0, <1>1, <1>6, <1>7, <1>14
  <2> QED BY <1>1, <2>1, TestsApart DEF TestsInv
<1> QED BY <1>9, <1>11, <1>12, <1>13, <1>14 DEF TestsInv

LEMMA TestsInvariant == T!ReporterTestsAssumption => (T!Spec => []TestsInv)
<1> SUFFICES ASSUME T!ReporterTestsAssumption PROVE T!Spec => []TestsInv OBVIOUS
<1>1. TestsInv /\ [T!Next]_T!vars => TestsInv'
  <2> SUFFICES ASSUME TestsInv, [T!Next]_T!vars PROVE TestsInv' OBVIOUS
  <2>1. CASE T!HealthAnswers \/ T!Stop \/ UNCHANGED T!vars
    <3>1. UNCHANGED <<progress, results, tracker, events>> /\ (stopped => stopped')
      BY <2>1 DEF T!HealthAnswers, T!Stop, T!vars
    <3>2. TestsTyped' BY <2>1, <3>1 DEF TestsInv, TestsTyped, T!HealthAnswers, T!Stop, T!vars
    <3> QED BY <3>1, <3>2, TestsApart DEF TestsInv
  <2>2. ASSUME NEW t \in Tests, T!OnTestBegin(t) PROVE TestsInv' BY <2>2, TestBegins
  <2>3. ASSUME NEW t \in Tests, NEW s \in T!Statuses, T!OnTestEnd(t, s) PROVE TestsInv'
    BY <2>3, TestEnds
  <2> QED BY <2>1, <2>2, <2>3 DEF T!Next
<1> QED BY <1>1, TestsBegin, PTL DEF T!Spec

\* Every variable of the reporter keeps its type, and what the callbacks enqueue of a test has
\* its shape: a start, then ends, at most one more than retries.
THEOREM ReporterTyped == ASSUME T!ReporterTestsAssumption PROVE TestRunSpec => []Typed
<1>1. TestsInv => T!TypeOK
  BY DEF TestsInv, TestsTyped, AttemptsFit, StartsFirst, T!TypeOK
<1>2. T!Spec => []T!TypeOK BY <1>1, TestsInvariant, PTL
<1> QED BY <1>2, TypesKept, PTL DEF TestRunSpec, Typed

\* When Playwright is through, the last test.end of a test that is expected to pass has all its
\* attempts and their outcome: whatever Playwright runs again has not ended as expected, so the
\* attempt it ends with is one onTestEnd takes for the final one.
THEOREM PlayedAreReported ==
  ASSUME T!ReporterTestsAssumption PROVE TestRunSpec => []PlayedIsReported
<1>1. TestsInv => PlayedIsReported
  <2> SUFFICES ASSUME TestsInv, T!Finished,
                      NEW t \in Tests, ExpectedOf[t] = "passed"
               PROVE  T!Complete(t)
    BY DEF PlayedIsReported, T!PlayedIsReported
  <2> DEFINE s == T!Last(results[t])
  <2>1. progress[t] = "ended" /\ ~T!RunAgain(t) /\ ~stopped BY DEF T!Finished, T!Over
  <2>2. results[t] # <<>> /\ Len(results[t]) \in Nat /\ Retries \in Nat /\ s # "interrupted"
    BY <2>1 DEF TestsInv, TestsTyped, AttemptsFit, FinalIsReported, T!ReporterTestsAssumption
  <2>3. s \in {"passed", "skipped"} \/ Len(results[t]) > Retries
    BY <2>1, <2>2 DEF T!RunAgain, T!Retry, T!NotAsExpected, T!AsExpected
  <2>4. T!IsFinalAttempt(s, Len(results[t]) - 1) BY <2>2, <2>3 DEF T!IsFinalAttempt
  <2> QED BY <2>1, <2>4 DEF TestsInv, FinalIsReported
<1> QED BY <1>1, TestsInvariant, PTL DEF TestRunSpec
=============================================================================
