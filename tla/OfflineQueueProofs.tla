------------------------- MODULE OfflineQueueProofs -------------------------
(***************************************************************************)
(* Proofs about OfflineQueue, for any number of items, mounted hooks,      *)
(* outages and faults.  Good is the shape of the data, Kept says what has  *)
(* been made whenever an item counts as sent, and Once what an item no     *)
(* doubt was cast on has come to.                                          *)
(***************************************************************************)
EXTENDS OfflineQueue, TLAPS, FiniteSetTheorems

QueueStates == {"NEW", "PENDING", "SYNCED", "FAILED", "GONE"}
Progress == [step : Steps, todo : SUBSET Items, now : Items \cup {Nothing}, tries : 0..Attempts]
Holding == Awaiting \cup {"SYNCED", "FAILED"}

\* A sync as far as it has come
SyncOK(s) ==
  /\ s \in Progress
  /\ s.now # Nothing <=> s.step \in Holding
  /\ s.step \in Awaiting => s.tries > 0

SyncsFit == sync \in [Hooks -> Progress] /\ \A h \in Hooks : SyncOK(sync[h])

-----------------------------------------------------------------------------
(* What a sync comes to                                                    *)

\* A sync has a step, items to do, the one it is at and attempts.
LEMMA Fields ==
  ASSUME NEW s, SyncOK(s)
  PROVE  s.step \in Steps /\ s.todo \subseteq Items /\ s.now \in Items \cup {Nothing} /\ s.tries \in 0..Attempts
BY DEF SyncOK, Progress

\* A sync that is at an item of its own.
LEMMA AtItem ==
  ASSUME NEW s, SyncOK(s), s.step \in Holding
  PROVE  s.now \in Items
BY Fields DEF SyncOK

\* A sync is made of its fields.
LEMMA Make4 ==
  ASSUME NEW step \in Steps, NEW todo \in SUBSET Items, NEW now \in Items \cup {Nothing},
         NEW tries \in 0..Attempts,
         now # Nothing <=> step \in Holding, step \in Awaiting => tries > 0
  PROVE  SyncOK([step |-> step, todo |-> todo, now |-> now, tries |-> tries])
BY DEF SyncOK, Progress

\* A sync that is at no item.
LEMMA NoItem ==
  ASSUME NEW step \in {"IDLE", "RESET", "SEND", "CLEAR"}, NEW todo \in SUBSET Items
  PROVE  SyncOK([step |-> step, todo |-> todo, now |-> Nothing, tries |-> 0])
<1>1. step \in Steps /\ step \notin Holding /\ step \notin Awaiting /\ 0 \in 0..Attempts
  BY DEF Steps, Holding, Awaiting, Attempts
<1> QED BY <1>1, Make4

\* A sync that does nothing.
LEMMA IdleIs == SyncOK(Idle) /\ Idle.step = "IDLE" /\ Idle.todo = {} /\ Idle.now = Nothing
<1>1. {} \in SUBSET Items
  OBVIOUS
<1> QED BY <1>1, NoItem DEF Idle

\* A sync that has just begun, or goes on, with items to do.
LEMMA TodoIs ==
  ASSUME NEW step \in {"RESET", "SEND", "CLEAR"}, NEW todo \in SUBSET Items
  PROVE  LET s == [Idle EXCEPT !.step = step, !.todo = todo] IN
         SyncOK(s) /\ s.step = step /\ s.todo = todo /\ s.now = Nothing
<1> DEFINE t == [Idle EXCEPT !.step = step, !.todo = todo]
<1>1. t.step = step /\ t.todo = todo /\ t.now = Nothing /\ t.tries = 0
  BY DEF Idle
<1>2. Idle \in Progress /\ step \in Steps
  BY IdleIs DEF SyncOK, Steps
<1>3. t \in Progress
  BY <1>2 DEF Progress
<1> HIDE DEF t
<1>4. SyncOK(t)
  BY <1>1, <1>3 DEF SyncOK, Holding, Awaiting
<1> QED BY <1>1, <1>4 DEF t

\* What a sync begins with.
LEMMA StartedIs ==
  SyncOK(Started) /\ Started.step = "RESET" /\ Started.todo = Waiting("FAILED") /\ Started.now = Nothing
<1>1. Waiting("FAILED") \in SUBSET Items
  BY DEF Waiting
<1> QED BY <1>1, TodoIs DEF Started

\* What it goes on with after an item.
LEMMA FollowingIs ==
  ASSUME NEW s, SyncOK(s)
  PROVE  /\ SyncOK(Following(s)) /\ Following(s).step = "SEND" /\ Following(s).todo = s.todo
         /\ Following(s).now = Nothing
<1>1. s.todo \in SUBSET Items
  BY Fields
<1> QED BY <1>1, TodoIs DEF Following

\* A sync about to mark an item.
Marked(step, todo, i) == [Idle EXCEPT !.step = step, !.todo = todo, !.now = i]

LEMMA MarkIs ==
  ASSUME NEW step \in {"SYNCED", "FAILED"}, NEW todo \in SUBSET Items, NEW i \in Items
  PROVE  /\ SyncOK(Marked(step, todo, i)) /\ Marked(step, todo, i).step = step
         /\ Marked(step, todo, i).todo = todo /\ Marked(step, todo, i).now = i
<1> DEFINE t == [Idle EXCEPT !.step = step, !.todo = todo, !.now = i]
<1>1. t.step = step /\ t.todo = todo /\ t.now = i /\ t.tries = 0
  BY DEF Idle
<1>2. Idle \in Progress /\ step \in Steps /\ i # Nothing
  BY IdleIs, ConstantsAssumption DEF SyncOK, Steps
<1>3. t \in Progress
  BY <1>2 DEF Progress
<1> HIDE DEF t
<1>4. SyncOK(t)
  BY <1>1, <1>2, <1>3 DEF SyncOK, Holding, Awaiting
<1> QED BY <1>1, <1>4 DEF t, Marked

\* A sync about to mark the item it is at, or to go on when that is gone.
LEMMA MarkingIs ==
  ASSUME NEW s, SyncOK(s), s.step \in Holding, NEW step \in {"SYNCED", "FAILED"}
  PROVE  /\ SyncOK(Marking(s, step)) /\ Marking(s, step).todo = s.todo
         /\ queue[s.now] = "GONE" => Marking(s, step).step = "SEND" /\ Marking(s, step).now = Nothing
         /\ queue[s.now] # "GONE" => Marking(s, step).step = step /\ Marking(s, step).now = s.now
<1>1. CASE queue[s.now] = "GONE"
  <2>1. Marking(s, step) = Following(s)
    BY <1>1 DEF Marking
  <2> QED BY <1>1, <2>1, FollowingIs
<1>2. CASE queue[s.now] # "GONE"
  <2>1. Marking(s, step) = [Idle EXCEPT !.step = step, !.todo = s.todo, !.now = s.now]
    BY <1>2 DEF Marking
  <2>2. s.now \in Items /\ s.todo \in SUBSET Items
    BY Fields, AtItem
  <2>3. Marking(s, step) = Marked(step, s.todo, s.now)
    BY <2>1 DEF Marked
  <2> QED BY <1>2, <2>2, <2>3, MarkIs
<1> QED BY <1>1, <1>2

\* A sync whose post is tried again.
LEMMA RetryIs ==
  ASSUME NEW s, SyncOK(s), s.step \in Awaiting, s.tries > 1
  PROVE  LET t == [s EXCEPT !.tries = @ - 1, !.step = "WAIT"] IN
         SyncOK(t) /\ t.step = "WAIT" /\ t.todo = s.todo /\ t.now = s.now
<1> DEFINE t == [s EXCEPT !.tries = s.tries - 1, !.step = "WAIT"]
<1>1. s \in Progress /\ s.tries - 1 \in 0..Attempts /\ s.tries - 1 > 0 /\ "WAIT" \in Steps
  BY Fields DEF SyncOK, Attempts, Steps
<1>2. t.step = "WAIT" /\ t.todo = s.todo /\ t.now = s.now /\ t.tries = s.tries - 1
  BY <1>1 DEF Progress
<1>3. t \in Progress
  BY <1>1 DEF Progress
<1>4. s.now # Nothing
  BY DEF SyncOK, Holding
<1> HIDE DEF t
<1>5. SyncOK(t)
  BY <1>1, <1>2, <1>3, <1>4 DEF SyncOK, Holding, Awaiting
<1> QED BY <1>2, <1>5 DEF t

\* After an attempt without an answer.
LEMMA AgainIs ==
  ASSUME NEW s, SyncOK(s), s.step \in Awaiting
  PROVE  /\ SyncOK(Again(s)) /\ Again(s).todo = s.todo
         /\ Again(s).step \in {"WAIT", "FAILED"} => Again(s).now = s.now
         /\ Again(s).step \in {"WAIT", "FAILED", "SEND"}
         /\ Again(s).step = "SEND" => Again(s).now = Nothing /\ queue[s.now] = "GONE"
<1>1. CASE s.tries > 1
  <2>1. Again(s) = [s EXCEPT !.tries = s.tries - 1, !.step = "WAIT"]
    BY <1>1 DEF Again
  <2> QED BY <1>1, <2>1, RetryIs
<1>2. CASE ~(s.tries > 1)
  BY <1>2, MarkingIs DEF Again, Holding
<1> QED BY <1>1, <1>2

\* A sync with an item fewer to do.
LEMMA LessIs ==
  ASSUME NEW s, SyncOK(s), NEW i
  PROVE  LET t == [s EXCEPT !.todo = @ \ {i}] IN
         SyncOK(t) /\ t.step = s.step /\ t.todo = s.todo \ {i} /\ t.now = s.now
<1> DEFINE t == [s EXCEPT !.todo = s.todo \ {i}]
<1>1. s \in Progress /\ s.todo \ {i} \in SUBSET Items
  BY Fields DEF SyncOK
<1>2. t.step = s.step /\ t.todo = s.todo \ {i} /\ t.now = s.now /\ t.tries = s.tries
  BY <1>1 DEF Progress
<1>3. t \in Progress
  BY <1>1 DEF Progress
<1> HIDE DEF t
<1>4. SyncOK(t)
  BY <1>2, <1>3 DEF SyncOK
<1> QED BY <1>2, <1>4 DEF t

\* A sync whose record has been made.
LEMMA MadeIs ==
  ASSUME NEW s, SyncOK(s), s.step = "WAIT"
  PROVE  LET t == [s EXCEPT !.step = "MADE"] IN
         SyncOK(t) /\ t.step = "MADE" /\ t.todo = s.todo /\ t.now = s.now
<1> DEFINE t == [s EXCEPT !.step = "MADE"]
<1>1. s \in Progress /\ "MADE" \in Steps
  BY DEF SyncOK, Steps
<1>2. t.step = "MADE" /\ t.todo = s.todo /\ t.now = s.now /\ t.tries = s.tries
  BY <1>1 DEF Progress
<1>3. t \in Progress
  BY <1>1 DEF Progress
<1> HIDE DEF t
<1>4. SyncOK(t)
  BY <1>2, <1>3 DEF SyncOK, Holding, Awaiting
<1> QED BY <1>2, <1>4 DEF t

\* A sync that posts an item.
LEMMA SentIs ==
  ASSUME NEW todo \in SUBSET Items, NEW i \in Items
  PROVE  LET t == [step |-> "WAIT", todo |-> todo, now |-> i, tries |-> Attempts] IN
         SyncOK(t) /\ t.step = "WAIT" /\ t.todo = todo /\ t.now = i
<1>1. /\ "WAIT" \in Steps /\ "WAIT" \in Holding /\ Attempts \in 0..Attempts /\ Attempts > 0 /\ i # Nothing
      /\ i \in Items \cup {Nothing}
  BY ConstantsAssumption DEF Steps, Holding, Awaiting, Attempts
<1> DEFINE t == [step |-> "WAIT", todo |-> todo, now |-> i, tries |-> Attempts]
<1>2. SyncOK(t)
  BY <1>1, Make4
<1> QED BY <1>2
-----------------------------------------------------------------------------
(* The invariant                                                           *)

\* Records of an item, made or perhaps still to be made
Records(i) == stored[i] + stray[i]

\* What a sync counts as made has been made
SyncKept(s) ==
  /\ s.step \in {"MADE", "SYNCED"} => stored[s.now] > 0
  /\ s.step = "CLEAR" => \A i \in s.todo : stored[i] > 0

Kept ==
  /\ \A i \in Items : queue[i] \in {"SYNCED", "GONE"} => stored[i] > 0
  /\ \A h \in Hooks : SyncKept(sync[h])

\* What sync s is about to do to item i, which nobody else deals with
Fits(s, i) ==
  /\ i \in s.todo =>
       /\ s.step = "CLEAR" => queue[i] = "SYNCED"
       /\ s.step # "CLEAR" => queue[i] \in {"PENDING", "FAILED"}
  /\ s.now = i =>
       /\ i \notin s.todo
       /\ queue[i] \in {"PENDING", "FAILED"}
       /\ s.step \in {"MADE", "SYNCED"} => Records(i) = 1
       /\ s.step \notin {"MADE", "SYNCED"} => Records(i) = 0

\* At most one sync runs while the item waits
Alone(i) ==
  queue[i] \notin {"NEW", "GONE"} => \A g, h \in Hooks : Syncing(g) /\ Syncing(h) => g = h

OnceFor(i) ==
  /\ Alone(i)
  /\ \A h \in Hooks : Fits(sync[h], i)
  /\ queue[i] = "NEW" => Records(i) = 0
  /\ queue[i] \in {"PENDING", "FAILED"} /\ (\A h \in Hooks : sync[h].now # i) => Records(i) = 0
  /\ Records(i) <= 1

Once == \A i \in Items \ doubted : OnceFor(i)

Safe == TypeOK /\ Kept /\ Once

-----------------------------------------------------------------------------
(* What keeps it                                                           *)

\* The rows and the syncs.
LEMMA TypeIs ==
  ASSUME TypeOK
  PROVE  /\ SyncsFit /\ \A h \in Hooks : SyncOK(sync[h]) /\ sync[h].todo \subseteq Items
         /\ queue \in [Items -> QueueStates] /\ stored \in [Items -> Nat] /\ stray \in [Items -> Nat]
         /\ \A i \in Items : queue[i] \in QueueStates /\ stored[i] \in Nat /\ stray[i] \in Nat
<1>1. sync \in [Hooks -> Progress] /\ \A h \in Hooks : SyncOK(sync[h])
  BY DEF TypeOK, SyncOK, Progress, Holding
<1>2. \A h \in Hooks : sync[h].todo \subseteq Items
  BY <1>1, Fields
<1>3. queue \in [Items -> QueueStates] /\ stored \in [Items -> Nat] /\ stray \in [Items -> Nat]
  BY DEF TypeOK, QueueStates
<1> QED BY <1>1, <1>2, <1>3 DEF SyncsFit

\* The rows stay well formed when each part does.
LEMMA TypeKept ==
  ASSUME SyncsFit', queue' \in [Items -> QueueStates], online' \in BOOLEAN, mounted' \subseteq Hooks,
         stored' \in [Items -> Nat], stray' \in [Items -> Nat],
         outages' \in 0..MaxOutages, faults' \in 0..MaxFaults, doubted' \subseteq Items
  PROVE  TypeOK'
BY DEF TypeOK, SyncsFit, SyncOK, Progress, Holding, QueueStates

\* The syncs after one has gone on.
LEMMA StepIs ==
  ASSUME TypeOK, NEW h \in Hooks, NEW next, Step(h, next)
  PROVE  /\ \A g \in Hooks : sync'[g] = IF g = h THEN next ELSE sync[g]
         /\ SyncOK(next) => SyncsFit'
<1>1. sync \in [Hooks -> Progress] /\ \A g \in Hooks : SyncOK(sync[g])
  BY TypeIs DEF SyncsFit
<1>2. \A g \in Hooks : sync'[g] = IF g = h THEN next ELSE sync[g]
  BY <1>1 DEF Step
<1>3. ASSUME SyncOK(next)
      PROVE  SyncsFit'
  <2>1. next \in Progress
    BY <1>3 DEF SyncOK
  <2>2. sync' \in [Hooks -> Progress]
    BY <1>1, <2>1 DEF Step
  <2> QED BY <1>1, <1>2, <1>3, <2>2 DEF SyncsFit
<1> QED BY <1>2, <1>3

\* A hook that does not sync has nothing to do and is at no item.
LEMMA IdleFits ==
  ASSUME NEW i \in Items
  PROVE  /\ i \notin Idle.todo /\ Idle.now # i /\ Idle.step \notin {"MADE", "SYNCED", "CLEAR"}
BY IdleIs, ConstantsAssumption

\* Kept is kept when nothing is unmade, and an item or a sync that newly counts as made is.
LEMMA KeepKept ==
  ASSUME Safe, TypeOK', \A i \in Items : stored'[i] >= stored[i],
         \A i \in Items : queue'[i] \in {"SYNCED", "GONE"} => queue[i] \in {"SYNCED", "GONE"} \/ stored'[i] > 0,
         \A h \in Hooks : sync'[h] = sync[h] \/ SyncKept(sync[h])'
  PROVE  Kept'
<1>1. TypeOK /\ Kept
  BY DEF Safe
<1>2. \A i \in Items : stored[i] \in Nat /\ stored'[i] \in Nat /\ (stored[i] > 0 => stored'[i] > 0)
  BY <1>1 DEF TypeOK
<1>3. ASSUME NEW i \in Items, queue'[i] \in {"SYNCED", "GONE"}
      PROVE  stored'[i] > 0
  BY <1>1, <1>2, <1>3 DEF Kept
<1>4. ASSUME NEW h \in Hooks, sync'[h] = sync[h]
      PROVE  SyncKept(sync[h])'
  <2>1. SyncKept(sync[h]) /\ SyncOK(sync[h]) /\ sync[h].todo \subseteq Items
    BY <1>1, TypeIs DEF Kept
  <2>2. sync[h].step \in {"MADE", "SYNCED"} => sync[h].now \in Items
    BY <2>1, AtItem DEF Holding, Awaiting
  <2> QED BY <1>2, <1>4, <2>1, <2>2 DEF SyncKept
<1> QED BY <1>3, <1>4 DEF Kept

\* Once is kept by a step of one sync, when it changes no item but its own and leaves it in order.
LEMMA KeepOnce ==
  ASSUME Safe, TypeOK', NEW h \in Hooks, Syncing(h), doubted \subseteq doubted',
         \A g \in Hooks \ {h} : sync'[g] = sync[g],
         \A i \in Items \ doubted' :
           /\ queue'[i] = queue[i] \/ i \in sync[h].todo \/ sync[h].now = i
           /\ Records(i)' = Records(i) \/ sync[h].now = i
           /\ queue'[i] = "NEW" => queue[i] = "NEW"
           /\ Fits(sync[h], i)'
           /\ queue'[i] \in {"PENDING", "FAILED"} /\ sync'[h].now # i =>
                \/ Records(i)' = 0
                \/ queue[i] \in {"PENDING", "FAILED"} /\ sync[h].now # i
           /\ Records(i)' <= 1
  PROVE  Once'
<1>1. TypeOK /\ \A i \in Items \ doubted : OnceFor(i)
  BY DEF Safe, Once
<1> SUFFICES ASSUME NEW i \in Items \ doubted'
             PROVE  OnceFor(i)'
  BY DEF Once
<1>2. OnceFor(i)
  BY <1>1
<1> DEFINE mine == i \in sync[h].todo \/ sync[h].now = i
<1>3. mine => queue[i] \notin {"NEW", "GONE"}
  BY <1>2 DEF OnceFor, Fits
<1>4. mine => \A g \in Hooks \ {h} : sync[g] = Idle
  <2> SUFFICES ASSUME mine, NEW g \in Hooks \ {h}
               PROVE  sync[g] = Idle
    OBVIOUS
  <2>1. ~Syncing(g)
    BY <1>2, <1>3 DEF OnceFor, Alone
  <2> QED BY <2>1 DEF Syncing
<1>5. ~mine => queue'[i] = queue[i] /\ Records(i)' = Records(i)
  OBVIOUS
<1>6. Alone(i)'
  <2> SUFFICES ASSUME queue'[i] \notin {"NEW", "GONE"}, NEW f \in Hooks, NEW g \in Hooks, Syncing(f)', Syncing(g)'
               PROVE  f = g
    BY DEF Alone
  <2>1. queue[i] \notin {"NEW", "GONE"}
    BY <1>3, <1>5
  <2>2. Syncing(f) /\ Syncing(g)
    BY DEF Syncing
  <2> QED BY <1>2, <2>1, <2>2 DEF OnceFor, Alone
<1>7. ASSUME NEW g \in Hooks
      PROVE  Fits(sync[g], i)'
  <2>1. CASE g = h
    BY <2>1
  <2>2. CASE g # h /\ mine
    <3>1. sync'[g] = Idle
      BY <1>4, <2>2
    <3> QED BY <3>1, IdleFits DEF Fits
  <2>3. CASE g # h /\ ~mine
    <3>1. Fits(sync[g], i) /\ sync'[g] = sync[g]
      BY <1>2, <2>3 DEF OnceFor
    <3>2. queue'[i] = queue[i] /\ Records(i)' = Records(i)
      BY <1>5, <2>3
    <3> QED BY <3>1, <3>2 DEF Fits
  <2> QED BY <2>1, <2>2, <2>3
<1>8. queue'[i] = "NEW" => Records(i)' = 0
  BY <1>2, <1>3, <1>5 DEF OnceFor
<1>9. ASSUME queue'[i] \in {"PENDING", "FAILED"}, \A g \in Hooks : sync'[g].now # i
      PROVE  Records(i)' = 0
  <2>1. CASE queue[i] \in {"PENDING", "FAILED"} /\ sync[h].now # i
    <3>1. \A g \in Hooks : sync[g].now # i
      BY <1>9, <2>1
    <3>2. Records(i)' = Records(i)
      BY <2>1
    <3> QED BY <1>2, <2>1, <3>1, <3>2 DEF OnceFor
  <2> QED BY <1>9, <2>1
<1>10. Records(i)' <= 1
  OBVIOUS
<1> QED BY <1>6, <1>7, <1>8, <1>9, <1>10 DEF OnceFor
-----------------------------------------------------------------------------
(* The steps of a sync                                                     *)

\* What sync s does to item i next, when the item is at this status and has that many records
FitsAs(s, i, status, records) ==
  /\ i \in s.todo =>
       /\ s.step = "CLEAR" => status = "SYNCED"
       /\ s.step # "CLEAR" => status \in {"PENDING", "FAILED"}
  /\ s.now = i =>
       /\ i \notin s.todo
       /\ status \in {"PENDING", "FAILED"}
       /\ s.step \in {"MADE", "SYNCED"} => records = 1
       /\ s.step \notin {"MADE", "SYNCED"} => records = 0

\* A step of one sync is safe when it changes only its own items and leaves them in order.
LEMMA OneSync ==
  ASSUME Safe, NEW h \in Hooks, NEW next, Step(h, next), SyncOK(next), Syncing(h),
         UNCHANGED <<online, outages>>, mounted' \subseteq Hooks, faults' \in 0..MaxFaults,
         doubted \subseteq doubted', doubted' \subseteq Items,
         queue' \in [Items -> QueueStates], stored' \in [Items -> Nat], stray' \in [Items -> Nat],
         \A i \in Items : stored'[i] >= stored[i],
         \A i \in Items : queue'[i] \in {"SYNCED", "GONE"} => queue[i] \in {"SYNCED", "GONE"} \/ stored'[i] > 0,
         next.step \in {"MADE", "SYNCED"} => stored'[next.now] > 0,
         next.step = "CLEAR" => \A i \in next.todo : stored'[i] > 0,
         \A i \in Items \ doubted' :
           /\ queue'[i] = queue[i] \/ i \in sync[h].todo \/ sync[h].now = i
           /\ stored'[i] + stray'[i] = stored[i] + stray[i] \/ sync[h].now = i
           /\ queue'[i] = "NEW" => queue[i] = "NEW"
           /\ FitsAs(next, i, queue'[i], stored'[i] + stray'[i])
           /\ queue'[i] \in {"PENDING", "FAILED"} /\ next.now # i =>
                \/ stored'[i] + stray'[i] = 0
                \/ queue[i] \in {"PENDING", "FAILED"} /\ sync[h].now # i
           /\ stored'[i] + stray'[i] <= 1
  PROVE  Safe'
<1>1. TypeOK
  BY DEF Safe
<1>2. (\A g \in Hooks : sync'[g] = IF g = h THEN next ELSE sync[g]) /\ SyncsFit'
  BY <1>1, StepIs
<1>3. TypeOK'
  BY <1>1, <1>2, TypeKept DEF TypeOK
<1>4. \A g \in Hooks : sync'[g] = sync[g] \/ SyncKept(sync[g])'
  <2> SUFFICES ASSUME NEW g \in Hooks, sync'[g] = next
               PROVE  SyncKept(sync[g])'
    BY <1>2
  <2> QED BY DEF SyncKept
<1>5. Kept'
  BY <1>3, <1>4, KeepKept
<1>6. ASSUME NEW i \in Items \ doubted'
      PROVE  /\ queue'[i] = queue[i] \/ i \in sync[h].todo \/ sync[h].now = i
             /\ Records(i)' = Records(i) \/ sync[h].now = i
             /\ queue'[i] = "NEW" => queue[i] = "NEW"
             /\ Fits(sync[h], i)'
             /\ queue'[i] \in {"PENDING", "FAILED"} /\ sync'[h].now # i =>
                  \/ Records(i)' = 0
                  \/ queue[i] \in {"PENDING", "FAILED"} /\ sync[h].now # i
             /\ Records(i)' <= 1
  <2>1. sync'[h] = next
    BY <1>2
  <2>2. Fits(sync[h], i)'
    BY <2>1 DEF Fits, FitsAs, Records
  <2> QED BY <2>1, <2>2 DEF Records
<1>7. \A g \in Hooks \ {h} : sync'[g] = sync[g]
  BY <1>2
<1>8. Once'
  BY <1>3, <1>6, <1>7, KeepOnce
<1> QED BY <1>3, <1>5, <1>8 DEF Safe

\* The same, for a step that changes neither the queue nor the records.
LEMMA OneSyncOnly ==
  ASSUME Safe, NEW h \in Hooks, NEW next, Step(h, next), SyncOK(next), Syncing(h),
         UNCHANGED <<queue, online, mounted, stored, stray, outages, faults, doubted>>,
         next.step \in {"MADE", "SYNCED"} => stored[next.now] > 0,
         next.step = "CLEAR" => \A i \in next.todo : stored[i] > 0,
         \A i \in Items \ doubted :
           /\ FitsAs(next, i, queue[i], Records(i))
           /\ queue[i] \in {"PENDING", "FAILED"} /\ sync[h].now = i /\ next.now # i => Records(i) = 0
  PROVE  Safe'
<1>1. TypeOK
  BY DEF Safe
<1>2. /\ queue' \in [Items -> QueueStates] /\ stored' \in [Items -> Nat] /\ stray' \in [Items -> Nat]
      /\ \A i \in Items : stored'[i] >= stored[i]
  BY <1>1, TypeIs
<1>3. mounted' \subseteq Hooks /\ faults' \in 0..MaxFaults /\ doubted' \subseteq Items
  BY <1>1 DEF TypeOK
<1>4. \A i \in Items \ doubted' : stored'[i] + stray'[i] <= 1
  BY DEF Safe, Once, OnceFor, Records
<1> QED BY <1>2, <1>3, <1>4, OneSync DEF Records

\* What is known of a sync at a step, and of the items it deals with.
LEMMA Now ==
  ASSUME Safe, NEW h \in Hooks
  PROVE  /\ SyncOK(sync[h]) /\ sync[h].todo \subseteq Items /\ SyncKept(sync[h])
         /\ sync[h].step # "IDLE" => Syncing(h)
         /\ \A i \in Items \ doubted : Fits(sync[h], i)
         /\ \A i \in Items \ doubted : Records(i) <= 1
BY TypeIs, IdleIs DEF Safe, Kept, Once, OnceFor, Syncing

\* An item that waits, which only this sync could be at and it is not, has no record.
LEMMA NoRecord ==
  ASSUME Safe, NEW h \in Hooks, Syncing(h), NEW i \in Items \ doubted,
         queue[i] \in {"PENDING", "FAILED"}, sync[h].now # i
  PROVE  Records(i) = 0
<1>1. OnceFor(i)
  BY DEF Safe, Once
<1>2. ASSUME NEW g \in Hooks
      PROVE  sync[g].now # i
  <2>1. CASE g = h
    BY <2>1
  <2>2. CASE g # h
    <3>1. ~Syncing(g)
      BY <1>1, <2>2 DEF OnceFor, Alone
    <3> QED BY <3>1, IdleFits DEF Syncing
  <2> QED BY <2>1, <2>2
<1> QED BY <1>1, <1>2 DEF OnceFor

\* Reading what is to be sent is safe.
LEMMA ReadPendingStep ==
  ASSUME Safe, NEW h \in Hooks, ReadPending(h)
  PROVE  Safe'
<1>1. sync[h].step = "RESET" /\ sync[h].todo = {} /\ Syncing(h) /\ sync[h].now = Nothing
  BY Now DEF ReadPending, At, SyncOK, Holding, Awaiting
<1>2. UNCHANGED <<queue, online, mounted, stored, stray, outages, faults, doubted>>
  BY DEF ReadPending
<1>3. CASE Step(h, Idle)
  <2>1. SyncOK(Idle) /\ Idle.step \notin {"MADE", "SYNCED", "CLEAR"}
    BY IdleIs
  <2>2. \A i \in Items : FitsAs(Idle, i, queue[i], Records(i)) /\ sync[h].now # i
    BY <1>1, IdleFits, ConstantsAssumption DEF FitsAs
  <2> QED BY <1>1, <1>2, <1>3, <2>1, <2>2, OneSyncOnly
<1>4. CASE Step(h, [Idle EXCEPT !.step = "SEND", !.todo = Waiting("PENDING")])
  <2> DEFINE n == [Idle EXCEPT !.step = "SEND", !.todo = Waiting("PENDING")]
  <2>1. Waiting("PENDING") \in SUBSET Items
    BY DEF Waiting
  <2>2. SyncOK(n) /\ n.step = "SEND" /\ n.todo = Waiting("PENDING") /\ n.now = Nothing
    BY <2>1, TodoIs
  <2> HIDE DEF n
  <2>3. \A i \in Items : FitsAs(n, i, queue[i], Records(i)) /\ sync[h].now # i
    BY <1>1, <2>2, ConstantsAssumption DEF FitsAs, Waiting
  <2> QED BY <1>1, <1>2, <1>4, <2>2, <2>3, OneSyncOnly DEF n
<1> QED BY <1>3, <1>4 DEF ReadPending

\* Sending an item is safe: it waits, and no record of it has been made.
LEMMA SendStep ==
  ASSUME Safe, NEW h \in Hooks, Send(h)
  PROVE  Safe'
<1>1. PICK j \in sync[h].todo :
        Step(h, [step |-> "WAIT", todo |-> sync[h].todo \ {j}, now |-> j, tries |-> Attempts])
  BY DEF Send
<1>2. sync[h].step = "SEND" /\ Syncing(h) /\ sync[h].now = Nothing /\ sync[h].todo \subseteq Items
  BY Now DEF Send, At, SyncOK, Holding, Awaiting
<1>3. UNCHANGED <<queue, online, mounted, stored, stray, outages, faults, doubted>>
  BY DEF Send
<1> DEFINE n == [step |-> "WAIT", todo |-> sync[h].todo \ {j}, now |-> j, tries |-> Attempts]
<1>4. SyncOK(n) /\ n.step = "WAIT" /\ n.todo = sync[h].todo \ {j} /\ n.now = j
  <2>1. sync[h].todo \ {j} \in SUBSET Items /\ j \in Items
    BY <1>2
  <2> QED BY <2>1, SentIs
<1>5. Step(h, n)
  BY <1>1
<1> HIDE DEF n
<1>6. ASSUME NEW i \in Items \ doubted
      PROVE  FitsAs(n, i, queue[i], Records(i)) /\ sync[h].now # i
  <2>1. sync[h].now # i
    BY <1>2, ConstantsAssumption
  <2>2. i \in sync[h].todo => queue[i] \in {"PENDING", "FAILED"}
    BY <1>2, Now DEF Fits
  <2>3. i \in sync[h].todo => Records(i) = 0
    BY <1>2, <2>1, <2>2, NoRecord
  <2> QED BY <1>1, <1>4, <2>1, <2>2, <2>3 DEF FitsAs
<1> QED BY <1>2, <1>3, <1>4, <1>5, <1>6, OneSyncOnly

\* Going on with an item under way, or giving it up when it is gone, is safe.
LEMMA GoOn ==
  ASSUME Safe, NEW h \in Hooks, NEW next, Step(h, next), SyncOK(next), sync[h].step \in Awaiting,
         next.todo = sync[h].todo, next.step # "CLEAR",
         \/ next.now = sync[h].now /\ sync[h].step = "MADE" /\ next.step = "SYNCED"
         \/ next.now = sync[h].now /\ sync[h].step = "WAIT" /\ next.step \in {"WAIT", "FAILED"}
         \/ next.now = Nothing /\ next.step = "SEND" /\ queue[sync[h].now] = "GONE",
         UNCHANGED <<queue, online, mounted, stored, stray, outages, faults, doubted>>
  PROVE  Safe'
<1>1. Syncing(h) /\ sync[h].now \in Items /\ SyncKept(sync[h])
  BY Now, AtItem DEF Awaiting, Holding
<1>2. next.step \in {"MADE", "SYNCED"} => stored[next.now] > 0
  BY <1>1 DEF SyncKept
<1>3. ASSUME NEW i \in Items \ doubted
      PROVE  /\ FitsAs(next, i, queue[i], Records(i))
             /\ queue[i] \in {"PENDING", "FAILED"} /\ sync[h].now = i /\ next.now # i => Records(i) = 0
  <2>1. Fits(sync[h], i) /\ sync[h].step # "CLEAR"
    BY Now DEF Awaiting
  <2>2. i # Nothing
    BY ConstantsAssumption
  <2> QED BY <2>1, <2>2 DEF Fits, FitsAs
<1> QED BY <1>1, <1>2, <1>3, OneSyncOnly

\* An answer, a refusal and a request that does not leave the device are safe.
LEMMA AnswerStep ==
  ASSUME Safe, NEW h \in Hooks, Answer(h) \/ Refuse(h) \/ NoNetwork(h)
  PROVE  Safe'
<1> DEFINE s == sync[h]
<1>1. SyncOK(s) /\ UNCHANGED <<queue, online, mounted, stored, stray, outages, faults, doubted>>
  BY Now DEF Answer, Refuse, NoNetwork
<1>2. CASE Answer(h)
  <2>1. s.step = "MADE" /\ Step(h, Marking(s, "SYNCED")) /\ s.step \in Awaiting /\ s.step \in Holding
    BY <1>2 DEF Answer, At, Awaiting, Holding
  <2>2. /\ SyncOK(Marking(s, "SYNCED")) /\ Marking(s, "SYNCED").todo = s.todo
        /\ queue[s.now] = "GONE" => Marking(s, "SYNCED").step = "SEND" /\ Marking(s, "SYNCED").now = Nothing
        /\ queue[s.now] # "GONE" => Marking(s, "SYNCED").step = "SYNCED" /\ Marking(s, "SYNCED").now = s.now
    BY <1>1, <2>1, MarkingIs
  <2> QED BY <1>1, <2>1, <2>2, GoOn
<1>3. CASE Refuse(h)
  <2>1. s.step = "WAIT" /\ Step(h, Marking(s, "FAILED")) /\ s.step \in Awaiting /\ s.step \in Holding
    BY <1>3 DEF Refuse, At, Awaiting, Holding
  <2>2. /\ SyncOK(Marking(s, "FAILED")) /\ Marking(s, "FAILED").todo = s.todo
        /\ queue[s.now] = "GONE" => Marking(s, "FAILED").step = "SEND" /\ Marking(s, "FAILED").now = Nothing
        /\ queue[s.now] # "GONE" => Marking(s, "FAILED").step = "FAILED" /\ Marking(s, "FAILED").now = s.now
    BY <1>1, <2>1, MarkingIs
  <2> QED BY <1>1, <2>1, <2>2, GoOn
<1>4. CASE NoNetwork(h)
  <2>1. s.step = "WAIT" /\ Step(h, Again(s)) /\ s.step \in Awaiting
    BY <1>4 DEF NoNetwork, At, Awaiting
  <2>2. /\ SyncOK(Again(s)) /\ Again(s).todo = s.todo
        /\ Again(s).step \in {"WAIT", "FAILED"} => Again(s).now = s.now
        /\ Again(s).step \in {"WAIT", "FAILED", "SEND"}
        /\ Again(s).step = "SEND" => Again(s).now = Nothing /\ queue[s.now] = "GONE"
    BY <1>1, <2>1, AgainIs
  <2> QED BY <1>1, <2>1, <2>2, GoOn
<1> QED BY <1>2, <1>3, <1>4

\* Reading what has been sent is safe: all of it has been made.
LEMMA ReadSyncedStep ==
  ASSUME Safe, NEW h \in Hooks, ReadSynced(h)
  PROVE  Safe'
<1>1. sync[h].step = "SEND" /\ sync[h].now = Nothing /\ Syncing(h)
  BY Now DEF ReadSynced, At, SyncOK, Holding, Awaiting
<1> DEFINE n == [Idle EXCEPT !.step = "CLEAR", !.todo = Clearable]
<1>2. Clearable \in SUBSET Items /\ \A i \in Clearable : queue[i] = "SYNCED" /\ stored[i] > 0
  BY DEF Clearable, Waiting, Safe, Kept
<1>3. SyncOK(n) /\ n.step = "CLEAR" /\ n.todo = Clearable /\ n.now = Nothing
  BY <1>2, TodoIs
<1>4. Step(h, n) /\ UNCHANGED <<queue, online, mounted, stored, stray, outages, faults, doubted>>
  BY DEF ReadSynced
<1> HIDE DEF n
<1>5. \A i \in Items : FitsAs(n, i, queue[i], Records(i)) /\ sync[h].now # i
  BY <1>1, <1>2, <1>3, ConstantsAssumption DEF FitsAs
<1> QED BY <1>1, <1>2, <1>3, <1>4, <1>5, OneSyncOnly

\* Putting a failed item back is safe: it has not been made.
LEMMA PutBackStep ==
  ASSUME Safe, NEW h \in Hooks, PutBack(h)
  PROVE  Safe'
<1> DEFINE s == sync[h]
<1>1. PICK j \in s.todo : Put(j, "PENDING") /\ Step(h, [s EXCEPT !.todo = @ \ {j}])
  BY DEF PutBack
<1>2. /\ TypeOK /\ SyncOK(s) /\ s.step = "RESET" /\ Syncing(h) /\ s.todo \subseteq Items /\ s.now = Nothing
      /\ UNCHANGED <<online, mounted, stored, stray, outages, faults, doubted>>
  BY Now DEF PutBack, At, SyncOK, Holding, Awaiting, Safe
<1> DEFINE n == [s EXCEPT !.todo = @ \ {j}]
<1>3. SyncOK(n) /\ n.step = s.step /\ n.todo = s.todo \ {j} /\ n.now = s.now
  BY <1>2, LessIs
<1>4. Step(h, n)
  BY <1>1
<1> HIDE DEF n
<1>5. /\ queue' \in [Items -> QueueStates] /\ stored' \in [Items -> Nat] /\ stray' \in [Items -> Nat]
      /\ \A i \in Items : stored'[i] >= stored[i]
      /\ \A i \in Items : queue'[i] = IF i = j THEN "PENDING" ELSE queue[i]
  BY <1>1, <1>2, TypeIs DEF Put, QueueStates
<1>6. mounted' \subseteq Hooks /\ faults' \in 0..MaxFaults /\ doubted' \subseteq Items
  BY <1>2 DEF TypeOK
<1>7. ASSUME NEW i \in Items \ doubted'
      PROVE  /\ queue'[i] = queue[i] \/ i \in sync[h].todo \/ sync[h].now = i
             /\ stored'[i] + stray'[i] = stored[i] + stray[i] \/ sync[h].now = i
             /\ queue'[i] = "NEW" => queue[i] = "NEW"
             /\ FitsAs(n, i, queue'[i], stored'[i] + stray'[i])
             /\ queue'[i] \in {"PENDING", "FAILED"} /\ n.now # i =>
                  \/ stored'[i] + stray'[i] = 0
                  \/ queue[i] \in {"PENDING", "FAILED"} /\ sync[h].now # i
             /\ stored'[i] + stray'[i] <= 1
  <2>1. Fits(s, i) /\ Records(i) <= 1 /\ s.now # i
    BY <1>2, Now, ConstantsAssumption
  <2> QED BY <1>1, <1>2, <1>3, <1>5, <2>1 DEF Fits, FitsAs, Records
<1>8. \A i \in Items : queue'[i] \in {"SYNCED", "GONE"} => queue[i] \in {"SYNCED", "GONE"} \/ stored'[i] > 0
  BY <1>5
<1> QED BY <1>2, <1>3, <1>4, <1>5, <1>6, <1>7, <1>8, OneSync

\* Making the record is safe: it is the first.
LEMMA MakeStep ==
  ASSUME Safe, NEW h \in Hooks, Make(h)
  PROVE  Safe'
<1> DEFINE s == sync[h]
           n == [s EXCEPT !.step = "MADE"]
           j == s.now
<1>1. stored' = [stored EXCEPT ![j] = @ + 1] /\ Step(h, n)
  BY DEF Make
<1>2. /\ TypeOK /\ SyncOK(s) /\ s.step = "WAIT" /\ Syncing(h) /\ s.todo \subseteq Items /\ j \in Items
      /\ UNCHANGED <<queue, online, mounted, stray, outages, faults, doubted>>
  BY Now, AtItem DEF Make, At, Holding, Awaiting, Safe
<1>3. SyncOK(n) /\ n.step = "MADE" /\ n.todo = s.todo /\ n.now = j
  BY <1>2, MadeIs
<1> HIDE DEF n
<1>4. /\ queue' \in [Items -> QueueStates] /\ stored' \in [Items -> Nat] /\ stray' \in [Items -> Nat]
      /\ \A i \in Items : stored'[i] = IF i = j THEN stored[i] + 1 ELSE stored[i]
      /\ \A i \in Items : stored'[i] >= stored[i] /\ stored[i] \in Nat /\ stray[i] \in Nat
  <2>1. stored \in [Items -> Nat] /\ stray \in [Items -> Nat] /\ queue \in [Items -> QueueStates]
    BY <1>2, TypeIs
  <2> HIDE DEF j
  <2> QED BY <1>1, <1>2, <2>1
<1>5. mounted' \subseteq Hooks /\ faults' \in 0..MaxFaults /\ doubted' \subseteq Items
  BY <1>2 DEF TypeOK
<1>6. stored'[n.now] > 0
  BY <1>2, <1>3, <1>4
<1>7. ASSUME NEW i \in Items \ doubted'
      PROVE  /\ queue'[i] = queue[i] \/ i \in sync[h].todo \/ sync[h].now = i
             /\ stored'[i] + stray'[i] = stored[i] + stray[i] \/ sync[h].now = i
             /\ queue'[i] = "NEW" => queue[i] = "NEW"
             /\ FitsAs(n, i, queue'[i], stored'[i] + stray'[i])
             /\ queue'[i] \in {"PENDING", "FAILED"} /\ n.now # i =>
                  \/ stored'[i] + stray'[i] = 0
                  \/ queue[i] \in {"PENDING", "FAILED"} /\ sync[h].now # i
             /\ stored'[i] + stray'[i] <= 1
  <2>1. Fits(s, i) /\ Records(i) <= 1
    BY <1>2, Now
  <2>2. stored'[i] + stray'[i] = IF i = j THEN stored[i] + stray[i] + 1 ELSE stored[i] + stray[i]
    BY <1>2, <1>4
  <2>3. i = j => stored[i] + stray[i] = 0
    BY <1>2, <2>1 DEF Fits, Records
  <2> QED BY <1>2, <1>3, <2>1, <2>2, <2>3 DEF Fits, FitsAs, Records
<1>8. \A i \in Items : queue'[i] \in {"SYNCED", "GONE"} => queue[i] \in {"SYNCED", "GONE"} \/ stored'[i] > 0
  BY <1>2
<1> QED BY <1>1, <1>2, <1>3, <1>4, <1>5, <1>6, <1>7, <1>8, OneSync

\* Marking an item is safe: it counts as sent only when its record has been made.
LEMMA MarkStep ==
  ASSUME Safe, NEW h \in Hooks, Mark(h)
  PROVE  Safe'
<1> DEFINE s == sync[h]
           j == s.now
           n == Following(s)
<1>1. /\ s.step \in {"SYNCED", "FAILED"} /\ queue' = [queue EXCEPT ![j] = s.step] /\ Step(h, n)
      /\ UNCHANGED <<online, mounted, stored, stray, outages, faults, doubted>>
  BY DEF Mark, Put
<1>2. /\ TypeOK /\ SyncOK(s) /\ Syncing(h) /\ s.todo \subseteq Items /\ j \in Items /\ SyncKept(s)
  BY <1>1, Now, AtItem DEF Holding, Awaiting, Safe
<1>3. SyncOK(n) /\ n.step = "SEND" /\ n.todo = s.todo /\ n.now = Nothing
  BY <1>2, FollowingIs
<1> HIDE DEF n
<1>4. /\ queue' \in [Items -> QueueStates] /\ stored' \in [Items -> Nat] /\ stray' \in [Items -> Nat]
      /\ \A i \in Items : queue'[i] = IF i = j THEN s.step ELSE queue[i]
      /\ \A i \in Items : stored'[i] >= stored[i]
  <2>1. /\ stored \in [Items -> Nat] /\ stray \in [Items -> Nat] /\ queue \in [Items -> QueueStates]
        /\ s.step \in QueueStates
    BY <1>1, <1>2, TypeIs DEF QueueStates
  <2> HIDE DEF j
  <2> QED BY <1>1, <1>2, <2>1
<1>5. mounted' \subseteq Hooks /\ faults' \in 0..MaxFaults /\ doubted' \subseteq Items
  BY <1>1, <1>2 DEF TypeOK
<1>6. \A i \in Items : queue'[i] \in {"SYNCED", "GONE"} => queue[i] \in {"SYNCED", "GONE"} \/ stored'[i] > 0
  BY <1>1, <1>2, <1>4 DEF SyncKept
<1>7. ASSUME NEW i \in Items \ doubted'
      PROVE  /\ queue'[i] = queue[i] \/ i \in sync[h].todo \/ sync[h].now = i
             /\ stored'[i] + stray'[i] = stored[i] + stray[i] \/ sync[h].now = i
             /\ queue'[i] = "NEW" => queue[i] = "NEW"
             /\ FitsAs(n, i, queue'[i], stored'[i] + stray'[i])
             /\ queue'[i] \in {"PENDING", "FAILED"} /\ n.now # i =>
                  \/ stored'[i] + stray'[i] = 0
                  \/ queue[i] \in {"PENDING", "FAILED"} /\ sync[h].now # i
             /\ stored'[i] + stray'[i] <= 1
  <2>1. Fits(s, i) /\ Records(i) <= 1 /\ i # Nothing
    BY <1>1, <1>2, Now, ConstantsAssumption
  <2> QED BY <1>1, <1>2, <1>3, <1>4, <2>1 DEF Fits, FitsAs, Records
<1> QED BY <1>1, <1>2, <1>3, <1>4, <1>5, <1>6, <1>7, OneSync

\* Removing what has been sent is safe.
LEMMA ClearStep ==
  ASSUME Safe, NEW h \in Hooks, Clear(h)
  PROVE  Safe'
<1> DEFINE s == sync[h]
<1>1. /\ TypeOK /\ SyncOK(s) /\ s.step = "CLEAR" /\ Syncing(h) /\ s.todo \subseteq Items /\ s.now = Nothing
      /\ SyncKept(s)
      /\ UNCHANGED <<online, mounted, stored, stray, outages, faults, doubted>>
  BY Now DEF Clear, At, SyncOK, Holding, Awaiting, Safe
<1>2. CASE s.todo = {}
  <2>1. Step(h, Idle) /\ queue' = queue
    BY <1>2 DEF Clear
  <2>2. SyncOK(Idle) /\ Idle.step \notin {"MADE", "SYNCED", "CLEAR"}
    BY IdleIs
  <2>3. \A i \in Items : FitsAs(Idle, i, queue[i], Records(i)) /\ sync[h].now # i
    BY <1>1, IdleFits, ConstantsAssumption DEF FitsAs
  <2> QED BY <1>1, <2>1, <2>2, <2>3, OneSyncOnly
<1>3. CASE s.todo # {}
  <2>1. PICK j \in s.todo : Put(j, "GONE") /\ Step(h, [s EXCEPT !.todo = @ \ {j}])
    BY <1>3 DEF Clear
  <2> DEFINE n == [s EXCEPT !.todo = @ \ {j}]
  <2>2. SyncOK(n) /\ n.step = s.step /\ n.todo = s.todo \ {j} /\ n.now = s.now
    BY <1>1, LessIs
  <2>3. Step(h, n)
    BY <2>1
  <2> HIDE DEF n
  <2>4. /\ queue' \in [Items -> QueueStates] /\ stored' \in [Items -> Nat] /\ stray' \in [Items -> Nat]
        /\ \A i \in Items : stored'[i] >= stored[i]
        /\ \A i \in Items : queue'[i] = IF i = j THEN "GONE" ELSE queue[i]
    BY <1>1, <2>1, TypeIs DEF Put, QueueStates
  <2>5. mounted' \subseteq Hooks /\ faults' \in 0..MaxFaults /\ doubted' \subseteq Items
    BY <1>1 DEF TypeOK
  <2>6. ASSUME NEW i \in Items \ doubted'
        PROVE  /\ queue'[i] = queue[i] \/ i \in sync[h].todo \/ sync[h].now = i
               /\ stored'[i] + stray'[i] = stored[i] + stray[i] \/ sync[h].now = i
               /\ queue'[i] = "NEW" => queue[i] = "NEW"
               /\ FitsAs(n, i, queue'[i], stored'[i] + stray'[i])
               /\ queue'[i] \in {"PENDING", "FAILED"} /\ n.now # i =>
                    \/ stored'[i] + stray'[i] = 0
                    \/ queue[i] \in {"PENDING", "FAILED"} /\ sync[h].now # i
               /\ stored'[i] + stray'[i] <= 1
    <3>1. Fits(s, i) /\ Records(i) <= 1 /\ s.now # i
      BY <1>1, Now, ConstantsAssumption
    <3> QED BY <1>1, <2>1, <2>2, <2>4, <3>1 DEF Fits, FitsAs, Records
  <2>7. \A i \in Items : queue'[i] \in {"SYNCED", "GONE"} => queue[i] \in {"SYNCED", "GONE"} \/ stored'[i] > 0
    BY <1>1, <2>1, <2>4 DEF SyncKept
  <2>8. n.step = "CLEAR" => \A i \in n.todo : stored'[i] > 0
    BY <1>1, <2>2 DEF SyncKept
  <2> QED BY <1>1, <2>2, <2>3, <2>4, <2>5, <2>6, <2>7, <2>8, OneSync
<1> QED BY <1>2, <1>3

\* A request that is cut off is safe: its item is doubted from then on.
LEMMA CutOffStep ==
  ASSUME Safe, NEW h \in Hooks, NoAnswer(h) \/ Kill(h)
  PROVE  Safe'
<1> DEFINE s == sync[h]
           j == s.now
<1>1. TypeOK /\ SyncOK(s) /\ s.todo \subseteq Items /\ Syncing(h)
  <2>1. s.step \in Awaiting => s.step # "IDLE"
    BY DEF Awaiting
  <2> QED BY <2>1, Now DEF NoAnswer, Kill, Safe
<1>2. UNCHANGED <<queue, online, stored, outages>> /\ mounted' \subseteq Hooks /\ faults' \in 0..MaxFaults
  BY <1>1, ConstantsAssumption DEF NoAnswer, Kill, TypeOK
<1>3. doubted' = doubted \cup ({j} \ {Nothing}) /\ (j = Nothing => stray' = stray)
  <2>1. s.step \in Awaiting => j # Nothing
    BY <1>1 DEF SyncOK, Holding
  <2> QED BY <2>1 DEF NoAnswer, Kill, At
<1>4. stray' = stray \/ stray' = [stray EXCEPT ![j] = @ + 1]
  BY DEF NoAnswer, Kill, CutOff
<1>5. j \in Items \cup {Nothing} /\ doubted' \subseteq Items /\ doubted \subseteq doubted'
  BY <1>1, <1>3, Fields DEF TypeOK
<1>6. /\ stored \in [Items -> Nat] /\ stray \in [Items -> Nat] /\ queue \in [Items -> QueueStates]
      /\ \A i \in Items : stored[i] \in Nat /\ stray[i] \in Nat
  BY <1>1, TypeIs
<1>7. stray' \in [Items -> Nat] /\ \A i \in Items \ doubted' : stray'[i] = stray[i] /\ i # j
  <2> HIDE DEF j
  <2> QED BY <1>3, <1>4, <1>5, <1>6, ConstantsAssumption
<1>8. PICK n : /\ Step(h, n) /\ SyncOK(n) /\ (n.todo = s.todo \/ n.todo = {})
               /\ n.step \in {"IDLE", "SEND", "WAIT", "FAILED"} /\ n.now \in {Nothing, j}
               /\ n.todo = {} \/ s.step \in Awaiting
  <2>1. CASE NoAnswer(h)
    <3>1. s.step \in Awaiting /\ Step(h, Again(s))
      BY <2>1 DEF NoAnswer
    <3>2. /\ SyncOK(Again(s)) /\ Again(s).todo = s.todo
          /\ Again(s).step \in {"WAIT", "FAILED"} => Again(s).now = s.now
          /\ Again(s).step \in {"WAIT", "FAILED", "SEND"}
          /\ Again(s).step = "SEND" => Again(s).now = Nothing
      BY <1>1, <3>1, AgainIs
    <3> QED BY <3>1, <3>2
  <2>2. CASE Kill(h)
    <3>1. Step(h, Idle)
      BY <2>2 DEF Kill
    <3> QED BY <3>1, IdleIs
  <2> QED BY <2>1, <2>2
<1>9. ASSUME NEW i \in Items \ doubted'
      PROVE  /\ queue'[i] = queue[i] \/ i \in sync[h].todo \/ sync[h].now = i
             /\ stored'[i] + stray'[i] = stored[i] + stray[i] \/ sync[h].now = i
             /\ queue'[i] = "NEW" => queue[i] = "NEW"
             /\ FitsAs(n, i, queue'[i], stored'[i] + stray'[i])
             /\ queue'[i] \in {"PENDING", "FAILED"} /\ n.now # i =>
                  \/ stored'[i] + stray'[i] = 0
                  \/ queue[i] \in {"PENDING", "FAILED"} /\ sync[h].now # i
             /\ stored'[i] + stray'[i] <= 1
  <2>1. i \in Items \ doubted /\ i # Nothing /\ i # j /\ stray'[i] = stray[i] /\ queue'[i] = queue[i] /\ stored'[i] = stored[i]
    BY <1>2, <1>5, <1>7, ConstantsAssumption
  <2>2. Fits(s, i) /\ Records(i) <= 1
    BY <2>1, Now
  <2>3. FitsAs(n, i, queue[i], stored[i] + stray[i])
    <3>1. n.now # i
      BY <1>8, <2>1
    <3>2. CASE n.todo = {}
      BY <3>1, <3>2 DEF FitsAs
    <3>3. CASE s.step \in Awaiting
      BY <1>8, <3>1, <3>3, <2>2 DEF FitsAs, Fits, Awaiting
    <3> QED BY <1>8, <3>2, <3>3
  <2> QED BY <2>1, <2>2, <2>3 DEF Records
<1>10. n.step \notin {"MADE", "SYNCED", "CLEAR"}
  BY <1>8
<1>11. stored' \in [Items -> Nat] /\ queue' \in [Items -> QueueStates] /\ \A i \in Items : stored'[i] >= stored[i]
  BY <1>2, <1>6
<1> QED BY <1>1, <1>2, <1>5, <1>7, <1>8, <1>9, <1>10, <1>11, OneSync
-----------------------------------------------------------------------------
(* The page and the network                                                *)

\* A set of hooks without two elements.
LEMMA OnlyOne ==
  ASSUME NEW S \in SUBSET Hooks, ~(Cardinality(S) > 1), NEW g \in S, NEW h \in S
  PROVE  g = h
<1> SUFFICES ASSUME g # h
             PROVE  FALSE
  OBVIOUS
<1>1. IsFiniteSet({g}) /\ Cardinality({g}) = 1
  BY FS_Singleton
<1>2. IsFiniteSet({g} \cup {h}) /\ Cardinality({g} \cup {h}) = 2
  BY <1>1, FS_AddElement
<1>3. IsFiniteSet(S) /\ {g} \cup {h} \in SUBSET S
  BY ConstantsAssumption, FS_Subset
<1>4. Cardinality({g} \cup {h}) <= Cardinality(S) /\ Cardinality(S) \in Nat
  BY <1>3, FS_Subset, FS_CardinalityType
<1> QED BY <1>2, <1>4

\* Starting syncs is safe: with two at once every item that waits is doubted.
LEMMA Starting ==
  ASSUME Safe, NEW starting \in SUBSET Hooks, \A h \in starting : ~Syncing(h),
         sync' = [h \in Hooks |-> IF h \in starting THEN Started ELSE sync[h]],
         doubted' = doubted \cup Overlapping(starting), UNCHANGED <<queue, stored, stray>>,
         online' \in BOOLEAN, mounted' \subseteq Hooks, outages' \in 0..MaxOutages, faults' \in 0..MaxFaults
  PROVE  Safe'
<1>1. TypeOK /\ SyncsFit /\ \A i \in Items \ doubted : OnceFor(i)
  BY TypeIs DEF Safe, Once
<1>2. \A h \in Hooks : sync'[h] = IF h \in starting THEN Started ELSE sync[h]
  OBVIOUS
<1>3. TypeOK'
  <2>1. SyncsFit'
    BY <1>1, <1>2, StartedIs DEF SyncsFit, SyncOK
  <2>2. Overlapping(starting) \subseteq Items
    BY DEF Overlapping
  <2>3. /\ queue' \in [Items -> QueueStates] /\ stored' \in [Items -> Nat] /\ stray' \in [Items -> Nat]
        /\ doubted' \subseteq Items
    BY <1>1, <2>2, TypeIs DEF TypeOK
  <2> QED BY <2>1, <2>3, TypeKept
<1>4. Kept'
  <2>1. \A h \in Hooks : sync'[h] = sync[h] \/ SyncKept(sync[h])'
    BY <1>2, StartedIs DEF SyncKept
  <2>2. \A i \in Items : stored'[i] >= stored[i]
    BY <1>1, TypeIs
  <2> QED BY <1>3, <2>1, <2>2, KeepKept
<1>5. ASSUME NEW i \in Items \ doubted'
      PROVE  OnceFor(i)'
  <2>1. OnceFor(i) /\ i \notin Overlapping(starting) /\ i # Nothing
    BY <1>1, ConstantsAssumption
  <2>2. Alone(i)'
    <3> DEFINE busy == starting \cup {h \in Hooks : Syncing(h)}
    <3> SUFFICES ASSUME queue[i] \notin {"NEW", "GONE"}, NEW g \in Hooks, NEW h \in Hooks, Syncing(g)', Syncing(h)'
                 PROVE  g = h
      BY DEF Alone
    <3>1. g \in busy /\ h \in busy
      BY <1>2 DEF Syncing
    <3>2. CASE starting = {}
      BY <2>1, <3>1, <3>2 DEF OnceFor, Alone
    <3>3. CASE starting # {}
      <4>1. ~(Cardinality(busy) > 1)
        BY <2>1, <3>3 DEF Overlapping, Waiting
      <4>2. busy \in SUBSET Hooks
        OBVIOUS
      <4> HIDE DEF busy
      <4> QED BY <3>1, <4>1, <4>2, OnlyOne
    <3> QED BY <3>2, <3>3
  <2>3. ASSUME NEW h \in Hooks
        PROVE  Fits(sync[h], i)'
    <3>1. CASE h \in starting
      <4>1. sync'[h].step = "RESET" /\ sync'[h].todo = Waiting("FAILED") /\ sync'[h].now # i
        BY <1>2, <2>1, <3>1, StartedIs
      <4> QED BY <4>1 DEF Fits, Waiting
    <3>2. CASE h \notin starting
      <4>1. sync'[h] = sync[h] /\ Fits(sync[h], i)
        BY <1>2, <2>1, <3>2 DEF OnceFor
      <4> QED BY <4>1 DEF Fits, Records
    <3> QED BY <3>1, <3>2
  <2>4. ASSUME \A h \in Hooks : sync'[h].now # i
        PROVE  \A h \in Hooks : sync[h].now # i
    BY <1>2, <2>1, <2>4, IdleIs DEF Syncing
  <2>5. Records(i)' = Records(i)
    BY DEF Records
  <2> QED BY <2>1, <2>2, <2>3, <2>4, <2>5 DEF OnceFor
<1> QED BY <1>3, <1>4, <1>5 DEF Safe, Once

\* The network comes back or goes, and the page is opened or left.
LEMMA PageStep ==
  ASSUME Safe, Reconnect \/ Disconnect \/ \E h \in Hooks : Open(h) \/ Leave(h)
  PROVE  Safe'
<1>1. TypeOK /\ sync \in [Hooks -> Progress]
  BY TypeIs DEF Safe, SyncsFit
<1>2. /\ online \in BOOLEAN /\ mounted \subseteq Hooks /\ outages \in 0..MaxOutages /\ faults \in 0..MaxFaults
      /\ MaxOutages \in Nat
  BY <1>1, ConstantsAssumption DEF TypeOK
<1>3. ASSUME sync' = sync, UNCHANGED <<queue, stored, stray, faults, doubted>>, online' \in BOOLEAN,
             mounted' \subseteq Hooks, outages' \in 0..MaxOutages
      PROVE  Safe'
  <2>1. Overlapping({}) = {}
    BY DEF Overlapping
  <2>2. sync' = [h \in Hooks |-> IF h \in {} THEN Started ELSE sync[h]]
    BY <1>1, <1>3
  <2>3. doubted' = doubted \cup Overlapping({})
    BY <1>3, <2>1
  <2>4. {} \in SUBSET Hooks /\ \A h \in {} : ~Syncing(h)
    OBVIOUS
  <2> QED BY <1>2, <1>3, <2>2, <2>3, <2>4, Starting
<1>4. CASE Reconnect
  <2> DEFINE starting == {h \in Hooks : WillSync(h)}
  <2>1. starting \in SUBSET Hooks /\ \A h \in starting : ~Syncing(h)
    BY DEF WillSync
  <2>2. /\ sync' = [h \in Hooks |-> IF h \in starting THEN Started ELSE sync[h]]
        /\ doubted' = doubted \cup Overlapping(starting) /\ online' = TRUE
        /\ UNCHANGED <<queue, mounted, stored, stray, outages, faults>>
    BY <1>4 DEF Reconnect
  <2> HIDE DEF starting
  <2> QED BY <1>2, <2>1, <2>2, Starting
<1>5. CASE Disconnect
  <2>1. outages' \in 0..MaxOutages
    BY <1>2, <1>5 DEF Disconnect
  <2> QED BY <1>2, <1>3, <1>5, <2>1 DEF Disconnect
<1>6. ASSUME NEW h \in Hooks, Open(h)
      PROVE  Safe'
  <2>1. sync[h] = Idle /\ UNCHANGED <<queue, online, stored, stray, outages, faults>> /\ mounted' \subseteq Hooks
    BY <1>2, <1>6 DEF Open, Syncing
  <2>2. CASE online
    <3>1. sync' = [g \in Hooks |-> IF g \in {h} THEN Started ELSE sync[g]]
      BY <1>1, <1>6, <2>2 DEF Open, Step
    <3>2. doubted' = doubted \cup Overlapping({h})
      BY <1>6, <2>2 DEF Open
    <3>3. {h} \in SUBSET Hooks /\ \A g \in {h} : ~Syncing(g)
      BY <2>1 DEF Syncing
    <3> QED BY <1>2, <2>1, <3>1, <3>2, <3>3, Starting
  <2>3. CASE ~online
    <3>1. sync' = sync /\ doubted' = doubted
      BY <1>1, <1>6, <2>1, <2>3 DEF Open, Step
    <3> QED BY <1>2, <1>3, <2>1, <3>1
  <2> QED BY <2>2, <2>3
<1>7. ASSUME NEW h \in Hooks, Leave(h)
      PROVE  Safe'
  BY <1>2, <1>3, <1>7 DEF Leave
<1> QED BY <1>4, <1>5, <1>6, <1>7

\* Entering an item is safe: nobody is at it, and two syncs running make it doubted.
LEMMA EnterStep ==
  ASSUME Safe, NEW j \in Items, Enter(j)
  PROVE  Safe'
<1> DEFINE busy == {h \in Hooks : Syncing(h)}
<1>1. TypeOK /\ SyncsFit /\ \A i \in Items \ doubted : OnceFor(i)
  BY TypeIs DEF Safe, Once
<1>2. /\ queue[j] = "NEW" /\ UNCHANGED <<online, mounted, sync, stored, stray, outages, faults>>
      /\ doubted' = IF Cardinality(busy) > 1 THEN doubted \cup {j} ELSE doubted
  BY DEF Enter
<1>3. queue' \in [Items -> QueueStates] /\ \A i \in Items : queue'[i] = IF i = j THEN "PENDING" ELSE queue[i]
  BY <1>1, TypeIs DEF Enter, QueueStates
<1>4. TypeOK'
  <2>1. SyncsFit' /\ doubted' \subseteq Items
    BY <1>1, <1>2 DEF SyncsFit, TypeOK
  <2>2. /\ stored' \in [Items -> Nat] /\ stray' \in [Items -> Nat] /\ online' \in BOOLEAN /\ mounted' \subseteq Hooks
        /\ outages' \in 0..MaxOutages /\ faults' \in 0..MaxFaults
    BY <1>1, <1>2 DEF TypeOK
  <2> QED BY <1>3, <2>1, <2>2, TypeKept
<1>5. Kept'
  <2>1. \A i \in Items : stored'[i] >= stored[i]
    BY <1>1, <1>2, TypeIs
  <2> QED BY <1>2, <1>3, <1>4, <2>1, KeepKept
<1>6. ASSUME NEW i \in Items \ doubted', i # j
      PROVE  OnceFor(i)'
  <2>1. OnceFor(i) /\ queue'[i] = queue[i] /\ sync' = sync /\ Records(i)' = Records(i)
    BY <1>1, <1>2, <1>3, <1>6 DEF Records
  <2>2. Alone(i)'
    BY <2>1 DEF OnceFor, Alone, Syncing
  <2>3. \A h \in Hooks : Fits(sync[h], i)'
    BY <2>1 DEF OnceFor, Fits
  <2> QED BY <2>1, <2>2, <2>3 DEF OnceFor
<1>7. ASSUME j \notin doubted'
      PROVE  OnceFor(j)'
  <2>1. OnceFor(j) /\ queue'[j] = "PENDING" /\ sync' = sync /\ Records(j)' = Records(j)
    BY <1>1, <1>2, <1>3, <1>7 DEF Records
  <2>2. Records(j) = 0 /\ \A h \in Hooks : j \notin sync[h].todo /\ sync[h].now # j
    BY <1>2, <2>1 DEF OnceFor, Fits
  <2>3. ~(Cardinality(busy) > 1) /\ busy \in SUBSET Hooks
    BY <1>2, <1>7
  <2>4. \A h \in Hooks : Syncing(h)' => h \in busy
    BY <2>1 DEF Syncing
  <2> HIDE DEF busy
  <2>5. \A g, h \in Hooks : Syncing(g)' /\ Syncing(h)' => g = h
    BY <2>3, <2>4, OnlyOne
  <2>6. Alone(j)'
    BY <2>5 DEF Alone
  <2>7. \A h \in Hooks : Fits(sync[h], j)'
    BY <2>1, <2>2 DEF Fits
  <2> QED BY <2>1, <2>2, <2>6, <2>7 DEF OnceFor
<1> QED BY <1>4, <1>5, <1>6, <1>7 DEF Safe, Once

\* A record made late was counted already.
LEMMA MakeLateStep ==
  ASSUME Safe, NEW j \in Items, MakeLate(j)
  PROVE  Safe'
<1>1. TypeOK /\ SyncsFit /\ \A i \in Items \ doubted : OnceFor(i)
  BY TypeIs DEF Safe, Once
<1>2. stray[j] > 0 /\ UNCHANGED <<queue, online, mounted, sync, outages, faults, doubted>>
  BY DEF MakeLate
<1>3. /\ stored' \in [Items -> Nat] /\ stray' \in [Items -> Nat]
      /\ \A i \in Items : stored'[i] >= stored[i] /\ stored'[i] + stray'[i] = stored[i] + stray[i]
  <2>1. /\ stored \in [Items -> Nat] /\ stray \in [Items -> Nat] /\ \A i \in Items : stored[i] \in Nat /\ stray[i] \in Nat
    BY <1>1, TypeIs
  <2> QED BY <1>2, <2>1 DEF MakeLate
<1>4. TypeOK'
  <2>1. SyncsFit' /\ doubted' \subseteq Items
    BY <1>1, <1>2 DEF SyncsFit, TypeOK
  <2>2. /\ queue' \in [Items -> QueueStates] /\ online' \in BOOLEAN /\ mounted' \subseteq Hooks
        /\ outages' \in 0..MaxOutages /\ faults' \in 0..MaxFaults
    BY <1>1, <1>2, TypeIs DEF TypeOK
  <2> QED BY <1>3, <2>1, <2>2, TypeKept
<1>5. Kept'
  BY <1>2, <1>3, <1>4, KeepKept
<1>6. ASSUME NEW i \in Items \ doubted'
      PROVE  OnceFor(i)'
  <2>1. OnceFor(i) /\ queue' = queue /\ sync' = sync /\ Records(i)' = Records(i)
    BY <1>1, <1>2, <1>3 DEF Records
  <2>2. Alone(i)' /\ \A h \in Hooks : Fits(sync[h], i)'
    BY <2>1 DEF OnceFor, Alone, Syncing, Fits
  <2> QED BY <2>1, <2>2 DEF OnceFor
<1> QED BY <1>4, <1>5, <1>6 DEF Safe, Once

-----------------------------------------------------------------------------
(* The theorems                                                            *)

\* At first nothing is entered, made or on its way.
LEMMA SafeInit ==
  ASSUME Init
  PROVE  Safe
<1>1. SyncOK(Idle) /\ \A h \in Hooks : sync[h] = Idle
  BY IdleIs DEF Init
<1>2. SyncsFit
  BY <1>1 DEF Init, SyncsFit, SyncOK
<1>3. 0 \in 0..MaxOutages /\ 0 \in 0..MaxFaults
  BY ConstantsAssumption
<1>4. TypeOK
  <2>1. \A h \in Hooks : /\ sync[h].now # Nothing <=> sync[h].step \in Awaiting \cup {"SYNCED", "FAILED"}
                         /\ sync[h].step \in Awaiting => sync[h].tries > 0
    BY <1>2 DEF SyncsFit, SyncOK, Holding
  <2> QED BY <1>2, <1>3, <2>1 DEF Init, TypeOK, SyncsFit, Progress
<1>5. Kept
  BY <1>1, IdleIs DEF Init, Kept, SyncKept
<1>6. ASSUME NEW i \in Items
      PROVE  OnceFor(i)
  <2>1. queue[i] = "NEW" /\ Records(i) = 0
    BY DEF Init, Records
  <2>2. \A h \in Hooks : Fits(sync[h], i)
    BY <1>1, IdleFits DEF Fits
  <2> QED BY <2>1, <2>2 DEF OnceFor, Alone
<1> QED BY <1>4, <1>5, <1>6 DEF Safe, Once

\* Every step keeps the invariant.
LEMMA SafeNext ==
  ASSUME Safe, [Next]_vars
  PROVE  Safe'
<1>1. CASE UNCHANGED vars
  BY <1>1 DEF vars, Safe, TypeOK, Kept, SyncKept, Once, OnceFor, Alone, Syncing, Fits, Records
<1>2. ASSUME NEW i \in Items, Enter(i) \/ MakeLate(i)
      PROVE  Safe'
  BY <1>2, EnterStep, MakeLateStep
<1>3. CASE Reconnect \/ Disconnect
  BY <1>3, PageStep
<1>4. ASSUME NEW h \in Hooks, SyncStep(h)
      PROVE  Safe'
  <2>1. CASE PutBack(h) \/ ReadPending(h) \/ Send(h)
    BY <2>1, PutBackStep, ReadPendingStep, SendStep
  <2>2. CASE Make(h) \/ Answer(h) \/ Refuse(h) \/ NoNetwork(h)
    BY <2>2, MakeStep, AnswerStep
  <2>3. CASE Mark(h) \/ ReadSynced(h) \/ Clear(h)
    BY <2>3, MarkStep, ReadSyncedStep, ClearStep
  <2> QED BY <1>4, <2>1, <2>2, <2>3 DEF SyncStep
<1>5. ASSUME NEW h \in Hooks, Open(h) \/ Leave(h)
      PROVE  Safe'
  BY <1>5, PageStep
<1>6. ASSUME NEW h \in Hooks, NoAnswer(h) \/ Kill(h)
      PROVE  Safe'
  BY <1>6, CutOffStep
<1> QED BY <1>1, <1>2, <1>3, <1>4, <1>5, <1>6 DEF Next

LEMMA AlwaysSafe == Spec => []Safe
<1>1. Init => Safe
  BY SafeInit
<1>2. Safe /\ [Next]_vars => Safe'
  BY SafeNext
<1> QED BY <1>1, <1>2, PTL DEF Spec

\* The stored items and the syncs stay well formed (enqueue, sync and the client's retries).
THEOREM TypeCorrect == Spec => []TypeOK
<1>1. Safe => TypeOK
  BY DEF Safe
<1> QED BY <1>1, AlwaysSafe, PTL

\* Nothing entered offline is lost: an item counts as sent, or is removed, only when the server has
\* made its record, for any number of items, tabs, outages, lost answers and killed pages.
THEOREM NothingIsLost == Spec => []NothingLost
<1>1. Safe => NothingLost
  BY DEF Safe, Kept, NothingLost
<1> QED BY <1>1, AlwaysSafe, PTL

\* An item nobody cast a doubt on becomes one record at most: only a lost answer, a killed page or
\* two syncs at once make a second.
THEOREM OnceOnly == Spec => []OnceUnlessDoubted
<1>1. Safe => OnceUnlessDoubted
  BY DEF Safe, Once, OnceFor, OnceUnlessDoubted, Records
<1> QED BY <1>1, AlwaysSafe, PTL
=============================================================================
