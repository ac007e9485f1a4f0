----------------------------- MODULE OfflineQueue -----------------------------
(***************************************************************************)
(* What is entered at the till without a network and sent to the server    *)
(* later: OfflineQueue (src/web-app/src/lib/offline-queue.ts), the hook    *)
(* useSyncQueue (src/web-app/src/hooks/use-sync-queue.ts) and the retries  *)
(* of the HTTP client under it (src/web-app/src/lib/api.ts).               *)
(*                                                                         *)
(* An item waits in the browser's storage.  When the network comes back,   *)
(* and when the page is opened, every mounted hook starts a sync: it puts  *)
(* the FAILED items back to PENDING, reads the PENDING ones, posts them    *)
(* one by one and in the end removes the SYNCED ones.  Every read and      *)
(* every write of the storage is an await of its own.  Nothing tells the   *)
(* server that a post repeats an earlier one.                              *)
(***************************************************************************)
EXTENDS Naturals, FiniteSets

CONSTANTS
  Items,      \* what is entered offline: a repair, an expense, a notification read
  Refused,    \* those of Items the server answers with a 4xx, whenever it is asked
  Hooks,      \* mounted instances of the hook: a page opened again, a second tab
  Nothing,    \* no item
  MaxOutages, \* bound: times the network goes away again
  MaxFaults   \* bound: requests cut off and pages killed

ASSUME ConstantsAssumption ==
  /\ Refused \subseteq Items
  /\ Nothing \notin Items
  /\ IsFiniteSet(Hooks)
  /\ MaxOutages \in Nat
  /\ MaxFaults \in Nat

VARIABLES
  queue,    \* the stored status of each item; NEW: not entered yet, GONE: removed
  online,   \* what useNetworkStatus says
  mounted,  \* the instances that are on a page
  sync,     \* how far the sync of each instance has come
  stored,   \* how many records the server has made of each item
  stray,    \* requests nobody waits for any more that the server may still carry out
  outages,
  faults,
  doubted   \* items whose post was cut off, or waiting when two syncs ran at once

vars == <<queue, online, mounted, sync, stored, stray, outages, faults, doubted>>

Attempts == 3   \* MAX_RETRIES + 1

\* A post is under way: the server has not made the record yet, or it has and its answer is
Awaiting == {"WAIT", "MADE"}

Idle == [step |-> "IDLE", todo |-> {}, now |-> Nothing, tries |-> 0]
Waiting(status) == {i \in Items : queue[i] = status}

Init ==
  /\ queue = [i \in Items |-> "NEW"]
  /\ online = FALSE
  /\ mounted = {}
  /\ sync = [h \in Hooks |-> Idle]
  /\ stored = [i \in Items |-> 0]
  /\ stray = [i \in Items |-> 0]
  /\ outages = 0
  /\ faults = 0
  /\ doubted = {}

-----------------------------------------------------------------------------
(* The page and the network                                                *)

Step(h, next) == sync' = [sync EXCEPT ![h] = next]
Syncing(h) == sync[h] # Idle

\* Mutant: FAILED items stay FAILED
StartedPendingOnly == [Idle EXCEPT !.step = "RESET"]

\* sync() begins with resetFailed, which reads the FAILED items first
Started == [Idle EXCEPT !.step = "RESET", !.todo = Waiting("FAILED")]

\* Mutant: the ref does not keep a second sync of the hook away
WillSyncAlways(h) == h \in mounted

\* The effect of a mounted hook, unless its sync is still running
WillSync(h) == h \in mounted /\ ~Syncing(h)

\* Two syncs at once may send any item that waits
Overlapping(starting) ==
  IF starting # {} /\ Cardinality(starting \cup {h \in Hooks : Syncing(h)}) > 1
  THEN Items \ (Waiting("NEW") \cup Waiting("GONE")) ELSE {}

\* enqueue
Enter(i) ==
  /\ ~online
  /\ queue[i] = "NEW"
  /\ queue' = [queue EXCEPT ![i] = "PENDING"]
  /\ doubted' = IF Cardinality({h \in Hooks : Syncing(h)}) > 1 THEN doubted \cup {i} ELSE doubted
  /\ UNCHANGED <<online, mounted, sync, stored, stray, outages, faults>>

Reconnect ==
  LET starting == {h \in Hooks : WillSync(h)} IN
  /\ ~online
  /\ online' = TRUE
  /\ sync' = [h \in Hooks |-> IF h \in starting THEN Started ELSE sync[h]]
  /\ doubted' = doubted \cup Overlapping(starting)
  /\ UNCHANGED <<queue, mounted, stored, stray, outages, faults>>

Disconnect ==
  /\ online
  /\ outages < MaxOutages
  /\ online' = FALSE
  /\ outages' = outages + 1
  /\ UNCHANGED <<queue, mounted, sync, stored, stray, faults, doubted>>

\* The page is opened: the effect runs at once when the network is there
Open(h) ==
  /\ h \notin mounted
  /\ ~Syncing(h)
  /\ mounted' = mounted \cup {h}
  /\ Step(h, IF online THEN Started ELSE Idle)
  /\ doubted' = doubted \cup (IF online THEN Overlapping({h}) ELSE {})
  /\ UNCHANGED <<queue, online, stored, stray, outages, faults>>

\* The page is left; a sync under way goes on
Leave(h) ==
  /\ h \in mounted
  /\ mounted' = mounted \ {h}
  /\ UNCHANGED <<queue, online, sync, stored, stray, outages, faults, doubted>>

-----------------------------------------------------------------------------
(* A sync                                                                  *)

At(h, step) == sync[h].step = step
Put(i, status) == queue' = [queue EXCEPT ![i] = status]

\* Mutant: the loop goes on without forgetting the item it has marked
FollowingKept(s) == [s EXCEPT !.step = "SEND"]

\* The next item of the snapshot, or the end of the round
Following(s) == [Idle EXCEPT !.step = "SEND", !.todo = s.todo]

\* resetFailed writes back what it has read, one item at a time
PutBack(h) ==
  /\ At(h, "RESET")
  /\ \E i \in sync[h].todo :
       /\ Put(i, "PENDING")
       /\ Step(h, [sync[h] EXCEPT !.todo = @ \ {i}])
  /\ UNCHANGED <<online, mounted, stored, stray, outages, faults, doubted>>

\* getPending: what is to be sent in this round; nothing to send ends it
ReadPending(h) ==
  /\ At(h, "RESET")
  /\ sync[h].todo = {}
  /\ Step(h, IF Waiting("PENDING") = {} THEN Idle
             ELSE [Idle EXCEPT !.step = "SEND", !.todo = Waiting("PENDING")])
  /\ UNCHANGED <<queue, online, mounted, stored, stray, outages, faults, doubted>>

Send(h) ==
  /\ At(h, "SEND")
  /\ \E i \in sync[h].todo :
       Step(h, [step |-> "WAIT", todo |-> sync[h].todo \ {i}, now |-> i,
                tries |-> Attempts])
  /\ UNCHANGED <<queue, online, mounted, stored, stray, outages, faults, doubted>>

\* The server makes the record, a new one for every request
Make(h) ==
  LET s == sync[h] IN
  /\ At(h, "WAIT")
  /\ online
  /\ s.now \notin Refused
  /\ stored' = [stored EXCEPT ![s.now] = @ + 1]
  /\ Step(h, [s EXCEPT !.step = "MADE"])
  /\ UNCHANGED <<queue, online, mounted, stray, outages, faults, doubted>>

\* markSynced and markFailed look the item up first and do nothing when it is gone
Marking(s, step) ==
  IF queue[s.now] = "GONE" THEN Following(s)
  ELSE [Idle EXCEPT !.step = step, !.todo = s.todo, !.now = s.now]

Answer(h) ==
  LET s == sync[h] IN
  /\ At(h, "MADE")
  /\ Step(h, Marking(s, "SYNCED"))
  /\ UNCHANGED <<queue, online, mounted, stored, stray, outages, faults, doubted>>

\* A 4xx is not tried again
Refuse(h) ==
  LET s == sync[h] IN
  /\ At(h, "WAIT")
  /\ online
  /\ s.now \in Refused
  /\ Step(h, Marking(s, "FAILED"))
  /\ UNCHANGED <<queue, online, mounted, stored, stray, outages, faults, doubted>>

\* Mutant: whatever the last attempt brought, the item counts as sent
AgainSynced(s) ==
  IF s.tries > 1 THEN [s EXCEPT !.tries = @ - 1, !.step = "WAIT"] ELSE Marking(s, "SYNCED")

\* The client tries twice more when there is no answer, then the error reaches the sync
Again(s) ==
  IF s.tries > 1 THEN [s EXCEPT !.tries = @ - 1, !.step = "WAIT"] ELSE Marking(s, "FAILED")

\* Without a network the request does not leave the device
NoNetwork(h) ==
  /\ At(h, "WAIT")
  /\ ~online
  /\ Step(h, Again(sync[h]))
  /\ UNCHANGED <<queue, online, mounted, stored, stray, outages, faults, doubted>>

\* What was under way when the client stopped waiting: made already, still to be made, or lost
CutOff(s) ==
  IF s.step = "MADE" \/ s.now \in Refused THEN {stray}
  ELSE {stray, [stray EXCEPT ![s.now] = @ + 1]}

\* No answer in time: lost on the way, or the server is not done after 30 seconds
NoAnswer(h) ==
  LET s == sync[h] IN
  /\ s.step \in Awaiting
  /\ online
  /\ faults < MaxFaults
  /\ faults' = faults + 1
  /\ stray' \in CutOff(s)
  /\ doubted' = doubted \cup {s.now}
  /\ Step(h, Again(s))
  /\ UNCHANGED <<queue, online, mounted, stored, outages>>

MakeLate(i) ==
  /\ stray[i] > 0
  /\ stray' = [stray EXCEPT ![i] = @ - 1]
  /\ stored' = [stored EXCEPT ![i] = @ + 1]
  /\ UNCHANGED <<queue, online, mounted, sync, outages, faults, doubted>>

\* The write of markSynced or markFailed
Mark(h) ==
  LET s == sync[h] IN
  /\ s.step \in {"SYNCED", "FAILED"}
  /\ Put(s.now, s.step)
  /\ Step(h, Following(s))
  /\ UNCHANGED <<online, mounted, stored, stray, outages, faults, doubted>>

\* Mutant: the end of a round removes all it has read
ClearableAll == Items \ Waiting("NEW")

\* clearSynced removes what it reads as SYNCED
Clearable == Waiting("SYNCED")

ReadSynced(h) ==
  /\ At(h, "SEND")
  /\ sync[h].todo = {}
  /\ Step(h, [Idle EXCEPT !.step = "CLEAR", !.todo = Clearable])
  /\ UNCHANGED <<queue, online, mounted, stored, stray, outages, faults, doubted>>

Clear(h) ==
  /\ At(h, "CLEAR")
  /\ IF sync[h].todo = {} THEN Step(h, Idle) /\ UNCHANGED queue
     ELSE \E i \in sync[h].todo :
            /\ Put(i, "GONE")
            /\ Step(h, [sync[h] EXCEPT !.todo = @ \ {i}])
  /\ UNCHANGED <<online, mounted, stored, stray, outages, faults, doubted>>

\* The page is killed or loaded anew in the middle of a sync
Kill(h) ==
  LET s == sync[h] IN
  /\ Syncing(h)
  /\ faults < MaxFaults
  /\ faults' = faults + 1
  /\ mounted' = mounted \ {h}
  /\ Step(h, Idle)
  /\ stray' \in IF s.step \in Awaiting /\ online THEN CutOff(s) ELSE {stray}
  /\ doubted' = doubted \cup ({s.now} \ {Nothing})
  /\ UNCHANGED <<queue, online, stored, outages>>

-----------------------------------------------------------------------------

SyncStep(h) ==
  \/ PutBack(h) \/ ReadPending(h) \/ Send(h) \/ Make(h) \/ Answer(h) \/ Refuse(h)
  \/ NoNetwork(h) \/ Mark(h) \/ ReadSynced(h) \/ Clear(h)

Next ==
  \/ \E i \in Items : Enter(i) \/ MakeLate(i)
  \/ Reconnect \/ Disconnect
  \/ \E h \in Hooks : Open(h) \/ Leave(h) \/ SyncStep(h) \/ NoAnswer(h) \/ Kill(h)

\* The browser goes on with a sync that has begun.  Nobody has to come back to the page, and the
\* network need not come back.
Fairness == \A h \in Hooks : WF_vars(SyncStep(h))

Spec == Init /\ [][Next]_vars
FairSpec == Spec /\ Fairness

-----------------------------------------------------------------------------
(* Properties                                                              *)

Steps == {"IDLE", "RESET", "SEND", "WAIT", "MADE", "SYNCED", "FAILED", "CLEAR"}

\* The stored items and the syncs are well formed.
TypeOK ==
  /\ queue \in [Items -> {"NEW", "PENDING", "SYNCED", "FAILED", "GONE"}]
  /\ online \in BOOLEAN
  /\ mounted \subseteq Hooks
  /\ sync \in [Hooks -> [step : Steps, todo : SUBSET Items, now : Items \cup {Nothing}, tries : 0..Attempts]]
  /\ \A h \in Hooks :
       /\ sync[h].now # Nothing <=> sync[h].step \in Awaiting \cup {"SYNCED", "FAILED"}
       /\ sync[h].step \in Awaiting => sync[h].tries > 0
  /\ stored \in [Items -> Nat]
  /\ stray \in [Items -> Nat]
  /\ outages \in 0..MaxOutages
  /\ faults \in 0..MaxFaults
  /\ doubted \subseteq Items

\* Nothing entered offline is lost: an item leaves the queue, or counts as sent, only when the
\* server has made its record - whatever is cut off, killed or run twice.
NothingLost ==
  \A i \in Items : queue[i] \in {"SYNCED", "GONE"} => stored[i] > 0

\* An item becomes two records only when an answer was lost, the page was killed in the middle of
\* its post, or two syncs ran at once.
OnceUnlessDoubted ==
  \A i \in Items \ doubted : stored[i] + stray[i] <= 1

\* A page is opened while the network is there: a sync begins
OpenedOnline == \E h \in Hooks : online /\ Open(h)

\* If the page is opened with a network again and again, whatever the server does not refuse reaches
\* it in the end and waits no more, also when another item is refused every time and syncs were cut
\* off by an outage or killed.  The premise is needed: on a page that stays open and online nothing
\* begins a sync, and an item that failed there waits (the toast says it will be tried again).  A
\* SYNCED item may stay in the storage until the next sync that has something to send.
ItemsArrive ==
  []<><<OpenedOnline>>_vars =>
    \A i \in Items \ Refused : <>[](queue[i] \in {"NEW", "SYNCED", "GONE"})
=============================================================================
