------------------------------ MODULE RelayState -----------------------------
(***************************************************************************)
(* The relay state (models/state.go): settings, domain lists, subscribers, *)
(* followers and publishers live in Redis, and every process serves its    *)
(* requests from a snapshot of them in memory.                             *)
(*                                                                         *)
(* A process loads the snapshot, subscribes to relay_refresh and from then *)
(* on loads again for every notification.  A load reads one section of     *)
(* Redis after the other; for subscribers, followers and publishers it     *)
(* scans the keys first and reads the hashes afterwards.  Whoever edits    *)
(* the state writes to Redis and then publishes.  Only a publisher record  *)
(* is put into the snapshot directly, and not announced to anybody.        *)
(***************************************************************************)
EXTENDS Integers, Sequences

CONSTANTS Domain,      \* domains with a record or on a list
          Inbox,       \* inbox URLs of a subscriber
          Process,     \* processes with a snapshot: API servers, control tools
          Elsewhere,   \* other processes, whose snapshots are left out
          Writer,      \* requests and commands that edit the state
          Host,        \* Host[w]: the process a writer runs in
          Buffer,      \* notifications go-redis keeps for a slow process
          MaxWrites,   \* bound on edits
          MaxStateFaults \* bound on failed Redis calls and dead processes

ASSUME StateAssumption ==
    /\ Elsewhere \notin Process
    /\ Host \in [Writer -> Process \cup {Elsewhere}]
    /\ Buffer \in Nat \ {0}
    /\ MaxWrites \in Nat
    /\ MaxStateFaults \in Nat
    /\ Inbox \cap {"none", "blank", "broken"} = {}

Setting == {"PersonOnly", "ManuallyAccept"}
Section == {"config", "limited", "blocked", "subscribers", "followers"}
Scanned == {"subscribers", "followers"}
Key(s)  == IF s = "config" THEN Setting ELSE Domain

\* What Redis can hold for a key of a section.  A follower that an earlier
\* release stored without all its fields is "broken".
Stored(s) == CASE s = "subscribers" -> {"none"} \cup Inbox
               [] s = "followers"   -> {"none", "broken", "follows", "mutual"}
               [] OTHER             -> {"none", "set"}

\* What a snapshot can hold.  A subscriber read after its deletion is "blank".
Cached(s) == CASE s = "subscribers" -> {"none", "blank"} \cup Inbox
               [] s = "followers"   -> {"none", "follows", "mutual"}
               [] OTHER             -> {"none", "set"}

Empty == [s \in Section |-> [k \in Key(s) |-> "none"]]

\* The order of Load.
LoadOrder == << "config", "limited", "blocked",
                "scan", "subscribers", "scan", "followers",
                "scan", "publishers", "snapshot" >>

VARIABLES
    redis,      \* the hashes and keys of every section
    published,  \* published[d]: activity_count of relay:publisher:d, 0 if none
    mode,       \* how far a process is with NewState and ListenNotify
    cache,      \* its snapshot
    known,      \* known[p][d]: the activity count of d in its snapshot
    stage,      \* the step of its load, 0 when it is not loading
    buf,        \* what the load has read
    bufKnown,   \* ... of the publishers
    scan,       \* the keys the last scan found
    inbox,      \* notifications waiting for it
    wpc,        \* where a writer is
    wpub,       \* the activity counts a writer has still to remember
    lost,       \* history: a change the process will not be told of
    writes, stateFaults

cacheVars  == <<cache, known>>
loadVars   == <<stage, buf, bufKnown, scan>>
writerVars == <<wpc, wpub>>
stateVars  == <<redis, published, mode, cacheVars, loadVars, inbox, writerVars, lost,
                writes, stateFaults>>

NoPublishers == [d \in Domain |-> 0]

\* Redis may hold followers of an earlier release; no process runs.
StateInit ==
    /\ redis \in {[Empty EXCEPT !["followers"] = f] : f \in [Domain -> {"none", "broken"}]}
    /\ published = NoPublishers
    /\ mode = [p \in Process |-> "down"]
    /\ cache = [p \in Process |-> Empty]
    /\ known = [p \in Process |-> NoPublishers]
    /\ stage = [p \in Process |-> 0]
    /\ buf = [p \in Process |-> Empty]
    /\ bufKnown = [p \in Process |-> NoPublishers]
    /\ scan = [p \in Process |-> {}]
    /\ inbox = [p \in Process |-> 0]
    /\ wpc = [w \in Writer |-> "idle"]
    /\ wpub = [w \in Writer |-> NoPublishers]
    /\ lost = [p \in Process |-> FALSE]
    /\ writes = 0 /\ stateFaults = 0

StateFault == stateFaults < MaxStateFaults /\ stateFaults' = stateFaults + 1

-----------------------------------------------------------------------------
(* Processes and their loads                                               *)

\* NewState: the first load starts.
NewState(p) ==
    /\ mode[p] = "down"
    /\ mode' = [mode EXCEPT ![p] = "starting"]
    /\ cache' = [cache EXCEPT ![p] = Empty]
    /\ known' = [known EXCEPT ![p] = NoPublishers]
    /\ stage' = [stage EXCEPT ![p] = 1]
    /\ lost' = [lost EXCEPT ![p] = FALSE]
    /\ UNCHANGED <<redis, published, buf, bufKnown, scan, inbox, writerVars, writes, stateFaults>>

\* ListenNotify, after the first load succeeded or failed.
ListenNotify(p) ==
    /\ mode[p] = "loaded"
    /\ mode' = [mode EXCEPT ![p] = "listening"]
    /\ inbox' = [inbox EXCEPT ![p] = 0]
    /\ UNCHANGED <<redis, published, cacheVars, loadVars, writerVars, lost, writes, stateFaults>>

\* The goroutine of ListenNotify takes a notification and loads.
Reload(p) ==
    /\ mode[p] = "listening" /\ stage[p] = 0 /\ inbox[p] > 0
    /\ inbox' = [inbox EXCEPT ![p] = @ - 1]
    /\ stage' = [stage EXCEPT ![p] = 1]
    /\ lost' = [lost EXCEPT ![p] = FALSE]
    /\ UNCHANGED <<redis, published, mode, cacheVars, buf, bufKnown, scan, writerVars, writes, stateFaults>>

Reading(p, step) == stage[p] > 0 /\ LoadOrder[stage[p]] = step
Read(p) == stage' = [stage EXCEPT ![p] = @ + 1]

\* HMGet relay:config, HKeys of the two domain lists.
LoadHash(p, s) ==
    /\ s \notin Scanned
    /\ Reading(p, s)
    /\ buf' = [buf EXCEPT ![p][s] = redis[s]]
    /\ Read(p)
    /\ UNCHANGED <<redis, published, mode, cacheVars, bufKnown, scan, inbox, writerVars,
                   lost, writes, stateFaults>>

\* ScanKeys.
ScanKeys(p) ==
    /\ Reading(p, "scan")
    /\ LET s == LoadOrder[stage[p] + 1] IN
       scan' = [scan EXCEPT ![p] = IF s = "publishers"
                                   THEN {d \in Domain : published[d] > 0}
                                   ELSE {d \in Domain : redis[s][d] # "none"}]
    /\ Read(p)
    /\ UNCHANGED <<redis, published, mode, cacheVars, buf, bufKnown, inbox, writerVars,
                   lost, writes, stateFaults>>

\* A scanned hash that is gone has empty fields: a follower is dropped by
\* validateFollower, as an incomplete one is; a subscriber is kept.
Checked(s, v) == CASE s = "subscribers" /\ v = "none" -> "blank"
                   [] s = "followers" /\ v = "broken" -> "none"
                   [] OTHER                            -> v

\* loadHashes of the scanned subscribers or followers.
LoadHashes(p, s) ==
    /\ s \in Scanned
    /\ Reading(p, s)
    /\ buf' = [buf EXCEPT ![p][s] =
                  [d \in Domain |-> IF d \in scan[p] THEN Checked(s, redis[s][d]) ELSE "none"]]
    /\ Read(p)
    /\ UNCHANGED <<redis, published, mode, cacheVars, bufKnown, scan, inbox, writerVars,
                   lost, writes, stateFaults>>

\* loadHashes of the scanned publishers.
LoadPublishers(p) ==
    /\ Reading(p, "publishers")
    /\ bufKnown' = [bufKnown EXCEPT ![p] =
                       [d \in Domain |-> IF d \in scan[p] THEN published[d] ELSE 0]]
    /\ Read(p)
    /\ UNCHANGED <<redis, published, mode, cacheVars, buf, scan, inbox, writerVars,
                   lost, writes, stateFaults>>

\* A started process goes on, whether its first load succeeded or not.
Loaded(p) == /\ stage' = [stage EXCEPT ![p] = 0]
             /\ buf' = [buf EXCEPT ![p] = Empty]
             /\ bufKnown' = [bufKnown EXCEPT ![p] = NoPublishers]
             /\ scan' = [scan EXCEPT ![p] = {}]
             /\ mode' = [mode EXCEPT ![p] = IF @ = "starting" THEN "loaded" ELSE @]

\* Mutant: the snapshot takes the waiting notifications with it.
SnapshotDrains(p) ==
    /\ Reading(p, "snapshot")
    /\ cache' = [cache EXCEPT ![p] = buf[p]]
    /\ known' = [known EXCEPT ![p] = bufKnown[p]]
    /\ Loaded(p)
    /\ inbox' = [inbox EXCEPT ![p] = 0]
    /\ UNCHANGED <<redis, published, writerVars, lost, writes, stateFaults>>

\* The end of Load: the whole snapshot is replaced under the lock.
Snapshot(p) ==
    /\ Reading(p, "snapshot")
    /\ cache' = [cache EXCEPT ![p] = buf[p]]
    /\ known' = [known EXCEPT ![p] = bufKnown[p]]
    /\ Loaded(p)
    /\ UNCHANGED <<redis, published, inbox, writerVars, lost, writes, stateFaults>>

\* A Redis call of Load fails: the snapshot stays, and nobody tries again.
LoadFails(p) ==
    /\ stage[p] > 0 /\ ~Reading(p, "snapshot")
    /\ StateFault
    /\ Loaded(p)
    /\ lost' = [lost EXCEPT ![p] = TRUE]
    /\ UNCHANGED <<redis, published, cacheVars, inbox, writerVars, writes>>

-----------------------------------------------------------------------------
(* Edits                                                                   *)

\* A request or command edits the state and goes on to refresh.
Edit(w, to) ==
    /\ wpc[w] = "idle"
    /\ \A p \in Process : Host[w] = p => mode[p] = "listening"
    /\ writes < MaxWrites
    /\ writes' = writes + 1
    /\ wpc' = [wpc EXCEPT ![w] = to]

Store(w, s, k, v) ==
    /\ Edit(w, "publish")
    /\ redis' = [redis EXCEPT ![s][k] = v]
    /\ UNCHANGED <<published, mode, cacheVars, loadVars, inbox, wpub, lost, stateFaults>>

OnOff == {"none", "set"}

SetConfig(w, key, value) == Store(w, "config", key, value)
SetBlockedDomain(w, d, value) == Store(w, "blocked", d, value)
SetLimitedDomain(w, d, value) == Store(w, "limited", d, value)
AddSubscriber(w, d, i) == Store(w, "subscribers", d, i)
DelSubscriber(w, d) == Store(w, "subscribers", d, "none")
AddFollowerChecked(w, d) == Store(w, "followers", d, "follows")
DelFollower(w, d) == Store(w, "followers", d, "none")

\* updateFollowerStatusScript: a missing follower stays missing and nothing
\* is announced, an incomplete one is removed.
UpdateFollowerStatusChecked(w, d, status) ==
    /\ redis["followers"][d] # "none"
    /\ Store(w, "followers", d, IF redis["followers"][d] = "broken" THEN "none" ELSE status)

\* A write of an edit without an error result fails; refresh runs all the same.
StoreFails(w) ==
    /\ Edit(w, "publish")
    /\ StateFault
    /\ UNCHANGED <<redis, published, mode, cacheVars, loadVars, inbox, wpub, lost>>

\* Mutant: only the process of the writer is told.
PublishToItself(w) ==
    /\ wpc[w] = "publish"
    /\ wpc' = [wpc EXCEPT ![w] = "idle"]
    /\ inbox' = [p \in Process |-> IF p = Host[w] /\ inbox[p] < Buffer
                                   THEN inbox[p] + 1 ELSE inbox[p]]
    /\ lost' = [p \in Process |-> lost[p] \/ mode[p] \in {"starting", "loaded"}]
    /\ UNCHANGED <<redis, published, mode, cacheVars, loadVars, wpub, writes, stateFaults>>

\* refresh: the notification reaches whoever listens.
Publish(w) ==
    /\ wpc[w] = "publish"
    /\ wpc' = [wpc EXCEPT ![w] = "idle"]
    /\ inbox' = [p \in Process |-> IF mode[p] = "listening" /\ inbox[p] < Buffer
                                   THEN inbox[p] + 1 ELSE inbox[p]]
    /\ lost' = [p \in Process |-> lost[p] \/ mode[p] \in {"starting", "loaded"}]
    /\ UNCHANGED <<redis, published, mode, cacheVars, loadVars, wpub, writes, stateFaults>>

\* The notification does not reach Redis (its error is not looked at), or a
\* process elsewhere dies before it sends it.
PublishFails(w) ==
    /\ wpc[w] = "publish"
    /\ StateFault
    /\ wpc' = [wpc EXCEPT ![w] = "idle"]
    /\ lost' = [p \in Process |-> TRUE]
    /\ UNCHANGED <<redis, published, mode, cacheVars, loadVars, inbox, wpub, writes>>

\* The subscription breaks with a notification on its way, and is set up again.
MissNotification(p) ==
    /\ inbox[p] > 0
    /\ StateFault
    /\ inbox' = [inbox EXCEPT ![p] = @ - 1]
    /\ lost' = [lost EXCEPT ![p] = TRUE]
    /\ UNCHANGED <<redis, published, mode, cacheVars, loadVars, writerVars, writes>>

\* RecordPublisherActivity: one transaction in Redis ...
RecordPublisherActivity(w, d) ==
    /\ Edit(w, "remember")
    /\ published' = [published EXCEPT ![d] = @ + 1]
    /\ wpub' = [wpub EXCEPT ![w] = [NoPublishers EXCEPT ![d] = published[d] + 1]]
    /\ UNCHANGED <<redis, mode, cacheVars, loadVars, inbox, lost, stateFaults>>

Remembered(w) ==
    /\ wpc' = [wpc EXCEPT ![w] = "idle"]
    /\ wpub' = [wpub EXCEPT ![w] = NoPublishers]

\* Mutant: whoever comes last wins.
RememberLast(w) ==
    /\ wpc[w] = "remember"
    /\ known' = [p \in Process |-> [d \in Domain |->
                    IF p = Host[w] /\ wpub[w][d] > 0 THEN wpub[w][d] ELSE known[p][d]]]
    /\ Remembered(w)
    /\ UNCHANGED <<redis, published, mode, cache, loadVars, inbox, lost, writes, stateFaults>>

\* ... and then the snapshot, unless another request was faster.
RememberPublisher(w) ==
    /\ wpc[w] = "remember"
    /\ known' = [p \in Process |-> [d \in Domain |->
                    IF p = Host[w] /\ wpub[w][d] > known[p][d] THEN wpub[w][d] ELSE known[p][d]]]
    /\ Remembered(w)
    /\ UNCHANGED <<redis, published, mode, cache, loadVars, inbox, lost, writes, stateFaults>>

\* HGet of first_seen fails between the two.
RememberFails(w) ==
    /\ wpc[w] = "remember"
    /\ StateFault
    /\ Remembered(w)
    /\ UNCHANGED <<redis, published, mode, cacheVars, loadVars, inbox, lost, writes>>

\* A process ends or dies, with all it was doing; a change it had not
\* announced is announced by nobody.
Stop(p) ==
    /\ mode[p] # "down"
    /\ StateFault
    /\ mode' = [mode EXCEPT ![p] = "down"]
    /\ stage' = [stage EXCEPT ![p] = 0]
    /\ buf' = [buf EXCEPT ![p] = Empty]
    /\ bufKnown' = [bufKnown EXCEPT ![p] = NoPublishers]
    /\ scan' = [scan EXCEPT ![p] = {}]
    /\ inbox' = [inbox EXCEPT ![p] = 0]
    /\ wpc' = [w \in Writer |-> IF Host[w] = p THEN "idle" ELSE wpc[w]]
    /\ wpub' = [w \in Writer |-> IF Host[w] = p THEN NoPublishers ELSE wpub[w]]
    /\ lost' = [q \in Process |-> lost[q] \/ \E w \in Writer : Host[w] = p /\ wpc[w] = "publish"]
    /\ UNCHANGED <<redis, published, cacheVars, writes>>

-----------------------------------------------------------------------------
Load(p) == \/ \E s \in Section : LoadHash(p, s) \/ LoadHashes(p, s)
           \/ ScanKeys(p)
           \/ LoadPublishers(p)
           \/ Snapshot(p)

Change(w) ==
    \/ \E key \in Setting, value \in OnOff : SetConfig(w, key, value)
    \/ \E d \in Domain, value \in OnOff : SetBlockedDomain(w, d, value) \/ SetLimitedDomain(w, d, value)
    \/ \E d \in Domain, i \in Inbox : AddSubscriber(w, d, i)
    \/ \E d \in Domain : DelSubscriber(w, d) \/ AddFollowerChecked(w, d) \/ DelFollower(w, d)
    \/ \E d \in Domain, status \in {"follows", "mutual"} : UpdateFollowerStatusChecked(w, d, status)
    \/ \E d \in Domain : RecordPublisherActivity(w, d)

Finish(w) == Publish(w) \/ RememberPublisher(w)

StateNext == \/ \E p \in Process : \/ NewState(p) \/ ListenNotify(p) \/ Reload(p) \/ Load(p)
                                   \/ LoadFails(p) \/ MissNotification(p) \/ Stop(p)
             \/ \E w \in Writer : \/ Change(w) \/ StoreFails(w) \/ Finish(w)
                                  \/ PublishFails(w) \/ RememberFails(w)

StateSpec == StateInit /\ [][StateNext]_stateVars

\* The listener's goroutine and the rest of a request or command run on.
StateFairness ==
    /\ \A p \in Process : /\ WF_stateVars(ListenNotify(p))
                          /\ WF_stateVars(Reload(p))
                          /\ WF_stateVars(Load(p))
    /\ \A w \in Writer : WF_stateVars(Finish(w))

StateFairSpec == StateSpec /\ StateFairness

-----------------------------------------------------------------------------
(* Properties                                                              *)

\* Every variable has its type; in particular a snapshot never holds an
\* incomplete follower (validateFollower), whatever races with the load.
StateTypeOK ==
    /\ \A s \in Section : redis[s] \in [Key(s) -> Stored(s)]
    /\ \A p \in Process, s \in Section : /\ cache[p][s] \in [Key(s) -> Cached(s)]
                                         /\ buf[p][s] \in [Key(s) -> Cached(s)]
    /\ published \in [Domain -> Nat]
    /\ known \in [Process -> [Domain -> Nat]]
    /\ bufKnown \in [Process -> [Domain -> Nat]]
    /\ mode \in [Process -> {"down", "starting", "loaded", "listening"}]
    /\ stage \in [Process -> 0 .. Len(LoadOrder)]
    /\ scan \in [Process -> SUBSET Domain]
    /\ inbox \in [Process -> 0 .. Buffer]
    /\ wpc \in [Writer -> {"idle", "publish", "remember"}]
    /\ wpub \in [Writer -> [Domain -> Nat]]
    /\ lost \in [Process -> BOOLEAN]
    /\ writes \in 0 .. MaxWrites /\ stateFaults \in 0 .. MaxStateFaults

\* What a load that nothing races with makes of Redis.
Current(p) ==
    \A s \in Section : \A k \in Key(s) :
        cache[p][s][k] = IF redis[s][k] = "broken" THEN "none" ELSE redis[s][k]

\* A snapshot that differs from Redis, because of an edit or because a load
\* saw half of one, will be loaded again: a notification waits, an edit has
\* still to be announced or a load has not finished.  Only what was lost
\* (a change during the start, a failed load or publish, a broken
\* subscription, a writer that died) leaves a stale snapshot behind.
StaleIsReloaded ==
    \A p \in Process : mode[p] = "listening" /\ ~lost[p] /\ ~Current(p) =>
        \/ inbox[p] > 0
        \/ stage[p] > 0
        \/ \E w \in Writer : wpc[w] = "publish"

\* Requests that record activities of a publisher at the same time leave the
\* newest count in the snapshot; only a load may put it back.
NewestPublisherKept ==
    [][\A p \in Process, d \in Domain :
          known'[p][d] < known[p][d] => stage[p] > 0 \/ mode[p] = "down"]_stateVars

\* Once nobody edits the state any more, every process that has not lost a
\* change serves the state in Redis.
SnapshotsConverge ==
    <>[](\A p \in Process : mode[p] = "listening" /\ ~lost[p] => Current(p))
=============================================================================
