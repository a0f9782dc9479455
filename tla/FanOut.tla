------------------------------- MODULE FanOut --------------------------------
(***************************************************************************)
(* From an activity in the inbox to the delivery tasks of its receivers:   *)
(* the dispatch of handleInbox (api/handle.go), the three ways to relay an *)
(* activity and the choice of targets (api/resolver.go).                   *)
(*                                                                         *)
(* A handler reads the cached relay state several times, and hands the     *)
(* fan-out to goroutines that may read it again; a reload can replace the  *)
(* cache at any of these points.  The queue behind the tasks is Delivery.  *)
(***************************************************************************)
EXTENDS Integers, FiniteSets

CONSTANTS Key,         \* keys of receiver records
          Rank,        \* Rank[k]: the place of a key when they are sorted
          Domain,      \* Domain[n]: the normalized domain of a key
          Server,      \* domains that send activities
          Limit,       \* values of MAX_FANOUT_TARGETS
          MaxReloads   \* bound on changes of the cache during the handling

ASSUME FanOutAssumption ==
    /\ Rank \in [Key -> Nat]
    /\ \A k, l \in Key : Rank[k] = Rank[l] => k = l
    /\ Domain \in [Key -> STRING \ {""}]
    /\ Limit \subseteq Nat
    /\ MaxReloads \in Nat

Policy == {"explicit_public_only", "public_and_unlisted"}

\* A subscriber has an inbox that can be addressed, or not: it is stored and
\* loaded unchecked.  A follower has one, or validateFollower refuses it.
Record == {"none", "good", "bad"}
\* What the moderation of a sender allows.
Status == {"free", "limited", "blocked"}

\* What tells activities apart: where Public occurs, whether the relay actor or
\* one of its followers is addressed, the linked-data signature, and the object:
\* embedded with an ID of the sender's or of another domain, a URL, or no ID.
\* "Create" stands for Update, Delete and Move too, "Other" for all the rest.
\* Only what an activity of the type is asked for varies.
Activity ==
    {a \in [type : {"Create", "Announce", "Other"}, public : {"to", "cc", "none"},
            addressed : BOOLEAN, ld : BOOLEAN, object : {"own", "foreign", "url", "anonymous"},
            actor : Server, origin : Server] :
        /\ a.type # "Announce" => a.object \in {"own", "anonymous"}
        /\ a.object # "url" => a.origin = a.actor
        /\ a.type # "Create" => ~a.ld}
NoActivity == [type |-> "none"]

VARIABLES
    policy,   \* PUBLIC_ADDRESS_DISTRIBUTION_POLICY
    limit,    \* MAX_FANOUT_TARGETS
    cache,    \* the relay state in memory: subs, fols and status
    activity, pc,
    jobs,     \* fan-outs handed to goroutines
    tasks,    \* tasks: how a receiver is reached, and with which body
    snap,     \* history: the records the handler's fan-out was planned from
    refused,  \* history: fan-outs over the limit, targets without a plan
    known,    \* history: the sender, if it has been a receiver during the handling
    free,     \* history: the author, if it has been without limit and block
    reloads

fanOutVars == <<policy, limit, cache, activity, pc, jobs, tasks, snap, refused, known, free, reloads>>

Caches == [subs : [Key -> Record], fols : [Key -> {"none", "good"}], status : [Server -> Status]]

\* PublicAddressDistributionPolicy.Allows.
Allows(a) == a.public = "to" \/ (policy = "public_and_unlisted" /\ a.public = "cc")

\* Where handleInbox sends an activity.
Route(a) ==
    CASE Allows(a) /\ a.type = "Create" -> "relay"
      [] Allows(a) /\ a.type = "Announce" -> IF a.object = "own" THEN "embedded" ELSE "record"
      [] ~Allows(a) /\ a.addressed /\ a.type = "Announce" -> "announce"
      [] ~Allows(a) /\ ~a.addressed /\ a.public = "cc" /\ a.type \in {"Create", "Announce"} -> "record"
      [] OTHER -> "done"

\* isActorSubscribersOrFollowers: the normalized domain is looked up as a key.
Receivers(c) == {k \in Key : c.subs[k] # "none" \/ c.fols[k] # "none"}

\* Whose posts are relayed.
AuthorOf(a) == IF Route(a) = "announce" THEN a.origin ELSE a.actor
Author == AuthorOf(activity)

KnownSender(c, a) == {a.actor} \cap Receivers(c)
FreeAuthor(c, a) == {s \in {AuthorOf(a)} : c.status[s] = "free"}

\* Load replaces the cache.  It may hold any records; to keep the states few
\* one part of it changes at a time, and only while the activity is handled.
Reload ==
    /\ pc \notin {"idle", "done"} \/ jobs # {}
    /\ reloads < MaxReloads
    /\ reloads' = reloads + 1
    /\ \/ \E k \in Key, v \in Record : cache' = [cache EXCEPT !.subs[k] = v]
       \/ \E k \in Key, v \in {"none", "good"} : cache' = [cache EXCEPT !.fols[k] = v]
       \/ \E s \in Server, v \in Status : cache' = [cache EXCEPT !.status[s] = v]
    /\ known' = known \cup KnownSender(cache', activity)
    /\ free' = free \cup FreeAuthor(cache', activity)
    /\ UNCHANGED <<policy, limit, activity, pc, jobs, tasks, snap, refused>>

FanOutInit ==
    /\ policy \in Policy
    /\ limit \in Limit
    /\ cache \in Caches
    /\ activity = NoActivity
    /\ pc = "idle"
    /\ jobs = {} /\ tasks = {} /\ snap = {} /\ refused = {} /\ known = {} /\ free = {}
    /\ reloads = 0

-----------------------------------------------------------------------------
(* The choice of targets                                                   *)

Entries(style, records) ==
    {[name |-> k, style |-> style, inbox |-> records[k]] : k \in {n \in Key : records[n] # "none"}}

Subscribers(c) == Entries("subscriber", c.subs)
Followers(c) == Entries("follower", c.fols)
SubscribersAndFollowers(c) == Subscribers(c) \cup Followers(c)

\* The order of the lists: subscribers first, each kind sorted by key.
Before(d, e) == \/ d.style = "subscriber" /\ e.style = "follower"
                \/ d.style = e.style /\ Rank[d.name] < Rank[e.name]

\* Excluded domains and invalid inboxes are passed over.
Eligible(e, excluded) == Domain[e.name] \notin excluded /\ e.inbox # "bad"

SameDomain(d, e) == Domain[d.name] = Domain[e.name]

\* Mutant: the domains that are already chosen are not looked at.
TargetsUnseen(entries, excluded) == {e \in entries : Eligible(e, excluded)}

\* Mutant: an entry that is passed over counts as the target of its domain.
TargetsOfFirst(entries, excluded) ==
    {e \in entries : /\ Eligible(e, excluded)
                     /\ ~\E d \in entries : SameDomain(d, e) /\ Before(d, e)}

\* What the loop of enqueueActivityExcept leaves: of each domain the first
\* entry that is not passed over.
Targets(entries, excluded) ==
    {e \in entries : /\ Eligible(e, excluded)
                     /\ ~\E d \in entries : /\ Eligible(d, excluded)
                                            /\ SameDomain(d, e) /\ Before(d, e)}

-----------------------------------------------------------------------------
(* The handler                                                             *)

DispatchActivity(a) ==
    /\ pc = "idle"
    /\ activity' = a
    /\ pc' = Route(a)
    /\ known' = KnownSender(cache, a)
    /\ free' = FreeAuthor(cache, a)
    /\ UNCHANGED <<policy, limit, cache, jobs, tasks, snap, refused, reloads>>

\* Mutant: an Announce is taken from anyone.
AnnounceFromAnyone ==
    /\ pc = "announce"
    /\ pc' = IF activity.object = "url" THEN "relay" ELSE "done"
    /\ UNCHANGED <<policy, limit, cache, activity, jobs, tasks, snap, refused, known, free, reloads>>

\* A referenced Announce is taken only from a receiver, and only if its object
\* is a URL; its original is fetched, and its author is then the one judged.
\* The canonical marker of executeAnnounceActivity is RelayLoop.
AnnounceFromReceiver ==
    /\ pc = "announce"
    /\ pc' = IF activity.actor \in Receivers(cache) /\ activity.object = "url" THEN "relay" ELSE "done"
    /\ UNCHANGED <<policy, limit, cache, activity, jobs, tasks, snap, refused, known, free, reloads>>

\* isActorBlocked and isActorAbleToRelay.
CheckSender ==
    /\ pc \in {"relay", "embedded"}
    /\ pc' = IF cache.status[Author] = "free" THEN "account" ELSE "done"
    /\ UNCHANGED <<policy, limit, cache, activity, jobs, tasks, snap, refused, known, free, reloads>>

\* recordPublisherActivity asks again: a block ends the handling, a limit
\* found here does not.  With "record" it is all that happens.
RecordPublisherActivity ==
    /\ pc \in {"account", "record"}
    /\ pc' = IF pc = "record" \/ cache.status[Author] = "blocked" THEN "done" ELSE "plan"
    /\ UNCHANGED <<policy, limit, cache, activity, jobs, tasks, snap, refused, known, free, reloads>>

Fixed(entries, excluded, body) ==
    [entries |-> entries, excluded |-> excluded, body |-> body, late |-> FALSE]
Late(excluded) ==
    [entries |-> {}, excluded |-> excluded, body |-> "announce", late |-> TRUE]

Domains(entries) == {Domain[e.name] : e \in entries}

\* executeRelayActivity plans both fan-outs from one snapshot: the original
\* body for subscribers if it carries a linked-data signature, an Announce for
\* the followers that are not subscribers, or an Announce for all.
Plan(c, a) ==
    IF a.ld
    THEN {Fixed(Subscribers(c), {a.actor}, "original")} \cup
         (IF a.object = "anonymous" THEN {}
          ELSE {Fixed(Followers(c),
                      {a.actor} \cup Domains(Subscribers(c)), "announce")})
    ELSE IF a.object = "anonymous" THEN {}
         ELSE {Fixed(SubscribersAndFollowers(c), {a.actor}, "announce")}

ExecuteRelayActivity ==
    /\ pc = "plan" /\ Route(activity) = "relay"
    /\ jobs' = Plan(cache, activity)
    /\ snap' = {cache}
    /\ pc' = "done"
    /\ UNCHANGED <<policy, limit, cache, activity, tasks, refused, known, free, reloads>>

\* Mutant: the Announce is not kept from the server of the author.
AnnounceToAuthor ==
    /\ pc = "plan" /\ Route(activity) \in {"embedded", "announce"}
    /\ jobs' = {Late({activity.actor})}
    /\ pc' = "done"
    /\ UNCHANGED <<policy, limit, cache, activity, tasks, snap, refused, known, free, reloads>>

\* executeEmbeddedAnnounceActivity and executeAnnounceActivity: one Announce
\* for all, whose receivers the goroutine reads.
AnnounceToAll ==
    /\ pc = "plan" /\ Route(activity) \in {"embedded", "announce"}
    /\ jobs' = {Late({activity.actor, Author})}
    /\ pc' = "done"
    /\ UNCHANGED <<policy, limit, cache, activity, tasks, snap, refused, known, free, reloads>>

\* enqueueActivityExcept: too many targets stop the fan-out, a target whose
\* signature cannot be planned is passed over.
EnqueueActivityExcept(j) ==
    /\ j \in jobs
    /\ jobs' = jobs \ {j}
    /\ LET entries == IF j.late THEN SubscribersAndFollowers(cache) ELSE j.entries
           targets == Targets(entries, j.excluded)
       IN  /\ \/ /\ Cardinality(targets) <= limit
                 /\ \E planned \in SUBSET targets :
                      /\ tasks' = tasks \cup {[to |-> t, body |-> j.body] : t \in planned}
                      /\ refused' = refused \cup Domains(targets \ planned)
              \/ /\ Cardinality(targets) > limit
                 /\ refused' = refused \cup Domains(targets)
                 /\ UNCHANGED tasks
           /\ snap' = IF j.late THEN {cache} ELSE snap
    /\ UNCHANGED <<policy, limit, cache, activity, pc, known, free, reloads>>

FanOutNext ==
    \/ \E a \in Activity : DispatchActivity(a)
    \/ AnnounceFromReceiver \/ CheckSender \/ RecordPublisherActivity
    \/ ExecuteRelayActivity \/ AnnounceToAll
    \/ \E j \in jobs : EnqueueActivityExcept(j)
    \/ Reload

FanOutSpec == FanOutInit /\ [][FanOutNext]_fanOutVars

-----------------------------------------------------------------------------
(* Properties                                                              *)

\* Every variable has its type.
FanOutTypeOK ==
    /\ policy \in Policy
    /\ limit \in Limit
    /\ cache \in Caches
    /\ activity \in Activity \cup {NoActivity}
    /\ pc \in {"idle", "relay", "embedded", "announce", "record", "account", "plan", "done"}
    /\ snap \subseteq Caches /\ Cardinality(snap) <= 1
    /\ \A t \in tasks : t.to.inbox = "good" /\ t.body \in {"original", "announce"}
    /\ known \subseteq Server /\ free \subseteq Server
    /\ reloads \in 0..MaxReloads

\* A server gets an activity once, although it may be registered in both
\* styles and under several spellings of its name, two fan-outs may run for it
\* and the cache may be replaced between them (executeRelayActivity,
\* enqueueActivityExcept).
OncePerDomain ==
    \A s, t \in tasks : Domain[s.to.name] = Domain[t.to.name] => s = t

\* Nothing goes back to the server it came from, nor to the one that wrote it.
NoReflection ==
    \A t \in tasks : Domain[t.to.name] \notin {activity.actor, Author}

\* Nothing is relayed for someone the relay does not know or does not want.
\* What the address policy does not allow is relayed only if it is an Announce
\* of a server that was a receiver at some time while it was handled; the
\* author was free of limits and blocks at some time then, although the cache
\* may be replaced between the two checks and before the fan-out (handleInbox,
\* isActorSubscribersOrFollowers, isActorAbleToRelay).  And a body that carries
\* no signature of its author is never passed on unchanged.
AudienceRespected ==
    tasks # {} =>
        /\ \/ activity.public = "to"
           \/ activity.public = "cc" /\ policy = "public_and_unlisted"
           \/ activity.type = "Announce" /\ activity.actor \in known
        /\ Author \in free
        /\ (\E t \in tasks : t.body = "original") => activity.ld

Finished == pc = "done" /\ jobs = {}

\* The domains with a usable record in the state a fan-out was planned from.
Usable(c) == {Domain[k] : k \in {n \in Key : c.subs[n] = "good" \/ c.fols[n] = "good"}}
Broken(c) == {Domain[k] : k \in {n \in Key : c.subs[n] = "bad"}}
Served == {Domain[t.to.name] : t \in tasks}

\* Every other server with a usable record is reached, or was refused by the
\* limit or by signature planning.  An activity with a linked-data signature
\* and no object ID is for subscribers; with one, a server whose subscription
\* has an unusable inbox is left out even if its follower record is usable.
ReceiversServed ==
    Finished => \A c \in snap :
        LET all == IF activity.ld /\ Route(activity) = "relay"
                   THEN IF activity.object = "anonymous"
                        THEN {Domain[k] : k \in {n \in Key : c.subs[n] = "good"}}
                        ELSE Usable(c) \ (Broken(c) \ {Domain[k] : k \in {n \in Key : c.subs[n] = "good"}})
                   ELSE IF activity.object = "anonymous" THEN {} ELSE Usable(c)
        IN  Served \cup refused = all \ {activity.actor, Author}
==============================================================================
