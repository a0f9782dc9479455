-------------------------- MODULE DirectoryLifecycle --------------------------
(***************************************************************************)
(* The registration of the relay at one relay directory: API replicas with *)
(* a background scheduler (internal/directoryscheduler), the operator's    *)
(* register, heartbeat and sync commands, and the operator's unregister    *)
(* command (internal/directorycommand).                                    *)
(*                                                                         *)
(* They share the configuration file, which says whether the entry is      *)
(* enabled, the state record in Redis, and a lease in Redis that expires   *)
(* when it is not renewed.  The directory is a remote service: a request   *)
(* it got can take effect although its answer is lost, and a request that  *)
(* was given up can take effect later.                                     *)
(*                                                                         *)
(* When an attempt is due is left open: the deadlines of the state record  *)
(* are not modelled.  The configuration is a file, its scheduler is        *)
(* switched on and REDIS_URL is set.                                       *)
(***************************************************************************)
EXTENDS Naturals, FiniteSets

CONSTANTS Scheduler,     \* API replicas
          Command,       \* register, heartbeat and sync commands
          Unregister,    \* unregister commands
          NoOne,         \* nobody holds the lease
          Dead,          \* the lease of a process that died or could not release it
          MaxAttempts,   \* maximumAttempts of a command's request
          MaxEnables,    \* bound on the operator enabling the entry again
          MaxFaults      \* bound on processes that die, leases that expire under a
                         \* live process, and calls that fail or get lost

Actor == Scheduler \cup Command \cup Unregister

ASSUME LifecycleAssumption ==
    /\ NoOne \notin Actor /\ Dead \notin Actor /\ NoOne # Dead
    /\ Scheduler \cap Command = {}
    /\ Scheduler \cap Unregister = {}
    /\ Command \cap Unregister = {}
    /\ MaxAttempts \in Nat /\ MaxEnables \in Nat
    /\ MaxFaults \in Nat

VARIABLES
    enabled,   \* the entry in the configuration file
    lease,     \* relay:directory:...:lease
    store,     \* relay:directory:...:state
    remote,    \* the directory lists the relay
    late,      \* requests given up by their sender that may still change the directory
    pc,        \* where an actor is
    local,     \* the state record as an actor loaded it
    request,   \* the request an actor is to send or has sent
    answer,    \* the directory's answer to it
    tries,     \* attempts of a command
    enables, crashes, expiries, losses,
    confirmed, \* history: the directory confirmed an unregister command
    overtaken, \* history: a late request registered the relay
    strayed    \* history: a command sent a request for a disabled entry

bounds == <<enables, crashes, expiries, losses>>
actorVars == <<pc, local, request, answer, tries>>
history == <<confirmed, overtaken, strayed>>
vars == <<enabled, lease, store, remote, late, actorVars, bounds, history>>

Outcome == {"none", "reached", "failed", "disabled"}
State   == [registered : BOOLEAN, outcome : Outcome]
Kind    == {"register", "heartbeat", "unregister"}
Phase   == {"first", "repair", "final", "profile"}
Request == [kind : Kind, phase : Phase]
Answer  == {"waiting", "ok", "unknown", "error"}
Pc      == {"idle", "acquire", "load", "recheck", "disable", "suppress",
            "send", "wait", "save", "release"}

Fresh(k) == [kind |-> k, phase |-> "first"]
NoState  == [registered |-> FALSE, outcome |-> "none"]

Init ==
    /\ enabled = TRUE
    /\ lease = NoOne
    /\ store = NoState
    /\ remote = FALSE
    /\ late = {}
    /\ pc = [a \in Actor |-> "idle"]
    /\ local = [a \in Actor |-> NoState]
    /\ request = [a \in Actor |-> Fresh("register")]
    /\ answer = [a \in Actor |-> "waiting"]
    /\ tries = [a \in Actor |-> 0]
    /\ enables = 0 /\ crashes = 0 /\ expiries = 0 /\ losses = 0
    /\ confirmed = FALSE
    /\ overtaken = FALSE
    /\ strayed = FALSE

FaultLeft == crashes + expiries + losses < MaxFaults

\* A call to Redis or to the directory fails, or its answer does not arrive.
Lose == FaultLeft /\ losses' = losses + 1

Goto(a, to) == pc' = [pc EXCEPT ![a] = to]

\* The run of an actor is over, and its variables are gone.
End(a) ==
    /\ Goto(a, "idle")
    /\ local' = [local EXCEPT ![a] = NoState]
    /\ request' = [request EXCEPT ![a] = Fresh("register")]
    /\ answer' = [answer EXCEPT ![a] = "waiting"]
    /\ tries' = [tries EXCEPT ![a] = 0]

LateWith(a) == late \cup ({request[a].kind} \ {"heartbeat"})

-----------------------------------------------------------------------------
(* The start of a run                                                      *)

\* runDirectory reads the file, and the state to see whether an attempt is
\* due; the commands read the file, and refuse a disabled entry.
Start(a) ==
    /\ pc[a] = "idle"
    /\ a \notin Unregister => enabled
    /\ Goto(a, "acquire")
    /\ \/ a \in Scheduler /\ UNCHANGED request
       \/ /\ a \in Command
          /\ \E k \in {"register", "heartbeat"} : request' = [request EXCEPT ![a] = Fresh(k)]
       \/ /\ a \in Unregister
          /\ request' = [request EXCEPT ![a] = Fresh("unregister")]
    /\ UNCHANGED <<enabled, lease, store, remote, late, local, answer, tries, bounds,
                   history>>

\* Acquire: SET NX; whoever does not get the lease ends the run, also when
\* Redis has set the key and the answer is lost.
Acquire(a) ==
    /\ pc[a] = "acquire"
    /\ \/ /\ lease = NoOne
          /\ lease' = a
          /\ Goto(a, "load")
          /\ UNCHANGED <<local, request, answer, tries, losses>>
       \/ lease # NoOne /\ End(a) /\ UNCHANGED <<lease, losses>>
       \/ Lose /\ End(a) /\ lease' \in {lease, IF lease = NoOne THEN Dead ELSE lease}
    /\ UNCHANGED <<enabled, store, remote, late, enables, crashes, expiries, history>>

\* Load under the lease.
Load(a) ==
    /\ pc[a] = "load"
    /\ \/ /\ local' = [local EXCEPT ![a] = store]
          /\ Goto(a, CASE a \in Scheduler  -> "recheck"
                       [] a \in Command    -> "send"
                       [] a \in Unregister -> "disable")
          /\ UNCHANGED losses
       \/ Lose /\ Goto(a, "release") /\ UNCHANGED local
    /\ UNCHANGED <<enabled, lease, store, remote, late, request, answer, tries, enables,
                   crashes, expiries, history>>

\* What the scheduler sends: heartbeats for a registered relay whose profile
\* has not changed.
Due(s) == \E k \in {"heartbeat", "register"} :
             /\ k = "heartbeat" => local[s].registered
             /\ request' = [request EXCEPT ![s] = Fresh(k)]

\* Mutant: the file is not read again under the lease.
RecheckDurableConfigurationSkipped(s) ==
    /\ pc[s] = "recheck"
    /\ Due(s)
    /\ Goto(s, "send")
    /\ UNCHANGED <<enabled, lease, store, remote, late, local, answer, tries, bounds,
                   history>>

\* The scheduler reads the file again now that it owns the lease.  A client
\* that cannot be built counts as a failed attempt; an attempt that is no
\* longer due is left.
RecheckDurableConfiguration(s) ==
    /\ pc[s] = "recheck"
    /\ \/ enabled /\ Due(s) /\ Goto(s, "send") /\ UNCHANGED answer
       \/ /\ enabled
          /\ answer' = [answer EXCEPT ![s] = "error"]
          /\ Goto(s, "save")
          /\ UNCHANGED request
       \/ Goto(s, "release") /\ UNCHANGED <<request, answer>>
    /\ UNCHANGED <<enabled, lease, store, remote, late, local, tries, bounds,
                   history>>

-----------------------------------------------------------------------------
(* The unregister command before its request                               *)

\* deps.disable: the file says enabled: false from here on, or the edit
\* fails and nothing else happens.  An edit whose last sync fails has renamed
\* the file all the same.
Disable(u) ==
    /\ pc[u] = "disable"
    /\ \/ enabled' = FALSE /\ Goto(u, "suppress")
       \/ enabled' \in {enabled, FALSE} /\ Goto(u, "release")
    /\ UNCHANGED <<lease, store, remote, late, local, request, answer, tries, bounds,
                   history>>

\* Mutant: a former owner of the lease writes the state all the same.
SaveOwnedUnfenced(a, state) ==
    /\ store' = state
    /\ local' = [local EXCEPT ![a] = state]

\* SaveOwned: the script compares the lease before it writes.
SaveOwned(a, state) ==
    IF lease = a
    THEN /\ store' = state
         /\ local' = [local EXCEPT ![a] = state]
    ELSE UNCHANGED <<store, local>>

\* The script fails; its write may have happened all the same.
SaveFails(a, state) ==
    /\ Lose
    /\ store' \in {store, IF lease = a THEN state ELSE store}
    /\ UNCHANGED local

\* Mutant: the relay counts as unregistered before the directory was asked.
SuppressForgets(u) ==
    /\ pc[u] = "suppress"
    /\ SaveOwned(u, [registered |-> FALSE, outcome |-> "disabled"])
    /\ Goto(u, IF lease = u THEN "send" ELSE "release")
    /\ UNCHANGED <<enabled, lease, remote, late, request, answer, tries, bounds,
                   history>>

\* The suppression state is saved before any remote traffic.
Suppress(u) ==
    LET state == [local[u] EXCEPT !.outcome = "disabled"] IN
    /\ pc[u] = "suppress"
    /\ \/ /\ SaveOwned(u, state)
          /\ Goto(u, IF lease = u THEN "send" ELSE "release")
          /\ UNCHANGED losses
       \/ SaveFails(u, state) /\ Goto(u, "release")
    /\ UNCHANGED <<enabled, lease, remote, late, request, answer, tries, enables, crashes,
                   expiries, history>>

-----------------------------------------------------------------------------
(* Requests to the directory                                               *)

Send(a) ==
    /\ pc[a] = "send"
    /\ Goto(a, "wait")
    /\ answer' = [answer EXCEPT ![a] = "waiting"]
    /\ tries' = [tries EXCEPT ![a] = IF a \in Scheduler THEN @ ELSE @ + 1]
    /\ strayed' = (strayed \/ (a \in Command /\ ~enabled))
    /\ UNCHANGED <<enabled, lease, store, remote, late, local, request, bounds,
                   confirmed, overtaken>>

\* What an accepted request does at the directory.
Effect(kind) == remote' = CASE kind = "register"   -> TRUE
                            [] kind = "heartbeat"  -> remote
                            [] kind = "unregister" -> FALSE

\* The directory answers a request: it accepts it, does not know the relay,
\* or refuses; or it accepts it and the answer is lost.
DirectoryAnswers(a) ==
    LET kind == request[a].kind
        Reply(x) == answer' = [answer EXCEPT ![a] = x] IN
    /\ pc[a] = "wait" /\ answer[a] = "waiting"
    /\ \/ ~(kind = "heartbeat" /\ ~remote) /\ Effect(kind) /\ Reply("ok") /\ UNCHANGED losses
       \/ kind = "heartbeat" /\ ~remote /\ Reply("unknown") /\ UNCHANGED <<remote, losses>>
       \/ Reply("error") /\ UNCHANGED <<remote, losses>>
       \/ Effect(kind) /\ Reply("error") /\ Lose
    /\ UNCHANGED <<enabled, lease, store, late, pc, local, request, tries, enables, crashes,
                   expiries, history>>

\* The request times out at the sender and is still on its way.
GiveUp(a) ==
    /\ pc[a] = "wait" /\ answer[a] = "waiting"
    /\ Lose
    /\ late' = LateWith(a)
    /\ answer' = [answer EXCEPT ![a] = "error"]
    /\ UNCHANGED <<enabled, lease, store, remote, pc, local, request, tries, enables, crashes,
                   expiries, history>>

DirectoryGetsLate(kind) ==
    /\ kind \in late
    /\ late' = late \ {kind}
    /\ Effect(kind)
    /\ overtaken' = (overtaken \/ kind = "register")
    /\ UNCHANGED <<enabled, lease, store, actorVars, bounds, confirmed, strayed>>

Ask(a, kind, phase) ==
    /\ request' = [request EXCEPT ![a] = [kind |-> kind, phase |-> phase]]
    /\ Goto(a, "send")

\* retryLifecycle: the scheduler leaves retries to its next run.
MayRetry(a) == a \notin Scheduler /\ tries[a] < MaxAttempts

\* The sender goes on with the answer.  The scheduler registers an unknown
\* relay and sends a final heartbeat (HeartbeatWithRegisterReconciliation),
\* and registers again when a heartbeat shows another protocol version; a
\* command tries again (retryLifecycle).
HandleAnswer(a) ==
    LET r == request[a] IN
    /\ pc[a] = "wait" /\ answer[a] # "waiting"
    /\ \/ /\ answer[a] = "unknown" /\ r.phase = "first" /\ a \in Scheduler
          /\ Ask(a, "register", "repair")
       \/ answer[a] = "ok" /\ r.phase = "repair" /\ Ask(a, "heartbeat", "final")
       \/ /\ answer[a] = "ok" /\ r.kind = "heartbeat" /\ a \in Scheduler
          /\ Ask(a, "register", "profile")
       \/ answer[a] = "error" /\ MayRetry(a) /\ Ask(a, r.kind, "first")
       \/ answer[a] = "ok" /\ r.phase # "repair" /\ Goto(a, "save") /\ UNCHANGED request
       \/ /\ answer[a] \in {"error", "unknown"}
          /\ answer[a] = "unknown" /\ a \in Scheduler => r.phase # "first"
          /\ Goto(a, IF a \in Scheduler THEN "save" ELSE "release")
          /\ UNCHANGED request
    /\ UNCHANGED <<enabled, lease, store, remote, late, local, answer, tries, bounds,
                   history>>

\* A renewal finds the lease gone, or fails, or the process is told to stop:
\* the request is cancelled, which does not call it back, and nothing is saved.
NoticeLoss(a) ==
    /\ pc[a] \in {"send", "wait"}
    /\ \/ lease # a /\ UNCHANGED losses
       \/ Lose
    /\ late' = IF pc[a] = "wait" /\ answer[a] = "waiting" THEN LateWith(a) ELSE late
    /\ Goto(a, "release")
    /\ UNCHANGED <<enabled, lease, store, remote, local, request, answer, tries, enables,
                   crashes, expiries, history>>

\* The state an actor saves at the end of its request.
Final(a) ==
    CASE a \in Unregister   -> [registered |-> FALSE, outcome |-> "disabled"]
      [] answer[a] # "ok"   -> [local[a] EXCEPT !.outcome = "failed"]
      [] OTHER              -> [registered |-> TRUE, outcome |-> "reached"]

SaveFinal(a) ==
    /\ pc[a] = "save"
    /\ \/ SaveOwned(a, Final(a)) /\ UNCHANGED losses
       \/ SaveFails(a, Final(a))
    /\ confirmed' = (confirmed \/ a \in Unregister)
    /\ Goto(a, "release")
    /\ UNCHANGED <<enabled, lease, remote, late, request, answer, tries, enables, crashes,
                   expiries, overtaken, strayed>>

\* Release: the script compares the token before it deletes the lease.
Release(a) ==
    /\ pc[a] = "release"
    /\ End(a)
    /\ lease' = IF lease = a THEN NoOne ELSE lease
    /\ UNCHANGED <<enabled, store, remote, late, bounds, history>>

-----------------------------------------------------------------------------
(* The environment                                                         *)

\* A process dies, or cannot release its lease.
Crash(a) ==
    /\ pc[a] # "idle"
    /\ FaultLeft
    /\ crashes' = crashes + 1
    /\ lease' = IF lease = a THEN Dead ELSE lease
    /\ late' = IF pc[a] = "wait" /\ answer[a] = "waiting" THEN LateWith(a) ELSE late
    /\ End(a)
    /\ UNCHANGED <<enabled, store, remote, enables, expiries, losses, history>>

\* Mutant: the lease has no TTL of its own.
ExpireLeaseOfLiveOnly ==
    /\ lease \in Actor /\ FaultLeft /\ expiries' = expiries + 1
    /\ lease' = NoOne
    /\ UNCHANGED <<enabled, store, remote, late, actorVars, enables, crashes, losses,
                   history>>

\* The TTL of the lease ends: always for a dead owner, for a live one when it
\* was stopped or cut off from Redis for longer than the TTL.
ExpireLease ==
    /\ \/ lease = Dead /\ UNCHANGED expiries
       \/ lease \in Actor /\ FaultLeft /\ expiries' = expiries + 1
    /\ lease' = NoOne
    /\ UNCHANGED <<enabled, store, remote, late, actorVars, enables, crashes, losses,
                   history>>

\* The operator edits the file to enable the entry again.
Enable ==
    /\ ~enabled
    /\ \A u \in Unregister : pc[u] = "idle"
    /\ enables < MaxEnables
    /\ enables' = enables + 1
    /\ enabled' = TRUE
    /\ confirmed' = FALSE
    /\ UNCHANGED <<lease, store, remote, late, actorVars, crashes, expiries, losses,
                   overtaken, strayed>>

-----------------------------------------------------------------------------
Run(a) == \/ Acquire(a) \/ Load(a)
          \/ RecheckDurableConfiguration(a)
          \/ Disable(a) \/ Suppress(a)
          \/ Send(a) \/ HandleAnswer(a) \/ NoticeLoss(a)
          \/ SaveFinal(a) \/ Release(a)

Directory(a) == DirectoryAnswers(a) \/ GiveUp(a)

Next == \/ \E a \in Actor : Start(a) \/ Run(a) \/ Directory(a) \/ Crash(a)
        \/ \E kind \in Kind : DirectoryGetsLate(kind)
        \/ ExpireLease
        \/ Enable

Spec == Init /\ [][Next]_vars

\* A run goes on to its end, every request is answered or times out, and the
\* lease of a dead process expires.
Fairness == /\ \A a \in Actor : WF_vars(Run(a) \/ Directory(a))
            /\ WF_vars(lease = Dead /\ ExpireLease)

FairSpec == Spec /\ Fairness

-----------------------------------------------------------------------------
(* Properties                                                              *)

\* Every variable has its type.
TypeOK ==
    /\ enabled \in BOOLEAN
    /\ lease \in Actor \cup {NoOne, Dead}
    /\ store \in State
    /\ remote \in BOOLEAN
    /\ late \subseteq Kind \ {"heartbeat"}
    /\ pc \in [Actor -> Pc]
    /\ local \in [Actor -> State]
    /\ request \in [Actor -> Request]
    /\ answer \in [Actor -> Answer]
    /\ tries \in [Actor -> 0 .. MaxAttempts]
    /\ enables \in 0 .. MaxEnables
    /\ crashes \in 0 .. MaxFaults
    /\ expiries \in 0 .. MaxFaults
    /\ losses \in 0 .. MaxFaults
    /\ confirmed \in BOOLEAN
    /\ overtaken \in BOOLEAN
    /\ strayed \in BOOLEAN

Loaded == {"recheck", "disable", "suppress", "send", "wait", "save"}

\* The record that the owner of the lease loaded is still the one in Redis,
\* whatever former owners do after they lost the lease: what it saves is
\* computed from the current record, and nobody's result is overwritten.
OwnerSeesCurrentState ==
    \A a \in Actor : lease = a /\ pc[a] \in Loaded => local[a] = store

\* While leases are renewed in time, a scheduler has no request prepared or
\* on its way for an entry that is disabled: reading the file again under the
\* lease "closes the disable/register race" (scheduler.go).
SchedulerQuietWhenDisabled ==
    expiries = 0 /\ ~enabled => \A s \in Scheduler : pc[s] \notin {"send", "wait"}

\* After an unregister command that the directory confirmed, the directory
\* does not list the relay again while the entry is disabled, except through
\* a lost lease, a request that overtook it, or a command that strayed.
UnregisterIsFinal ==
    confirmed /\ ~enabled /\ expiries = 0 /\ ~overtaken /\ ~strayed => ~remote

\* If nothing was lost, a relay that the directory still lists for a disabled
\* entry is recorded as registered: status shows unregister-pending.
PendingIsVisible ==
    ~enabled /\ remote /\ expiries = 0 /\ crashes = 0 /\ losses = 0 /\ ~strayed
        => store.registered

\* The lease always becomes free again: no run keeps it for ever, and a dead
\* owner does not block the others.
LeaseReturns == []<>(lease = NoOne)
=============================================================================
