------------------------------ MODULE RelayLoop ------------------------------
(***************************************************************************)
(* Relays that follow each other, and the marker that keeps one canonical  *)
(* activity from being announced round and round (api/resolver.go,         *)
(* api/relay_loop_guard.go).                                               *)
(*                                                                         *)
(* The model follows one canonical activity through a network of relays,   *)
(* all of which run this program.  A relay that gets the activity from its *)
(* author fans an Announce out to its receivers; a relay that gets an      *)
(* Announce from another relay reserves the key of the canonical activity  *)
(* in its own Redis (SET NX with a random token and a TTL) and only then   *)
(* fans out an Announce of its own, in a goroutine that gives the key back *)
(* when the fan-out fails.  Delivery between relays is at least once.      *)
(***************************************************************************)
EXTENDS Integers

CONSTANTS Relay,           \* relay servers
          Receivers,       \* Receivers[r]: the relays that r sends Announces to
          Followers,       \* Followers[r]: those of them that registered as followers
          Handler,         \* concurrent inbox requests of a relay
          MaxSeeds,        \* bound on posts by the author
          MaxDuplicates,   \* bound on redeliveries
          MaxExpiries,     \* bound on markers that reach their TTL
          MaxFaults,       \* bound on failed calls and dead processes
          MaxReservations  \* bound on reservations of one relay

ASSUME LoopAssumption ==
    /\ Receivers \in [Relay -> SUBSET Relay]
    /\ Followers \in [Relay -> SUBSET Relay] /\ \A r \in Relay : Followers[r] \subseteq Receivers[r]
    /\ MaxSeeds \in Nat
    /\ MaxDuplicates \in Nat
    /\ MaxExpiries \in Nat
    /\ MaxFaults \in Nat
    /\ MaxReservations \in Nat

Link == Relay \X Relay

VARIABLES
    wire,       \* wire[<<q, r>>]: Announces on their way from q to r
    marker,     \* the token in relay:canonical:<sum>, 0 when there is none
    pc,         \* where a handler of a relay is
    source,     \* the relay that sent the Announce it handles
    token,      \* its reservation
    tokens,     \* tokens drawn by a relay so far
    fanned,     \* history: tokens under which a whole fan-out was queued
    lapsed,     \* history: tokens that expired
    abandoned,  \* history: tokens whose handler died or could not release them
    seeds, duplicates, expiries, faults

handlerVars == <<pc, source, token>>
markerVars  == <<marker, tokens, lapsed, abandoned>>
bounds      == <<seeds, duplicates, expiries, faults>>
vars == <<wire, markerVars, handlerVars, fanned, bounds>>

Init ==
    /\ wire = [l \in Link |-> 0]
    /\ marker = [r \in Relay |-> 0]
    /\ pc = [r \in Relay |-> [h \in Handler |-> "idle"]]
    /\ source = [r \in Relay |-> [h \in Handler |-> r]]
    /\ token = [r \in Relay |-> [h \in Handler |-> 0]]
    /\ tokens = [r \in Relay |-> 0]
    /\ fanned = [r \in Relay |-> {}]
    /\ lapsed = [r \in Relay |-> {}]
    /\ abandoned = [r \in Relay |-> {}]
    /\ seeds = 0 /\ duplicates = 0 /\ expiries = 0 /\ faults = 0

Fault == faults < MaxFaults /\ faults' = faults + 1

\* The fan-out of r reaches the queue for the links S.
Send(S) == wire' = [l \in Link |-> IF l \in S THEN wire[l] + 1 ELSE wire[l]]

\* enqueueActivityExcept leaves out the excluded domain, and any target with
\* an unusable inbox or without a signature plan.
Fanouts(r, excluded) == SUBSET {<<r, q>> : q \in Receivers[r] \ {excluded}}

Goto(r, h, to) == pc' = [pc EXCEPT ![r][h] = to]

-----------------------------------------------------------------------------
\* executeRelayActivity: the author's own post is fanned out without a
\* marker, and a failed or partial fan-out is forgotten.
ExecuteRelayActivity(r) ==
    /\ seeds < MaxSeeds
    /\ seeds' = seeds + 1
    /\ \E S \in Fanouts(r, r) : Send(S)
    /\ UNCHANGED <<markerVars, handlerVars, fanned, duplicates, expiries, faults>>

\* An Announce arrives, perhaps not for the last time.  It is addressed to the
\* followers of its sender, which the receiver takes only when the sender is a
\* follower of its own; then the canonical activity is fetched.
ReceiveAnnounce(r, h, q) ==
    /\ pc[r][h] = "idle"
    /\ wire[<<q, r>>] > 0
    /\ \/ wire' = [wire EXCEPT ![<<q, r>>] = @ - 1] /\ UNCHANGED duplicates
       \/ /\ duplicates < MaxDuplicates
          /\ duplicates' = duplicates + 1
          /\ UNCHANGED wire
    /\ \/ /\ q \in Followers[r]
          /\ source' = [source EXCEPT ![r][h] = q]
          /\ Goto(r, h, "reserve")
       \/ q \notin Followers[r] /\ UNCHANGED <<source, pc>>
    /\ UNCHANGED <<markerVars, token, fanned, seeds, expiries, faults>>

\* The sender's retries run out, or the receiver refuses it (blocked, limited or
\* unfetchable origin).
DropAnnounce(l) ==
    /\ wire[l] > 0
    /\ wire' = [wire EXCEPT ![l] = @ - 1]
    /\ UNCHANGED <<markerVars, handlerVars, fanned, bounds>>

\* The key is created with a new token.
Reserve(r, h) ==
    /\ marker' = [marker EXCEPT ![r] = tokens[r] + 1]
    /\ token' = [token EXCEPT ![r][h] = tokens[r] + 1]
    /\ tokens' = [tokens EXCEPT ![r] = @ + 1]
    /\ Goto(r, h, "record")

\* Mutant: a duplicate is handled like the first Announce.
ReserveIgnoresMarker(r, h) ==
    /\ pc[r][h] = "reserve"
    /\ Goto(r, h, "record")
    /\ UNCHANGED <<wire, markerVars, source, token, fanned, bounds>>

\* reserveCanonicalRelayActivity: SET NX.  A duplicate, and an activity whose
\* reservation fails, is acknowledged and goes no further.
ReserveCanonicalRelayActivity(r, h) ==
    /\ pc[r][h] = "reserve"
    /\ \/ /\ marker[r] = 0
          /\ tokens[r] < MaxReservations
          /\ Reserve(r, h)
          /\ UNCHANGED faults
       \/ /\ \/ marker[r] # 0 /\ UNCHANGED faults
             \/ Fault
          /\ Goto(r, h, "idle")
          /\ UNCHANGED <<marker, token, tokens>>
    /\ UNCHANGED <<wire, lapsed, abandoned, source, fanned, seeds, duplicates, expiries>>

\* recordPublisherActivity, which can fail.
RecordPublisher(r, h) ==
    /\ pc[r][h] = "record"
    /\ \/ Goto(r, h, "enqueue") /\ UNCHANGED faults
       \/ Goto(r, h, "release") /\ Fault
    /\ UNCHANGED <<wire, markerVars, source, token, fanned, seeds, duplicates, expiries>>

\* Mutant: a failed fan-out keeps the marker.
EnqueueForgetsFailure(r, h) ==
    /\ pc[r][h] = "enqueue"
    /\ \E S \in Fanouts(r, source[r][h]) : Send(S)
    /\ Goto(r, h, "idle")
    /\ \/ fanned' = [fanned EXCEPT ![r] = @ \cup {token[r][h]}] /\ UNCHANGED faults
       \/ Fault /\ UNCHANGED fanned
    /\ UNCHANGED <<markerVars, source, token, seeds, duplicates, expiries>>

\* The goroutine: enqueueActivityForAllExcept queues the fan-out, or fails,
\* perhaps after some of its tasks are queued.
EnqueueActivityForAllExcept(r, h) ==
    /\ pc[r][h] = "enqueue"
    /\ \E S \in Fanouts(r, source[r][h]) : Send(S)
    /\ \/ /\ fanned' = [fanned EXCEPT ![r] = @ \cup {token[r][h]}]
          /\ Goto(r, h, "idle")
          /\ UNCHANGED faults
       \/ /\ Fault
          /\ Goto(r, h, "release")
          /\ UNCHANGED fanned
    /\ UNCHANGED <<markerVars, source, token, seeds, duplicates, expiries>>

\* Mutant: the key is deleted without a look at the token in it.
ReleaseUnguarded(r, h) ==
    /\ pc[r][h] = "release"
    /\ marker' = [marker EXCEPT ![r] = 0]
    /\ UNCHANGED <<abandoned, faults>>
    /\ Goto(r, h, "idle")
    /\ UNCHANGED <<wire, tokens, lapsed, source, token, fanned, seeds, duplicates, expiries>>

\* releaseCanonicalRelayActivity: DEL if the token is still ours.  A failed
\* script is only logged.
ReleaseCanonicalRelayActivity(r, h) ==
    /\ pc[r][h] = "release"
    /\ \/ /\ marker' = [marker EXCEPT ![r] = IF @ = token[r][h] THEN 0 ELSE @]
          /\ UNCHANGED <<abandoned, faults>>
       \/ /\ Fault
          /\ abandoned' = [abandoned EXCEPT ![r] = @ \cup {token[r][h]}]
          /\ UNCHANGED marker
    /\ Goto(r, h, "idle")
    /\ UNCHANGED <<wire, tokens, lapsed, source, token, fanned, seeds, duplicates, expiries>>

\* The API process dies between the reservation and the end of the fan-out.
Die(r, h) ==
    /\ pc[r][h] \in {"record", "enqueue", "release"}
    /\ Fault
    /\ abandoned' = [abandoned EXCEPT ![r] = @ \cup {token[r][h]}]
    /\ Goto(r, h, "idle")
    /\ UNCHANGED <<wire, marker, tokens, lapsed, source, token, fanned, seeds, duplicates, expiries>>

\* deliverypolicy.ActivityRetention after the reservation.
ExpireMarker(r) ==
    /\ marker[r] # 0
    /\ expiries < MaxExpiries
    /\ expiries' = expiries + 1
    /\ lapsed' = [lapsed EXCEPT ![r] = @ \cup {marker[r]}]
    /\ marker' = [marker EXCEPT ![r] = 0]
    /\ UNCHANGED <<wire, tokens, abandoned, handlerVars, fanned, seeds, duplicates, faults>>

-----------------------------------------------------------------------------
\* executeAnnounceActivity, from the reservation on.
Handle(r, h) == \/ ReserveCanonicalRelayActivity(r, h)
                \/ RecordPublisher(r, h)
                \/ EnqueueActivityForAllExcept(r, h)
                \/ ReleaseCanonicalRelayActivity(r, h)

Next == \/ \E r \in Relay : ExecuteRelayActivity(r) \/ ExpireMarker(r)
        \/ \E l \in Link : DropAnnounce(l)
        \/ \E r \in Relay, h \in Handler :
              \/ \E q \in Relay : ReceiveAnnounce(r, h, q)
              \/ Handle(r, h)
              \/ Die(r, h)

Spec == Init /\ [][Next]_vars

\* Requests run to their end, and a queued Announce arrives or is given up.
Fairness == /\ \A r \in Relay, h \in Handler : WF_vars(Handle(r, h))
            /\ \A r \in Relay : WF_vars(\E h \in Handler, q \in Relay : ReceiveAnnounce(r, h, q))

FairSpec == Spec /\ Fairness

-----------------------------------------------------------------------------
(* Properties                                                              *)

Busy == {"record", "enqueue", "release"}

\* Every variable has its type, and the marker holds a token that was drawn.
TypeOK ==
    /\ wire \in [Link -> Nat]
    /\ marker \in [Relay -> Nat]
    /\ tokens \in [Relay -> Nat]
    /\ pc \in [Relay -> [Handler -> {"idle", "reserve"} \cup Busy]]
    /\ source \in [Relay -> [Handler -> Relay]]
    /\ token \in [Relay -> [Handler -> Nat]]
    /\ fanned \in [Relay -> SUBSET Nat]
    /\ lapsed \in [Relay -> SUBSET Nat]
    /\ abandoned \in [Relay -> SUBSET Nat]
    /\ \A r \in Relay : marker[r] <= tokens[r]
    /\ seeds \in 0 .. MaxSeeds
    /\ duplicates \in 0 .. MaxDuplicates
    /\ expiries \in 0 .. MaxExpiries
    /\ faults \in 0 .. MaxFaults

\* After a whole fan-out the marker stays with its token until the TTL ends:
\* no late release of an older reservation, no failed fan-out of another
\* handler and no duplicate Announce opens the way for a second fan-out.
FanoutKeepsMarker ==
    \A r \in Relay : \A t \in fanned[r] \ lapsed[r] : marker[r] = t

\* A marker that suppresses duplicates stands for a fan-out that was queued
\* or is in progress, unless its handler died or its release failed: a
\* refused or failed fan-out does not silence the activity.
MarkerStandsForWork ==
    \A r \in Relay : marker[r] # 0 =>
        \/ marker[r] \in fanned[r] \cup abandoned[r]
        \/ \E h \in Handler : pc[r][h] \in Busy /\ token[r][h] = marker[r]

\* However relays follow each other, and whatever is duplicated, fails or
\* expires a bounded number of times, the Announces of one activity die out.
ReflectionSettles ==
    <>[](/\ \A l \in Link : wire[l] = 0
         /\ \A r \in Relay, h \in Handler : pc[r][h] = "idle")
=============================================================================
