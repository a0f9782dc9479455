-------------------------- MODULE SignatureNegotiation --------------------------
(***************************************************************************)
(* The choice of a signature profile for outbound requests under the       *)
(* policy "dual" (internal/httpsignature): what is known of a destination  *)
(* is kept in Redis by origin and by scope, it is read when a request is   *)
(* planned and written when an answer is observed.                         *)
(*                                                                         *)
(* Fetchers are signed GET requests (DoGET), each with at most one second  *)
(* request under the legacy profile, and with redirects that are planned   *)
(* anew.  Tasks are deliveries (deliver.go): the profile is planned when   *)
(* the task is queued and stays for all its attempts.                      *)
(*                                                                         *)
(* Remote servers are the environment.  A server's mode says which         *)
(* signatures it takes, and can change.                                    *)
(***************************************************************************)
EXTENDS Integers, FiniteSets, FiniteSetsExt

CONSTANTS Fetcher, Task, Origin,
          Entry,                    \* the servers fetches start at
          Receiver,                 \* the servers deliveries go to
          InitialMode,              \* what servers can do at first
          PositiveTTL, NegativeTTL, \* lifetimes of evidence
          MaxAttempts,              \* attempts of a delivery
          MaxHops,                  \* redirects of a fetch
          MaxClock,                 \* bound on time
          MaxRequests,              \* bound on fetches, their redirects and attempts
          MaxChanges,               \* bound on changes of a server's mode
          MaxFaults                 \* bound on saves that Redis fails

Profile    == {"legacy", "rfc9421"}
Actor      == Fetcher \cup Task
ScopeOf(a) == IF a \in Fetcher THEN "fetch" ELSE "delivery"
Key        == (Origin \X {"fetch"}) \cup (Receiver \X {"delivery"})

\* What servers do, and their answers.  "advert" is a success with a compatible
\* Accept-Signature field, "challenge" a 401 or 403 that names the Signature
\* scheme, "bad" a 400, "other" any other failure.
Mode   == {"both", "challenging", "refusing", "strict"}
Answer == {"none", "ok", "advert", "challenge", "bad", "other"}
Success == {"ok", "advert"}

ASSUME NegotiationAssumption ==
    /\ PositiveTTL \in Nat /\ NegativeTTL \in 1 .. PositiveTTL
    /\ IsFiniteSet(Fetcher) /\ Fetcher \cap Task = {}
    /\ Entry \subseteq Origin /\ Receiver \subseteq Origin /\ InitialMode \subseteq Mode
    /\ {MaxAttempts, MaxHops, MaxClock, MaxRequests, MaxChanges, MaxFaults} \subseteq Nat

Answers(mode, profile) ==
    {"other"} \cup
    CASE mode = "both"        -> IF profile = "rfc9421" THEN {"ok"} ELSE {"ok", "advert"}
      [] mode = "challenging" -> IF profile = "rfc9421" THEN {"challenge"} ELSE {"ok"}
      [] mode = "refusing"    -> IF profile = "rfc9421" THEN {"bad"} ELSE {"ok"}
      [] mode = "strict"      -> IF profile = "rfc9421" THEN {"ok"} ELSE {"other"}

VARIABLES
    clock,    \* time in units of the resolution of observed_at_ms
    mode,     \* what a server does with requests of a scope
    store,    \* relay:http-signature:capability:... by origin and scope
    pc,       \* where a fetch or a delivery is
    origin,   \* the server it talks to
    plan,     \* the profile of its request, and whether there is a fallback
    answer,   \* the answer it got
    second,   \* "no", or the answer that led to the second request of a fetch
    hops,     \* redirects of a fetch
    seen,     \* the observation it is about to save
    tries,    \* attempts of a delivery
    requests, changes, faults,
    shown,    \* history: servers that took or asked for RFC 9421, by scope
    rejected, \* history: servers that rejected RFC 9421, by scope
    posted,   \* history: profiles of the attempts of a task
    latest,   \* history: the newest observation the script was asked to save
    failed,   \* history: fetches that a record misled since the server changed
    unsaved   \* history: rejections seen by fetches whose save ended in an error

bounds  == <<requests, changes, faults>>
history == <<shown, rejected, posted, latest, failed, unsaved>>
request == <<pc, origin, plan, answer, second, hops, seen, tries>>
vars    == <<clock, mode, store, request, bounds, history>>

\* DestinationCapability.  A record is gone when it has expired.
Record   == [profile : Profile, observed : 0 .. MaxClock, expires : Nat]
NoRecord == [profile |-> "legacy", observed |-> 0, expires |-> 0]
Fresh(record) == record.expires > clock

\* Redis may already hold records of servers that took RFC 9421.
Known(keys) ==
    [k \in Key |-> IF k \in keys THEN [profile |-> "rfc9421", observed |-> 0, expires |-> PositiveTTL]
                                 ELSE NoRecord]

Init ==
    /\ clock = 0
    /\ mode \in [Key -> InitialMode]
    /\ shown \in SUBSET Key
    /\ store = Known(shown)
    /\ latest = Known(shown)
    /\ pc = [a \in Actor |-> "idle"]
    /\ origin = [a \in Actor |-> CHOOSE o \in Origin : TRUE]
    /\ plan = [a \in Actor |-> [profile |-> "legacy", fallback |-> FALSE]]
    /\ answer = [a \in Actor |-> "none"]
    /\ second = [a \in Actor |-> "no"]
    /\ hops = [a \in Actor |-> 0]
    /\ seen = [a \in Actor |-> NoRecord]
    /\ tries = [t \in Task |-> 0]
    /\ requests = 0 /\ changes = 0 /\ faults = 0
    /\ rejected = {}
    /\ posted = [t \in Task |-> {}]
    /\ failed = [o \in Origin |-> 0]
    /\ unsaved = 0

-----------------------------------------------------------------------------
(* Planning and observing                                                  *)

\* Mutant: one record serves both kinds of requests.
KeyOfOrigin(o, scope) == <<o, "fetch">>

\* capabilityKey
capabilityKey(o, scope) == <<o, scope>>

\* Plan: a fresh record decides; an unknown server is fetched from under RFC
\* 9421 with a fallback, and delivered to under the legacy profile.
Plan(o, scope) ==
    LET record == store[capabilityKey(o, scope)]
    IN  CASE Fresh(record)      -> [profile |-> record.profile, fallback |-> FALSE]
          [] ~Fresh(record) /\ scope = "fetch"    -> [profile |-> "rfc9421", fallback |-> TRUE]
          [] ~Fresh(record) /\ scope = "delivery" -> [profile |-> "legacy", fallback |-> FALSE]

\* saveObservation: the time of an observation is taken when it is made.
Observed(profile) ==
    [profile |-> profile, observed |-> clock,
     expires |-> clock + (IF profile = "rfc9421" THEN PositiveTTL ELSE NegativeTTL)]

\* Mutant: a challenge is not observed.
ObserveSuccessOnly(profile, reply) ==
    IF reply = "advert" \/ (reply = "ok" /\ profile = "rfc9421")
    THEN Observed("rfc9421") ELSE NoRecord

\* ObserveResponse: the evidence in an answer, if there is any.
ObserveResponse(profile, reply) ==
    CASE reply = "advert" \/ (reply = "ok" /\ profile = "rfc9421") -> Observed("rfc9421")
      [] reply = "challenge" /\ profile = "rfc9421"                -> Observed("legacy")
      [] OTHER                                                     -> NoRecord

\* Mutant: an older observation replaces a newer one.
SaveAlways(key, record) == store' = [store EXCEPT ![key] = record]

\* SaveDestinationCapability: an observation that has expired meanwhile is
\* refused, and the script refuses one that is not newer than the record.
Save(key, record) ==
    store' = IF ~Fresh(record) \/ (Fresh(store[key]) /\ store[key].observed >= record.observed)
             THEN store ELSE [store EXCEPT ![key] = record]

ShouldFallback(f) ==
    plan[f].fallback /\ second[f] = "no" /\ answer[f] \in {"challenge", "bad"}

\* Mutant: the legacy retry counts for whoever answered it.
FallbackAnswered(f) == second[f] = "bad" /\ answer[f] \in Success

\* The second request, after a 400, was made under the legacy profile and taken.
FallbackSucceeded(f) ==
    second[f] = "bad" /\ plan[f].profile = "legacy" /\ answer[f] \in Success

-----------------------------------------------------------------------------
(* Fetches                                                                 *)

\* DoGET up to the request.
Fetch(f, o) ==
    /\ pc[f] = "idle"
    /\ requests < MaxRequests
    /\ requests' = requests + 1
    /\ pc' = [pc EXCEPT ![f] = "sent"]
    /\ origin' = [origin EXCEPT ![f] = o]
    /\ plan' = [plan EXCEPT ![f] = Plan(o, "fetch")]
    /\ UNCHANGED <<clock, mode, store, answer, second, hops, seen, tries, changes, faults,
                   history>>

\* The server of a request answers.
Reply(a) ==
    LET key == <<origin[a], ScopeOf(a)>>
    IN  /\ pc[a] = "sent"
        /\ \E reply \in Answers(mode[key], plan[a].profile) :
              /\ answer' = [answer EXCEPT ![a] = reply]
              /\ shown' = shown \cup
                    (IF reply = "advert" \/ (reply = "ok" /\ plan[a].profile = "rfc9421")
                     THEN {key} ELSE {})
              /\ rejected' = rejected \cup
                    (IF reply \in {"challenge", "bad"} THEN {key} ELSE {})
        /\ pc' = [pc EXCEPT ![a] = "answered"]
        /\ posted' = IF a \in Task THEN [posted EXCEPT ![a] = @ \cup {plan[a].profile}]
                                   ELSE posted
        /\ UNCHANGED <<clock, mode, store, origin, plan, second, hops, seen, tries, bounds,
                       latest, failed, unsaved>>

\* CheckRedirect: the redirected request is planned on its own.
Redirect(f) ==
    /\ pc[f] = "sent"
    /\ hops[f] < MaxHops /\ requests < MaxRequests
    /\ hops' = [hops EXCEPT ![f] = @ + 1]
    /\ requests' = requests + 1
    /\ \E o \in Origin :
          /\ origin' = [origin EXCEPT ![f] = o]
          /\ plan' = [plan EXCEPT ![f] = Plan(o, "fetch")]
    /\ UNCHANGED <<clock, mode, store, pc, answer, second, seen, tries, changes, faults, history>>

\* The record of a server is a success of this instant, which a rejection seen in
\* the same instant cannot replace.
TakenNow(key) ==
    Fresh(store[key]) /\ store[key].profile = "rfc9421" /\ store[key].observed = clock

\* A fetch was signed under RFC 9421 because of a record, was challenged, and has
\* no second request to make.
Misled(f) ==
    /\ plan[f] = [profile |-> "rfc9421", fallback |-> FALSE] /\ answer[f] = "challenge"
    /\ ~TakenNow(capabilityKey(origin[f], "fetch"))

\* The answer is observed.
Observe(a) ==
    /\ pc[a] = "answered"
    /\ seen' = [seen EXCEPT ![a] = ObserveResponse(plan[a].profile, answer[a])]
    /\ pc' = [pc EXCEPT ![a] = "save"]
    /\ failed' = IF a \in Fetcher /\ Misled(a) THEN [failed EXCEPT ![origin[a]] = @ + 1] ELSE failed
    /\ UNCHANGED <<clock, mode, store, origin, plan, answer, second, hops, tries, bounds,
                   shown, rejected, posted, latest, unsaved>>

\* The observation of an actor is not saved.
Unsaved(a) ==
    unsaved' = IF a \in Fetcher /\ seen[a].profile = "legacy" THEN unsaved + 1 ELSE unsaved

\* The observation is saved, if there is one.  An error, of Redis or because the
\* observation has expired, is only logged.
SaveSeen(a) ==
    LET key == capabilityKey(origin[a], ScopeOf(a))
    IN  \/ /\ seen[a] = NoRecord
           /\ UNCHANGED <<store, faults, latest, unsaved>>
        \/ /\ seen[a] # NoRecord
           /\ Save(key, seen[a])
           /\ latest' = IF Fresh(seen[a])
                           /\ (latest[key] = NoRecord \/ latest[key].observed < seen[a].observed)
                        THEN [latest EXCEPT ![key] = seen[a]] ELSE latest
           /\ IF Fresh(seen[a]) THEN UNCHANGED unsaved ELSE Unsaved(a)
           /\ UNCHANGED faults
        \/ /\ seen[a] # NoRecord
           /\ faults < MaxFaults
           /\ faults' = faults + 1
           /\ Unsaved(a)
           /\ UNCHANGED <<store, latest>>

\* The variables of a request that is over.
Forget(a) ==
    /\ pc' = [pc EXCEPT ![a] = "idle"]
    /\ answer' = [answer EXCEPT ![a] = "none"]
    /\ second' = [second EXCEPT ![a] = "no"]
    /\ hops' = [hops EXCEPT ![a] = 0]
    /\ seen' = [seen EXCEPT ![a] = NoRecord]

\* The rest of DoGET: the second request under the legacy profile; or, after
\* one that a 400 led to and that succeeded, the evidence of it; or the end.
Conclude(f) ==
    /\ pc[f] = "save"
    /\ SaveSeen(f)
    /\ \/ /\ ShouldFallback(f)
          /\ pc' = [pc EXCEPT ![f] = "sent"]
          /\ plan' = [plan EXCEPT ![f] = [profile |-> "legacy", fallback |-> FALSE]]
          /\ second' = [second EXCEPT ![f] = answer[f]]
          /\ answer' = [answer EXCEPT ![f] = "none"]
          /\ seen' = [seen EXCEPT ![f] = NoRecord]
          /\ UNCHANGED hops
       \/ /\ FallbackSucceeded(f)
          /\ pc' = [pc EXCEPT ![f] = "saveFallback"]
          /\ seen' = [seen EXCEPT ![f] = Observed("legacy")]
          /\ UNCHANGED <<plan, second, answer, hops>>
       \/ /\ ~ShouldFallback(f)
          /\ ~FallbackSucceeded(f)
          /\ Forget(f)
          /\ UNCHANGED plan
    /\ UNCHANGED <<clock, mode, origin, tries, requests, changes, shown, rejected, posted,
                   failed>>

ConcludeFallback(f) ==
    /\ pc[f] = "saveFallback"
    /\ SaveSeen(f)
    /\ Forget(f)
    /\ UNCHANGED <<clock, mode, origin, plan, tries, requests, changes, shown, rejected,
                   posted, failed>>

-----------------------------------------------------------------------------
(* Deliveries                                                              *)

\* plannedDeliveryProfile, when a task is queued.
Enqueue(t, o) ==
    /\ pc[t] = "idle" /\ tries[t] = 0
    /\ origin' = [origin EXCEPT ![t] = o]
    /\ plan' = [plan EXCEPT ![t] = Plan(o, "delivery")]
    /\ pc' = [pc EXCEPT ![t] = "queued"]
    /\ UNCHANGED <<clock, mode, store, answer, second, hops, seen, tries, bounds, history>>

\* An attempt posts under the profile of the task.
Attempt(t) ==
    /\ pc[t] = "queued"
    /\ tries[t] < MaxAttempts
    /\ requests < MaxRequests
    /\ requests' = requests + 1
    /\ tries' = [tries EXCEPT ![t] = @ + 1]
    /\ pc' = [pc EXCEPT ![t] = "sent"]
    /\ UNCHANGED <<clock, mode, store, origin, plan, answer, second, hops, seen, changes,
                   faults, history>>

\* The client follows redirects of a POST by itself, and the status of the last
\* answer is taken for the answer of the inbox.
FollowRedirect(t) ==
    /\ pc[t] = "sent"
    /\ hops[t] < MaxHops
    /\ hops' = [hops EXCEPT ![t] = @ + 1]
    /\ \E reply \in Answer \ {"none"} : answer' = [answer EXCEPT ![t] = reply]
    /\ pc' = [pc EXCEPT ![t] = "answered"]
    /\ posted' = [posted EXCEPT ![t] = @ \cup {plan[t].profile}]
    /\ UNCHANGED <<clock, mode, store, origin, plan, second, seen, tries, bounds, shown,
                   rejected, latest, failed, unsaved>>

\* The attempt is over; a failed one is queued again, with the same task.
Settle(t) ==
    /\ pc[t] = "save"
    /\ SaveSeen(t)
    /\ pc' = [pc EXCEPT ![t] = IF answer[t] \in Success THEN "done" ELSE "queued"]
    /\ answer' = [answer EXCEPT ![t] = "none"]
    /\ seen' = [seen EXCEPT ![t] = NoRecord]
    /\ UNCHANGED <<clock, mode, origin, plan, second, hops, tries, requests, changes, shown,
                   rejected, posted, failed>>

-----------------------------------------------------------------------------

Tick ==
    /\ clock < MaxClock
    /\ clock' = clock + 1
    /\ UNCHANGED <<mode, store, request, bounds, history>>

\* A server is changed.
Change(key) ==
    /\ changes < MaxChanges
    /\ changes' = changes + 1
    /\ \E m \in Mode \ {mode[key]} : mode' = [mode EXCEPT ![key] = m]
    /\ failed' = IF key[2] = "fetch" THEN [failed EXCEPT ![key[1]] = 0] ELSE failed
    /\ UNCHANGED <<clock, store, request, requests, faults, shown, rejected, posted, latest,
                   unsaved>>

Next ==
    \/ Tick
    \/ \E key \in Key : Change(key)
    \/ \E f \in Fetcher : \/ \E o \in Entry : Fetch(f, o)
                          \/ Reply(f) \/ Redirect(f) \/ Observe(f)
                          \/ Conclude(f) \/ ConcludeFallback(f)
    \/ \E t \in Task : \/ \E o \in Receiver : Enqueue(t, o)
                       \/ Attempt(t) \/ Reply(t) \/ FollowRedirect(t) \/ Observe(t) \/ Settle(t)

Spec == Init /\ [][Next]_vars

-----------------------------------------------------------------------------
(* Properties                                                              *)

\* Every variable has its type; only the two profiles are ever planned or stored.
TypeOK ==
    /\ clock \in 0 .. MaxClock
    /\ mode \in [Key -> Mode]
    /\ store \in [Key -> Record] /\ latest \in [Key -> Record]
    /\ pc \in [Actor -> {"idle", "queued", "sent", "answered", "save", "saveFallback", "done"}]
    /\ origin \in [Actor -> Origin]
    /\ plan \in [Actor -> [profile : Profile, fallback : BOOLEAN]]
    /\ answer \in [Actor -> Answer]
    /\ second \in [Actor -> {"no", "challenge", "bad"}]
    /\ hops \in [Actor -> 0 .. MaxHops]
    /\ seen \in [Actor -> Record]
    /\ tries \in [Task -> 0 .. MaxAttempts]
    /\ requests \in 0 .. MaxRequests /\ changes \in 0 .. MaxChanges /\ faults \in 0 .. MaxFaults
    /\ shown \subseteq Key /\ rejected \subseteq Key
    /\ posted \in [Task -> SUBSET Profile]
    /\ failed \in [Origin -> 0 .. MaxRequests] /\ unsaved \in Nat

\* Observations that are saved in another order than they were made do no harm:
\* as long as the newest one that the script was asked to save is valid, the
\* record is that one, whatever older ones are saved after it.
NewestEvidenceKept ==
    \A k \in Key : Fresh(latest[k]) => store[k] = latest[k]

\* A server that turns to answering RFC 9421 with a challenge loses only so many
\* fetches to what is on record of it.  A fetch that fails saves the rejection,
\* which ends the use of the record.  The record can come back with a success
\* that was answered before the change and is saved late, once for every fetch
\* that was then under way; and then every fetch without such a success can fail
\* once more: 1 + 2 + ... + n of n concurrent fetches, and one for every
\* rejection that is not saved, because Redis fails or because it took longer to
\* save than a rejection is valid.
RejectionsEnd ==
    LET n == Cardinality(Fetcher)
    IN  \A o \in Origin : mode[<<o, "fetch">>] = "challenging" =>
            failed[o] <= (n * (n + 1)) \div 2 + unsaved

\* All attempts of a delivery use one profile, whatever is observed between
\* them.  It is RFC 9421 only for a server that took or asked for it in a
\* delivery (or that redirected one): evidence from fetches is not used.
ModernDeliveryEarned ==
    \A t \in Task :
        /\ Cardinality(posted[t]) <= 1
        /\ "rfc9421" \in posted[t] =>
              \/ <<origin[t], "delivery">> \in shown
              \/ \E u \in Task : origin[u] = origin[t] /\ hops[u] > 0

\* docs/OUTBOUND-SIGNATURE-NEGOTIATION.md on stored evidence: a record rests on
\* an answer of that server in that scope: it accepted or advertised RFC 9421,
\* or it rejected it.  The exception is a delivery that was redirected: the
\* answer of another server is then recorded for the one it was addressed to.
EvidenceIsOwn ==
    \A k \in Key : Fresh(store[k]) =>
        \/ k \in (IF store[k].profile = "rfc9421" THEN shown ELSE rejected)
        \/ \E t \in Task : k = <<origin[t], "delivery">> /\ hops[t] > 0

================================================================================
