---------------------- MODULE SignatureNegotiationProofs ----------------------
(***************************************************************************)
(* The signature negotiation, for any fetches, deliveries and servers, any *)
(* lifetimes of evidence that satisfy the assumption and any bounds.       *)
(*                                                                         *)
(* The invariant follows a piece of evidence from the answer it was seen   *)
(* in, over the observation that waits to be saved, to the record and to   *)
(* the plans that are made from it.  The last section counts: it bounds    *)
(* the fetches that fail after a server has changed by a budget of the     *)
(* failures so far and those that can still come.                          *)
(***************************************************************************)
EXTENDS SignatureNegotiation, FiniteSetTheorems, TLAPS

\* What a record or an observation is.
Evidence == [profile : Profile, observed : Nat, expires : Nat]

\* The values that belong to a fetch or a delivery.
Values(a) ==
    /\ seen[a] \in Evidence /\ hops[a] \in Nat /\ plan[a].profile \in Profile
    /\ a \in Fetcher /\ pc[a] # "idle" => origin[a] \in Origin
    /\ a \in Task /\ pc[a] # "idle" => origin[a] \in Receiver

\* What the functions of the state are defined on, and their values.
Shape ==
    /\ clock \in Nat
    /\ DOMAIN store = Key /\ \A k \in Key : store[k] \in Evidence
    /\ DOMAIN latest = Key /\ \A k \in Key : latest[k] \in Evidence
    /\ DOMAIN seen = Actor /\ DOMAIN pc = Actor /\ DOMAIN origin = Actor /\ DOMAIN plan = Actor
    /\ DOMAIN answer = Actor /\ DOMAIN second = Actor /\ DOMAIN hops = Actor
    /\ DOMAIN posted = Task
    /\ \A a \in Actor : Values(a)

\* The record is never newer than the newest observation, and is that one while
\* it is valid.
LatestInv ==
    \A k \in Key : /\ latest[k] = NoRecord => store[k] = NoRecord
                   /\ store[k].observed <= latest[k].observed
                   /\ Fresh(latest[k]) => store[k] = latest[k]

\* A delivery to the server was redirected.
Redirected(k) == \E t \in Task : k = <<origin[t], "delivery">> /\ hops[t] > 0

\* The server showed what a record with the profile says, or the exception.
Own(k, profile) == k \in (IF profile = "rfc9421" THEN shown ELSE rejected) \/ Redirected(k)

KeyOf(a) == <<origin[a], ScopeOf(a)>>

\* An answer that is being looked at was given by the server that the fetch or
\* the delivery is addressed to, or a redirected delivery got it.
AnswerInv(a) ==
    pc[a] \in {"answered", "save", "saveFallback"} =>
        /\ answer[a] = "advert" \/ (answer[a] = "ok" /\ plan[a].profile = "rfc9421") => Own(KeyOf(a), "rfc9421")
        /\ answer[a] \in {"challenge", "bad"} => Own(KeyOf(a), "legacy")

\* An observation waits to be saved only after an answer, and the answer
\* supports it.
SeenInv(a) ==
    seen[a] # NoRecord => pc[a] \in {"save", "saveFallback"} /\ Own(KeyOf(a), seen[a].profile)

\* A fetch uses the legacy profile only with a server that has rejected RFC
\* 9421: it did so before this request, or its record says so.  After a redirect
\* the success of a second request is thus never recorded without reason.
FetchInv(f) == pc[f] # "idle" /\ plan[f].profile = "legacy" => <<origin[f], "fetch">> \in rejected

\* A delivery has one profile from the time it is queued.
TaskInv(t) ==
    /\ pc[t] = "idle" => hops[t] = 0 /\ posted[t] = {}
    /\ posted[t] \subseteq {plan[t].profile}
    /\ pc[t] # "idle" /\ plan[t].profile = "rfc9421" => Own(<<origin[t], "delivery">>, "rfc9421")

\* EvidenceIsOwn, in the terms of this module.
OwnInv == \A k \in Key : Fresh(store[k]) => Own(k, store[k].profile)

\* The inductive invariant.
Inv ==
    /\ Shape /\ LatestInv /\ OwnInv
    /\ \A a \in Actor : AnswerInv(a) /\ SeenInv(a)
    /\ \A f \in Fetcher : FetchInv(f)
    /\ \A t \in Task : TaskInv(t)

\* The steps of a fetch.
FetcherStep(f) ==
    \/ \E o \in Origin : Fetch(f, o)
    \/ Reply(f) \/ Redirect(f) \/ Observe(f) \/ Conclude(f) \/ ConcludeFallback(f)

\* The steps of a delivery.
TaskStep(t) ==
    \/ \E o \in Receiver : Enqueue(t, o)
    \/ Attempt(t) \/ Reply(t) \/ FollowRedirect(t) \/ Observe(t) \/ Settle(t)

\* Nothing changes for an actor.
Same(b) ==
    /\ pc'[b] = pc[b] /\ origin'[b] = origin[b] /\ plan'[b] = plan[b] /\ answer'[b] = answer[b]
    /\ second'[b] = second[b] /\ hops'[b] = hops[b] /\ seen'[b] = seen[b]
    /\ b \in Task => posted'[b] = posted[b]

\* A step is one of a fetch, one of a delivery, or changes only the time, the mode
\* of a server or nothing.
LEMMA Split ==
    ASSUME [Next]_vars
    PROVE  \/ /\ UNCHANGED <<store, request, shown, rejected, posted, latest>>
              /\ clock' = clock \/ clock' = clock + 1
           \/ \E f \in Fetcher : FetcherStep(f)
           \/ \E t \in Task : TaskStep(t)
  <1>1. CASE Tick
    BY <1>1, Zenon DEF Tick, history
  <1>2. CASE \E key \in Key : Change(key)
    BY <1>2, Zenon DEF Change
  <1>3. CASE \E f \in Fetcher : FetcherStep(f)
    BY <1>3, Zenon
  <1>4. CASE \E t \in Task : TaskStep(t)
    BY <1>4, Zenon
  <1>5. CASE UNCHANGED vars
    BY <1>5, Zenon DEF vars, history
  <1> QED
    BY <1>1, <1>2, <1>3, <1>4, <1>5, NegotiationAssumption, Zenon DEF NegotiationAssumption, Next, FetcherStep, TaskStep

\* A fetch is no delivery.
LEMMA ScopeOfFetcher ==
    ASSUME NEW f \in Fetcher
    PROVE  ScopeOf(f) = "fetch" /\ f \in Actor /\ f \notin Task
  BY NegotiationAssumption, Zenon DEF NegotiationAssumption, ScopeOf, Actor

\* A delivery is no fetch.
LEMMA ScopeOfTask ==
    ASSUME NEW t \in Task
    PROVE  ScopeOf(t) = "delivery" /\ t \in Actor /\ t \notin Fetcher
  BY NegotiationAssumption, Zenon DEF NegotiationAssumption, ScopeOf, Actor

\* An observation has the profile it is made for.
LEMMA ObservedIs ==
    ASSUME clock \in Nat, NEW p \in Profile
    PROVE  Observed(p) \in Evidence /\ Observed(p).profile = p
  BY NegotiationAssumption DEF NegotiationAssumption, Observed, Evidence, Profile

\* The record of a server that nothing is known of.
LEMMA NoRecordIs ==
    NoRecord \in Evidence /\ NoRecord.observed = 0 /\ NoRecord.expires = 0
  BY DEF NoRecord, Evidence, Profile

\* What ObserveResponse takes from an answer.
LEMMA SeenIs ==
    ASSUME clock \in Nat, NEW p, NEW reply
    PROVE  /\ ObserveResponse(p, reply) \in Evidence
           /\ \/ ObserveResponse(p, reply) = NoRecord
              \/ /\ ObserveResponse(p, reply).profile = "rfc9421"
                 /\ reply = "advert" \/ (reply = "ok" /\ p = "rfc9421")
              \/ ObserveResponse(p, reply).profile = "legacy" /\ reply = "challenge"
  <1>1. CASE reply = "advert" \/ (reply = "ok" /\ p = "rfc9421")
    <2>1. ObserveResponse(p, reply) = Observed("rfc9421")
      BY <1>1, Zenon DEF ObserveResponse
    <2> QED
      BY <1>1, <2>1, ObservedIs, Zenon DEF Profile
  <1>2. CASE reply = "challenge" /\ p = "rfc9421"
    <2>1. ObserveResponse(p, reply) = Observed("legacy")
      BY <1>2, Zenon DEF ObserveResponse
    <2> QED
      BY <1>2, <2>1, ObservedIs, Zenon DEF Profile
  <1>3. CASE ~(reply = "advert" \/ (reply = "ok" /\ p = "rfc9421")) /\ ~(reply = "challenge" /\ p = "rfc9421")
    <2>1. ObserveResponse(p, reply) = NoRecord
      BY <1>3, Zenon DEF ObserveResponse
    <2> QED
      BY <2>1, NoRecordIs, Zenon
  <1> QED
    BY <1>1, <1>2, <1>3, Zenon

\* What Plan concludes rests on a record that is fresh, or is the default of the
\* scope.
LEMMA PlanIs ==
    ASSUME Shape, OwnInv, NEW o, NEW scope \in {"fetch", "delivery"}, <<o, scope>> \in Key
    PROVE  /\ Plan(o, scope).profile \in Profile
           /\ scope = "fetch" /\ Plan(o, scope).profile = "legacy" => <<o, "fetch">> \in rejected
           /\ scope = "delivery" /\ Plan(o, scope).profile = "rfc9421" => Own(<<o, "delivery">>, "rfc9421")
  <1> DEFINE record == store[<<o, scope>>]
  <1>1. CASE Fresh(record)
    <2>1. Plan(o, scope) = [profile |-> record.profile, fallback |-> FALSE]
      BY <1>1, Zenon DEF Plan, capabilityKey
    <2>2. Plan(o, scope).profile = record.profile
      BY <2>1
    <2>3. record.profile \in Profile
      BY DEF Shape, Evidence
    <2>4. Own(<<o, scope>>, record.profile)
      BY <1>1, Zenon DEF OwnInv
    <2>5. ASSUME scope = "fetch", record.profile = "legacy" PROVE <<o, "fetch">> \in rejected
      BY <2>4, <2>5 DEF Own, Redirected
    <2> QED
      BY <2>2, <2>3, <2>4, <2>5, Zenon
  <1>2. CASE ~Fresh(record) /\ scope = "fetch"
    <2>1. Plan(o, scope) = [profile |-> "rfc9421", fallback |-> TRUE]
      BY <1>2, Zenon DEF Plan, capabilityKey
    <2> QED
      BY <1>2, <2>1 DEF Profile
  <1>3. CASE ~Fresh(record) /\ scope = "delivery"
    <2>1. Plan(o, scope) = [profile |-> "legacy", fallback |-> FALSE]
      BY <1>3, Zenon DEF Plan, capabilityKey
    <2> QED
      BY <1>3, <2>1 DEF Profile
  <1> QED
    BY <1>1, <1>2, <1>3, Zenon

\* A step of a fetch leaves the others as they are.
LEMMA OthersOfFetcher ==
    ASSUME Shape, NEW f \in Fetcher, FetcherStep(f), NEW b \in Actor, b # f
    PROVE  Same(b)
  <1> USE ScopeOfFetcher DEF Shape, Same
  <1>0. CASE \E o \in Origin : Fetch(f, o)
    BY <1>0, ZenonT(60) DEF Fetch, history
  <1>1. CASE Reply(f)
    BY <1>1, Zenon DEF Reply
  <1>2. CASE Redirect(f)
    BY <1>2, Zenon DEF Redirect, history
  <1>3. CASE Observe(f)
    BY <1>3, Zenon DEF Observe
  <1>4. CASE Conclude(f)
    BY <1>4, ZenonT(60) DEF Conclude, Forget
  <1>5. CASE ConcludeFallback(f)
    BY <1>5, Zenon DEF ConcludeFallback, Forget
  <1> QED
    BY <1>0, <1>1, <1>2, <1>3, <1>4, <1>5, Zenon DEF FetcherStep

\* A step of a delivery leaves the others as they are.
LEMMA OthersOfTask ==
    ASSUME Shape, NEW t \in Task, TaskStep(t), NEW b \in Actor, b # t
    PROVE  Same(b)
  <1> USE ScopeOfTask DEF Shape, Same
  <1>0. CASE \E o \in Receiver : Enqueue(t, o)
    BY <1>0, ZenonT(60) DEF Enqueue, history
  <1>1. CASE Attempt(t)
    BY <1>1, Zenon DEF Attempt, history
  <1>2. CASE Reply(t)
    BY <1>2, Zenon DEF Reply
  <1>3. CASE FollowRedirect(t)
    BY <1>3, Zenon DEF FollowRedirect
  <1>4. CASE Observe(t)
    BY <1>4, Zenon DEF Observe
  <1>5. CASE Settle(t)
    BY <1>5, Zenon DEF Settle
  <1> QED
    BY <1>0, <1>1, <1>2, <1>3, <1>4, <1>5, Zenon DEF TaskStep

\* A request under way has a record to read and to write.
LEMMA KeyIs ==
    ASSUME Shape, NEW a \in Actor, pc[a] # "idle"
    PROVE  KeyOf(a) \in Key /\ capabilityKey(origin[a], ScopeOf(a)) = KeyOf(a)
  <1>1. CASE a \in Fetcher
    BY <1>1, ScopeOfFetcher DEF Shape, Values, KeyOf, Key, capabilityKey
  <1>2. CASE a \in Task
    BY <1>2, ScopeOfTask DEF Shape, Values, KeyOf, Key, capabilityKey
  <1> QED
    BY <1>1, <1>2, Zenon DEF Actor

\* The functions are defined on the same arguments after a step.
DomainsKept ==
    /\ DOMAIN seen' = DOMAIN seen /\ DOMAIN pc' = DOMAIN pc /\ DOMAIN origin' = DOMAIN origin
    /\ DOMAIN plan' = DOMAIN plan /\ DOMAIN answer' = DOMAIN answer
    /\ DOMAIN second' = DOMAIN second /\ DOMAIN hops' = DOMAIN hops
    /\ DOMAIN posted' = DOMAIN posted

\* A step of a fetch keeps the domains.
LEMMA FetcherKeepsDomains ==
    ASSUME NEW f \in Fetcher, FetcherStep(f)
    PROVE  DomainsKept
  <1>1. CASE \E o \in Origin : Fetch(f, o)
    BY <1>1, Zenon DEF Fetch, history, DomainsKept
  <1>2. CASE Reply(f)
    BY <1>2, Zenon DEF Reply, DomainsKept
  <1>3. CASE Redirect(f)
    BY <1>3, Zenon DEF Redirect, history, DomainsKept
  <1>4. CASE Observe(f)
    BY <1>4, Zenon DEF Observe, DomainsKept
  <1>5. CASE Conclude(f)
    BY <1>5, Zenon DEF Conclude, Forget, DomainsKept
  <1>6. CASE ConcludeFallback(f)
    BY <1>6, Zenon DEF ConcludeFallback, Forget, DomainsKept
  <1> QED
    BY <1>1, <1>2, <1>3, <1>4, <1>5, <1>6, Zenon DEF FetcherStep

\* A step of a delivery keeps the domains.
LEMMA TaskKeepsDomains ==
    ASSUME NEW t \in Task, TaskStep(t)
    PROVE  DomainsKept
  <1>1. CASE \E o \in Receiver : Enqueue(t, o)
    BY <1>1, Zenon DEF Enqueue, history, DomainsKept
  <1>2. CASE Attempt(t)
    BY <1>2, Zenon DEF Attempt, history, DomainsKept
  <1>3. CASE Reply(t)
    BY <1>3, Zenon DEF Reply, DomainsKept
  <1>4. CASE FollowRedirect(t)
    BY <1>4, Zenon DEF FollowRedirect, DomainsKept
  <1>5. CASE Observe(t)
    BY <1>5, Zenon DEF Observe, DomainsKept
  <1>6. CASE Settle(t)
    BY <1>6, Zenon DEF Settle, DomainsKept
  <1> QED
    BY <1>1, <1>2, <1>3, <1>4, <1>5, <1>6, Zenon DEF TaskStep

\* What an actor's step can do to the records.
Saved(a) ==
    /\ clock' = clock
    /\ \/ UNCHANGED <<store, latest>>
       \/ /\ pc[a] # "idle" /\ seen[a] # NoRecord /\ Fresh(seen[a])
          /\ Save(KeyOf(a), seen[a])
          /\ latest' = IF latest[KeyOf(a)] = NoRecord \/ latest[KeyOf(a)].observed < seen[a].observed
                       THEN [latest EXCEPT ![KeyOf(a)] = seen[a]] ELSE latest

\* SaveSeen leaves the records alone, as it does with an observation that has
\* expired, or saves the observation.
LEMMA SaveSeenSaves ==
    ASSUME Shape, NEW a \in Actor, pc[a] # "idle", SaveSeen(a), clock' = clock
    PROVE  Saved(a)
  <1>1. capabilityKey(origin[a], ScopeOf(a)) = KeyOf(a)
    BY KeyIs, Zenon
  <1>2. CASE Fresh(seen[a])
    BY <1>1, <1>2, Zenon DEF SaveSeen, Saved
  <1>3. CASE ~Fresh(seen[a])
    BY <1>1, <1>3, Zenon DEF SaveSeen, Saved, Save
  <1> QED
    BY <1>2, <1>3, Zenon

\* What a step of a fetch does to the records.
LEMMA FetcherSaves ==
    ASSUME Shape, NEW f \in Fetcher, FetcherStep(f)
    PROVE  Saved(f)
  <1> f \in Actor
    BY ScopeOfFetcher, Zenon
  <1>0. SaveSeen(f) /\ pc[f] # "idle" /\ clock' = clock => Saved(f)
    BY SaveSeenSaves, Zenon
  <1>1. CASE \E o \in Origin : Fetch(f, o)
    BY <1>1, Zenon DEF Fetch, history, Saved
  <1>2. CASE Reply(f)
    BY <1>2, Zenon DEF Reply, Saved
  <1>3. CASE Redirect(f)
    BY <1>3, Zenon DEF Redirect, history, Saved
  <1>4. CASE Observe(f)
    BY <1>4, Zenon DEF Observe, Saved
  <1>5. CASE Conclude(f)
    BY <1>5, <1>0, Zenon DEF Conclude
  <1>6. CASE ConcludeFallback(f)
    BY <1>6, <1>0, Zenon DEF ConcludeFallback
  <1> QED
    BY <1>1, <1>2, <1>3, <1>4, <1>5, <1>6, Zenon DEF FetcherStep

\* What a step of a delivery does to the records.
LEMMA TaskSaves ==
    ASSUME Shape, NEW t \in Task, TaskStep(t)
    PROVE  Saved(t)
  <1> t \in Actor
    BY ScopeOfTask, Zenon
  <1>0. SaveSeen(t) /\ pc[t] # "idle" /\ clock' = clock => Saved(t)
    BY SaveSeenSaves, Zenon
  <1>1. CASE \E o \in Receiver : Enqueue(t, o)
    BY <1>1, Zenon DEF Enqueue, history, Saved
  <1>2. CASE Attempt(t)
    BY <1>2, Zenon DEF Attempt, history, Saved
  <1>3. CASE Reply(t)
    BY <1>3, Zenon DEF Reply, Saved
  <1>4. CASE FollowRedirect(t)
    BY <1>4, Zenon DEF FollowRedirect, Saved
  <1>5. CASE Observe(t)
    BY <1>5, Zenon DEF Observe, Saved
  <1>6. CASE Settle(t)
    BY <1>6, <1>0, Zenon DEF Settle
  <1> QED
    BY <1>1, <1>2, <1>3, <1>4, <1>5, <1>6, Zenon DEF TaskStep

\* Records stay records.
LEMMA RecordsTyped ==
    ASSUME Shape, NEW a \in Actor, Saved(a)
    PROVE  /\ clock' \in Nat
           /\ DOMAIN store' = Key /\ \A k \in Key : store'[k] \in Evidence
           /\ DOMAIN latest' = Key /\ \A k \in Key : latest'[k] \in Evidence
  <1>1. CASE UNCHANGED <<store, latest>>
    BY <1>1, Zenon DEF Saved, Shape
  <1>2. CASE ~UNCHANGED <<store, latest>>
    BY <1>2, Zenon DEF Saved, Shape, Save, Values
  <1> QED
    BY <1>1, <1>2, Zenon

\* A step of a fetch keeps the types of its values.
LEMMA FetcherValues ==
    ASSUME Shape, OwnInv, NEW f \in Fetcher, FetcherStep(f)
    PROVE  Values(f)'
  <1> f \in Actor /\ f \notin Task
    BY ScopeOfFetcher, Zenon
  <1>a. Values(f) /\ clock \in Nat
    BY Zenon DEF Shape
  <1>b. \A o \in Origin : Plan(o, "fetch").profile \in Profile
    BY PlanIs, Zenon DEF Key
  <1>c. \A p, reply : ObserveResponse(p, reply) \in Evidence
    BY <1>a, SeenIs, Zenon
  <1>d. Observed("legacy") \in Evidence /\ NoRecord \in Evidence
    BY <1>a, ObservedIs, NoRecordIs, Zenon DEF Profile
  <1>1. CASE \E o \in Origin : Fetch(f, o)
    BY <1>a, <1>b, <1>1, ZenonT(60) DEF Fetch, Shape, Values
  <1>2. CASE Reply(f)
    BY <1>a, <1>2, Zenon DEF Reply, Values
  <1>3. CASE Redirect(f)
    <2>1. hops'[f] = hops[f] + 1 /\ UNCHANGED <<seen, pc>>
      BY <1>3, Zenon DEF Redirect, Shape
    <2>2. plan'[f].profile \in Profile /\ origin'[f] \in Origin
      BY <1>b, <1>3, Zenon DEF Redirect, Shape
    <2> QED
      BY <1>a, <2>1, <2>2 DEF Values
  <1>4. CASE Observe(f)
    BY <1>a, <1>c, <1>4, Zenon DEF Observe, Values, Shape
  <1>5. CASE Conclude(f)
    <2>1. origin' = origin /\ pc[f] # "idle"
      BY <1>5, Zenon DEF Conclude
    <2>2. hops'[f] \in Nat
      BY <1>a, <1>5 DEF Conclude, Forget, Shape, Values
    <2>3. seen'[f] \in Evidence
      BY <1>a, <1>d, <1>5, Zenon DEF Conclude, Forget, Shape, Values
    <2>4. plan'[f].profile \in Profile
      <3>1. plan' = plan \/ plan'[f] = [profile |-> "legacy", fallback |-> FALSE]
        BY <1>5, Zenon DEF Conclude, Shape
      <3> QED
        BY <1>a, <3>1 DEF Values, Profile
    <2> QED
      BY <1>a, <2>1, <2>2, <2>3, <2>4, Zenon DEF Values
  <1>6. CASE ConcludeFallback(f)
    <2>1. hops'[f] = 0 /\ seen'[f] = NoRecord /\ UNCHANGED <<plan, origin>> /\ pc'[f] = "idle"
      BY <1>6, Zenon DEF ConcludeFallback, Forget, Shape
    <2> QED
      BY <1>a, <1>d, <2>1 DEF Values
  <1> QED
    BY <1>1, <1>2, <1>3, <1>4, <1>5, <1>6, Zenon DEF FetcherStep

\* A step of a delivery keeps the types of its values.
LEMMA TaskValues ==
    ASSUME Shape, OwnInv, NEW t \in Task, TaskStep(t)
    PROVE  Values(t)'
  <1> t \in Actor /\ t \notin Fetcher
    BY ScopeOfTask, Zenon
  <1>a. Values(t) /\ clock \in Nat
    BY Zenon DEF Shape
  <1>b. \A o \in Receiver : Plan(o, "delivery").profile \in Profile
    BY PlanIs, Zenon DEF Key
  <1>c. \A p, reply : ObserveResponse(p, reply) \in Evidence
    BY <1>a, SeenIs, Zenon
  <1>d. NoRecord \in Evidence
    BY NoRecordIs, Zenon
  <1>1. CASE \E o \in Receiver : Enqueue(t, o)
    BY <1>a, <1>b, <1>1, ZenonT(60) DEF Enqueue, Shape, Values
  <1>2. CASE Attempt(t)
    BY <1>a, <1>2, Zenon DEF Attempt, Values
  <1>3. CASE Reply(t)
    BY <1>a, <1>3, Zenon DEF Reply, Values
  <1>4. CASE FollowRedirect(t)
    <2>1. hops'[t] = hops[t] + 1 /\ UNCHANGED <<seen, plan, origin>> /\ pc[t] # "idle"
      BY <1>4, Zenon DEF FollowRedirect, Shape
    <2> QED
      BY <1>a, <2>1 DEF Values
  <1>5. CASE Observe(t)
    BY <1>a, <1>c, <1>5, Zenon DEF Observe, Values, Shape
  <1>6. CASE Settle(t)
    BY <1>a, <1>d, <1>6, Zenon DEF Settle, Values, Shape
  <1> QED
    BY <1>1, <1>2, <1>3, <1>4, <1>5, <1>6, Zenon DEF TaskStep

\* Every step keeps the shape of the state.
LEMMA ShapeKept ==
    ASSUME Shape, OwnInv, [Next]_vars
    PROVE  Shape'
  <1>0. ASSUME NEW a \in Actor, NEW b \in Actor, Same(b) PROVE Values(b)'
    BY <1>0, Zenon DEF Shape, Values, Same
  <1>1. CASE UNCHANGED <<store, request, shown, rejected, posted, latest>> /\ (clock' = clock \/ clock' = clock + 1)
    <2>1. clock' \in Nat
      BY <1>1 DEF Shape
    <2> QED
      BY <1>1, <2>1, Zenon DEF Shape, Values, request
  <1>2. ASSUME NEW f \in Fetcher, FetcherStep(f) PROVE Shape'
    <2>1. f \in Actor
      BY ScopeOfFetcher, Zenon
    <2>2. \A a \in Actor : Values(a)'
      BY <1>0, <1>2, <2>1, FetcherValues, OthersOfFetcher, Zenon
    <2>3. DomainsKept /\ Saved(f)
      BY <1>2, FetcherKeepsDomains, FetcherSaves, Zenon
    <2> QED
      BY <2>1, <2>2, <2>3, RecordsTyped, Zenon DEF Shape, DomainsKept
  <1>3. ASSUME NEW t \in Task, TaskStep(t) PROVE Shape'
    <2>1. t \in Actor
      BY ScopeOfTask, Zenon
    <2>2. \A a \in Actor : Values(a)'
      BY <1>0, <1>3, <2>1, TaskValues, OthersOfTask, Zenon
    <2>3. DomainsKept /\ Saved(t)
      BY <1>3, TaskKeepsDomains, TaskSaves, Zenon
    <2> QED
      BY <2>1, <2>2, <2>3, RecordsTyped, Zenon DEF Shape, DomainsKept
  <1> QED
    BY <1>1, <1>2, <1>3, Split, Zenon

\* What was shown stays shown.
Grows ==
    /\ shown \subseteq shown' /\ rejected \subseteq rejected'
    /\ \A t \in Task : hops[t] > 0 => hops'[t] > 0 /\ origin'[t] = origin[t]

\* What supports a record does so for ever.
LEMMA OwnGrows ==
    ASSUME Grows, NEW k, NEW profile, Own(k, profile)
    PROVE  Own(k, profile)'
  BY Zenon DEF Grows, Own, Redirected

\* A step of a fetch takes back nothing that was shown.
LEMMA FetcherGrows ==
    ASSUME Shape, NEW f \in Fetcher, FetcherStep(f)
    PROVE  Grows
  <1>0. \A t \in Task : hops'[t] = hops[t] /\ origin'[t] = origin[t]
    BY OthersOfFetcher, ScopeOfFetcher, ScopeOfTask, Zenon DEF Same
  <1>7. shown \subseteq shown' /\ rejected \subseteq rejected'
    <2>1. CASE \E o \in Origin : Fetch(f, o)
      BY <2>1, Zenon DEF Fetch, history
    <2>2. CASE Reply(f)
      BY <2>2, Zenon DEF Reply
    <2>3. CASE Redirect(f)
      BY <2>3, Zenon DEF Redirect, history
    <2>4. CASE Observe(f)
      BY <2>4, Zenon DEF Observe
    <2>5. CASE Conclude(f)
      BY <2>5, Zenon DEF Conclude, Forget
    <2>6. CASE ConcludeFallback(f)
      BY <2>6, Zenon DEF ConcludeFallback, Forget
    <2> QED
      BY <2>1, <2>2, <2>3, <2>4, <2>5, <2>6, Zenon DEF FetcherStep
  <1> QED
    BY <1>0, <1>7, Zenon DEF Grows

\* A step of a delivery takes back nothing that was shown: one that was redirected
\* is never queued anew for another server.
LEMMA TaskGrows ==
    ASSUME Shape, NEW t \in Task, TaskStep(t), TaskInv(t)
    PROVE  Grows
  <1> t \in Actor
    BY ScopeOfTask, Zenon
  <1>0. \A u \in Task \ {t} : hops'[u] = hops[u] /\ origin'[u] = origin[u]
    BY OthersOfTask, ScopeOfTask, Zenon DEF Same
  <1>7. shown \subseteq shown' /\ rejected \subseteq rejected'
    <2>1. CASE \E o \in Receiver : Enqueue(t, o)
      BY <2>1, Zenon DEF Enqueue, history
    <2>2. CASE Attempt(t)
      BY <2>2, Zenon DEF Attempt, history
    <2>3. CASE Reply(t)
      BY <2>3, Zenon DEF Reply
    <2>4. CASE FollowRedirect(t)
      BY <2>4, Zenon DEF FollowRedirect
    <2>5. CASE Observe(t)
      BY <2>5, Zenon DEF Observe
    <2>6. CASE Settle(t)
      BY <2>6, Zenon DEF Settle
    <2> QED
      BY <2>1, <2>2, <2>3, <2>4, <2>5, <2>6, Zenon DEF TaskStep
  <1>8. hops[t] > 0 => hops'[t] > 0 /\ origin'[t] = origin[t]
    <2>1. pc[t] = "idle" \/ origin' = origin
      BY Zenon DEF TaskStep, Enqueue, Attempt, Reply, FollowRedirect, Observe, Settle
    <2>2. hops' = hops \/ hops'[t] = hops[t] + 1
      BY Zenon DEF TaskStep, Enqueue, Attempt, Reply, FollowRedirect, Observe, Settle, Shape
    <2>3. hops[t] \in Nat
      BY Zenon DEF Shape, Values
    <2> QED
      BY <2>1, <2>2, <2>3 DEF TaskInv
  <1> QED
    BY <1>0, <1>7, <1>8, Zenon DEF Grows

\* The script keeps the newest observation.  One that is older than the newest is
\* saved only when the newest has expired, and a newer one replaces both.
LEMMA LatestSaved ==
    ASSUME Shape, LatestInv, NEW a \in Actor, Saved(a)
    PROVE  LatestInv'
  <1>1. CASE UNCHANGED <<store, latest>>
    BY <1>1, Zenon DEF Saved, LatestInv, Fresh
  <1>2. CASE ~UNCHANGED <<store, latest>>
    <2> DEFINE key == KeyOf(a)
    <2>a. /\ clock' = clock /\ pc[a] # "idle" /\ seen[a] # NoRecord /\ Save(key, seen[a]) /\ Fresh(seen[a])
          /\ latest' = IF latest[key] = NoRecord \/ latest[key].observed < seen[a].observed
                       THEN [latest EXCEPT ![key] = seen[a]] ELSE latest
      BY <1>2, Zenon DEF Saved
    <2>b. key \in Key
      BY <2>a, KeyIs, Zenon
    <2>c. seen[a] \in Evidence /\ store[key] \in Evidence /\ latest[key] \in Evidence
      BY <2>b, Zenon DEF Shape, Values
    <2>d. \A k \in Key \ {key} : store'[k] = store[k] /\ latest'[k] = latest[k]
      BY <2>a, <2>b, Zenon DEF Save, Shape
    <2>e. store'[key] = IF Fresh(store[key]) /\ store[key].observed >= seen[a].observed
                        THEN store[key] ELSE seen[a]
      BY <2>a, <2>b, Zenon DEF Save, Shape
    <2>f. latest'[key] = IF latest[key] = NoRecord \/ latest[key].observed < seen[a].observed
                         THEN seen[a] ELSE latest[key]
      BY <2>a, <2>b, Zenon DEF Shape
    <2>g. /\ latest[key] = NoRecord => store[key] = NoRecord
          /\ store[key].observed <= latest[key].observed
          /\ Fresh(latest[key]) => store[key] = latest[key]
      BY <2>b, Zenon DEF LatestInv
    <2>h. clock \in Nat /\ NoRecord.expires = 0
      BY NoRecordIs, Zenon DEF Shape
    <2>i. ~Fresh(NoRecord)
      BY <2>h DEF Fresh
    <2>j. /\ seen[a].observed \in Nat /\ store[key].observed \in Nat /\ latest[key].observed \in Nat
      BY <2>c DEF Evidence
    <2>4. /\ latest'[key] = NoRecord => store'[key] = NoRecord
          /\ store'[key].observed <= latest'[key].observed
          /\ Fresh(latest'[key]) => store'[key] = latest'[key]
      <3>1. CASE latest[key] = NoRecord
        <4>1. store[key] = NoRecord /\ ~Fresh(store[key])
          BY <3>1, <2>g, <2>i, Zenon
        <4>2. store'[key] = seen[a] /\ latest'[key] = seen[a]
          BY <3>1, <4>1, <2>e, <2>f, ZenonT(60)
        <4> QED
          BY <4>2, <2>j
      <3>2. CASE latest[key] # NoRecord /\ latest[key].observed < seen[a].observed
        <4>1. store'[key] = seen[a] /\ latest'[key] = seen[a]
          BY <3>2, <2>e, <2>f, <2>g, <2>j
        <4> QED
          BY <4>1, <2>j
      <3>3. CASE latest[key] # NoRecord /\ ~(latest[key].observed < seen[a].observed)
        <4>1. latest'[key] = latest[key]
          BY <3>3, <2>f, Zenon
        <4>2. store'[key].observed <= latest[key].observed
          BY <3>3, <2>e, <2>g, <2>j
        <4>3. Fresh(latest[key]) => store'[key] = latest[key]
          BY <3>3, <2>e, <2>g, <2>j
        <4> QED
          BY <4>1, <4>2, <4>3, <3>3, Zenon
      <3> QED
        BY <3>1, <3>2, <3>3, Zenon
    <2> QED
      BY <2>4, <2>d, <2>a, Zenon DEF LatestInv, Fresh
  <1> QED
    BY <1>1, <1>2, Zenon

\* A record that is written is supported, because the observation is.
LEMMA OwnSaved ==
    ASSUME Shape, OwnInv, NEW a \in Actor, Saved(a), SeenInv(a), Grows
    PROVE  OwnInv'
  <1> SUFFICES ASSUME NEW k \in Key, Fresh(store[k])' PROVE Own(k, store[k].profile)'
    BY Zenon DEF OwnInv
  <1>1. CASE store'[k] = store[k]
    <2>1. Fresh(store[k])
      BY <1>1, Zenon DEF Fresh, Saved
    <2>2. Own(k, store[k].profile)
      BY <2>1, Zenon DEF OwnInv
    <2> QED
      BY <1>1, <2>2, Zenon DEF Grows, Own, Redirected
  <1>2. CASE store'[k] # store[k]
    <2>1. k = KeyOf(a) /\ store'[k] = seen[a] /\ seen[a] # NoRecord
      BY <1>2, KeyIs, Zenon DEF Saved, Save, Shape
    <2>2. Own(k, seen[a].profile)
      BY <2>1, Zenon DEF SeenInv
    <2> QED
      BY <2>1, <2>2, Zenon DEF Grows, Own, Redirected
  <1> QED
    BY <1>1, <1>2, Zenon

\* The invariants of a fetch or a delivery hold on when others take a step.
LEMMA SameKept ==
    ASSUME NEW b \in Actor, Same(b), Grows
    PROVE  /\ AnswerInv(b) => AnswerInv(b)'
           /\ SeenInv(b) => SeenInv(b)'
           /\ b \in Fetcher /\ FetchInv(b) => FetchInv(b)'
           /\ b \in Task /\ TaskInv(b) => TaskInv(b)'
  <1>0. KeyOf(b)' = KeyOf(b)
    BY Zenon DEF Same, KeyOf
  <1>a. \A p : Own(KeyOf(b), p) => Own(KeyOf(b), p)'
    BY <1>0, Zenon DEF Grows, Own, Redirected
  <1>1. AnswerInv(b) => AnswerInv(b)'
    BY <1>a, Zenon DEF AnswerInv, Same
  <1>2. SeenInv(b) => SeenInv(b)'
    BY <1>a, Zenon DEF SeenInv, Same
  <1>3. b \in Fetcher /\ FetchInv(b) => FetchInv(b)'
    BY Zenon DEF FetchInv, Same, Grows
  <1>4. b \in Task /\ TaskInv(b) => TaskInv(b)'
    BY Zenon DEF TaskInv, Same, Grows, Own, Redirected
  <1> QED
    BY <1>1, <1>2, <1>3, <1>4, Zenon

\* The answer of a server is evidence of that server.
LEMMA ReplyIsOwn ==
    ASSUME Shape, NEW a \in Actor, Reply(a)
    PROVE  AnswerInv(a)'
  <1> PICK reply \in Answers(mode[<<origin[a], ScopeOf(a)>>], plan[a].profile) :
            /\ answer' = [answer EXCEPT ![a] = reply]
            /\ shown' = shown \cup
                  (IF reply = "advert" \/ (reply = "ok" /\ plan[a].profile = "rfc9421")
                   THEN {<<origin[a], ScopeOf(a)>>} ELSE {})
            /\ rejected' = rejected \cup
                  (IF reply \in {"challenge", "bad"} THEN {<<origin[a], ScopeOf(a)>>} ELSE {})
    BY Zenon DEF Reply
  <1>1. answer'[a] = reply /\ origin' = origin /\ plan' = plan
    BY Zenon DEF Reply, Shape
  <1>2. KeyOf(a)' = <<origin[a], ScopeOf(a)>>
    BY <1>1, Zenon DEF KeyOf
  <1> QED
    BY <1>1, <1>2, Zenon DEF AnswerInv, Own

\* ObserveResponse finds no more in an answer than there is.
LEMMA ObservationIsOwn ==
    ASSUME Shape, NEW a \in Actor, Observe(a), AnswerInv(a), Grows
    PROVE  AnswerInv(a)' /\ SeenInv(a)'
  <1>1. /\ pc[a] = "answered" /\ pc'[a] = "save" /\ UNCHANGED <<origin, plan, answer>>
        /\ seen'[a] = ObserveResponse(plan[a].profile, answer[a])
    BY Zenon DEF Observe, Shape
  <1>2. KeyOf(a)' = KeyOf(a)
    BY <1>1, Zenon DEF KeyOf
  <1>3. \A p : Own(KeyOf(a), p) => Own(KeyOf(a), p)'
    BY <1>2, Zenon DEF Grows, Own, Redirected
  <1>4. AnswerInv(a)'
    BY <1>1, <1>3, Zenon DEF AnswerInv
  <1>5. clock \in Nat
    BY Zenon DEF Shape
  <1> DEFINE r == ObserveResponse(plan[a].profile, answer[a])
  <1>8. \/ r = NoRecord
        \/ /\ r.profile = "rfc9421"
           /\ answer[a] = "advert" \/ (answer[a] = "ok" /\ plan[a].profile = "rfc9421")
        \/ r.profile = "legacy" /\ answer[a] = "challenge"
    BY <1>5, SeenIs
  <1>9. seen'[a] = r
    BY <1>1, Zenon
  <1> HIDE DEF r
  <1>6. \/ seen'[a] = NoRecord
        \/ /\ seen'[a].profile = "rfc9421"
           /\ answer[a] = "advert" \/ (answer[a] = "ok" /\ plan[a].profile = "rfc9421")
        \/ seen'[a].profile = "legacy" /\ answer[a] = "challenge"
    BY <1>8, <1>9, Zenon
  <1>7. SeenInv(a)'
    BY <1>1, <1>3, <1>6, Zenon DEF AnswerInv, SeenInv
  <1> QED
    BY <1>4, <1>7, Zenon

\* Redirected deliveries excuse no record for fetches.
LEMMA FetchersKey ==
    ASSUME NEW f \in Fetcher
    PROVE  KeyOf(f) = <<origin[f], "fetch">> /\ (Own(KeyOf(f), "legacy") <=> <<origin[f], "fetch">> \in rejected)
  <1>1. KeyOf(f) = <<origin[f], "fetch">>
    BY ScopeOfFetcher, Zenon DEF KeyOf
  <1>2. ~Redirected(KeyOf(f))
    BY <1>1 DEF Redirected
  <1> QED
    BY <1>1, <1>2, Zenon DEF Own

\* The steps of a fetch keep its invariants.
LEMMA FetcherInv ==
    ASSUME Shape, OwnInv, NEW f \in Fetcher, FetcherStep(f), AnswerInv(f), SeenInv(f), FetchInv(f)
    PROVE  AnswerInv(f)' /\ SeenInv(f)' /\ FetchInv(f)'
  <1> f \in Actor
    BY ScopeOfFetcher, Zenon
  <1>a. Grows
    BY FetcherGrows, Zenon
  <1>b. \A o \in Origin : Plan(o, "fetch").profile = "legacy" => <<o, "fetch">> \in rejected
    BY PlanIs, Zenon DEF Key
  <1>1. CASE \E o \in Origin : Fetch(f, o)
    <2>1. pc[f] = "idle" /\ pc'[f] = "sent" /\ seen' = seen /\ rejected' = rejected
      BY <1>1, Zenon DEF Fetch, Shape, history
    <2>2. \E o \in Origin : origin'[f] = o /\ plan'[f] = Plan(o, "fetch")
      BY <1>1, Zenon DEF Fetch, Shape
    <2> QED
      BY <1>b, <2>1, <2>2, Zenon DEF AnswerInv, SeenInv, FetchInv
  <1>2. CASE Reply(f)
    <2>1. pc[f] = "sent" /\ pc'[f] = "answered" /\ UNCHANGED <<seen, origin, plan>>
      BY <1>2, Zenon DEF Reply, Shape
    <2>2. AnswerInv(f)'
      BY <1>2, ReplyIsOwn, Zenon
    <2> QED
      BY <1>a, <2>1, <2>2, Zenon DEF SeenInv, FetchInv, Grows
  <1>3. CASE Redirect(f)
    <2>1. pc[f] = "sent" /\ pc' = pc /\ seen' = seen /\ rejected' = rejected
      BY <1>3, Zenon DEF Redirect, history
    <2>2. \E o \in Origin : origin'[f] = o /\ plan'[f] = Plan(o, "fetch")
      BY <1>3, Zenon DEF Redirect, Shape
    <2> QED
      BY <1>b, <2>1, <2>2, Zenon DEF AnswerInv, SeenInv, FetchInv
  <1>4. CASE Observe(f)
    <2>1. pc[f] = "answered" /\ UNCHANGED <<origin, plan, rejected>>
      BY <1>4, Zenon DEF Observe
    <2>2. FetchInv(f)'
      BY <2>1, Zenon DEF FetchInv
    <2> QED
      BY <1>a, <1>4, <2>2, ObservationIsOwn, Zenon
  <1>5. CASE Conclude(f)
    <2>a. pc[f] = "save" /\ UNCHANGED <<origin, shown, rejected>>
      BY <1>5, Zenon DEF Conclude
    <2>1. CASE ShouldFallback(f) /\ pc' = [pc EXCEPT ![f] = "sent"] /\ seen' = [seen EXCEPT ![f] = NoRecord]
      <3>1. Own(KeyOf(f), "legacy")
        BY <2>1, <2>a, Zenon DEF ShouldFallback, AnswerInv
      <3>2. <<origin[f], "fetch">> \in rejected
        BY <3>1, FetchersKey, Zenon
      <3>3. pc'[f] = "sent" /\ seen'[f] = NoRecord
        BY <2>1, Zenon DEF Shape
      <3> QED
        BY <2>a, <3>2, <3>3, Zenon DEF AnswerInv, SeenInv, FetchInv
    <2>2. CASE /\ FallbackSucceeded(f) /\ pc' = [pc EXCEPT ![f] = "saveFallback"]
               /\ seen' = [seen EXCEPT ![f] = Observed("legacy")] /\ UNCHANGED <<plan, second, answer, hops>>
      <3>1. <<origin[f], "fetch">> \in rejected
        BY <2>2, <2>a, Zenon DEF FallbackSucceeded, FetchInv
      <3>2. Own(KeyOf(f), "legacy")
        BY <3>1, FetchersKey, Zenon
      <3>3. pc'[f] = "saveFallback" /\ seen'[f].profile = "legacy"
        BY <2>2, ObservedIs, Zenon DEF Shape, Profile
      <3>4. KeyOf(f)' = KeyOf(f)
        BY <2>a, Zenon DEF KeyOf
      <3>5. \A p : Own(KeyOf(f), p) => Own(KeyOf(f), p)'
        BY <1>a, <3>4, Zenon DEF Grows, Own, Redirected
      <3>6. AnswerInv(f)'
        BY <2>2, <2>a, <3>5, Zenon DEF AnswerInv
      <3>7. SeenInv(f)'
        BY <3>2, <3>3, <3>5, Zenon DEF SeenInv
      <3> QED
        BY <2>a, <3>1, <3>6, <3>7, Zenon DEF FetchInv
    <2>3. CASE Forget(f)
      <3>1. pc'[f] = "idle" /\ seen'[f] = NoRecord
        BY <2>3, Zenon DEF Forget, Shape
      <3> QED
        BY <3>1, Zenon DEF AnswerInv, SeenInv, FetchInv
    <2> QED
      BY <1>5, <2>1, <2>2, <2>3, Zenon DEF Conclude
  <1>6. CASE ConcludeFallback(f)
    <2>1. pc'[f] = "idle" /\ seen'[f] = NoRecord
      BY <1>6, Zenon DEF ConcludeFallback, Forget, Shape
    <2> QED
      BY <2>1, Zenon DEF AnswerInv, SeenInv, FetchInv
  <1> QED
    BY <1>1, <1>2, <1>3, <1>4, <1>5, <1>6, Zenon DEF FetcherStep

\* The steps of a delivery keep its invariants.
LEMMA TaskStepInv ==
    ASSUME Shape, OwnInv, NEW t \in Task, TaskStep(t), AnswerInv(t), SeenInv(t), TaskInv(t)
    PROVE  AnswerInv(t)' /\ SeenInv(t)' /\ TaskInv(t)'
  <1> t \in Actor
    BY ScopeOfTask, Zenon
  <1>a. Grows
    BY TaskGrows, Zenon
  <1>b. \A o \in Receiver : Plan(o, "delivery").profile = "rfc9421" => Own(<<o, "delivery">>, "rfc9421")
    BY PlanIs, Zenon DEF Key
  <1>c. \A o, p : Own(<<o, "delivery">>, p) => Own(<<o, "delivery">>, p)'
    BY <1>a, OwnGrows, Zenon
  <1>1. CASE \E o \in Receiver : Enqueue(t, o)
    <2>1. pc[t] = "idle" /\ pc'[t] = "queued" /\ seen' = seen /\ posted' = posted
      BY <1>1, Zenon DEF Enqueue, Shape, history
    <2>2. \E o \in Receiver : origin'[t] = o /\ plan'[t] = Plan(o, "delivery")
      BY <1>1, Zenon DEF Enqueue, Shape
    <2>3. plan'[t].profile = "rfc9421" => Own(<<origin[t], "delivery">>, "rfc9421")'
      BY <1>b, <1>c, <2>2, Zenon
    <2>4. posted'[t] \subseteq {plan'[t].profile}
      BY <2>1, Zenon DEF TaskInv
    <2> QED
      BY <2>1, <2>3, <2>4, Zenon DEF AnswerInv, SeenInv, TaskInv
  <1>7. ASSUME UNCHANGED <<origin, plan>>, pc[t] # "idle", pc'[t] # "idle", posted'[t] \subseteq posted[t] \cup {plan[t].profile}
        PROVE  TaskInv(t)'
    <2>1. posted'[t] \subseteq {plan'[t].profile}
      BY <1>7, Zenon DEF TaskInv
    <2>2. plan'[t].profile = "rfc9421" => Own(<<origin[t], "delivery">>, "rfc9421")'
      BY <1>7, <1>c, Zenon DEF TaskInv
    <2> QED
      BY <1>7, <2>1, <2>2, Zenon DEF TaskInv
  <1>2. CASE Attempt(t)
    <2>1. pc[t] = "queued" /\ pc'[t] = "sent" /\ UNCHANGED <<seen, origin, plan, posted>>
      BY <1>2, Zenon DEF Attempt, Shape, history
    <2> QED
      BY <1>7, <2>1, Zenon DEF AnswerInv, SeenInv
  <1>3. CASE Reply(t)
    <2>1. pc[t] = "sent" /\ pc'[t] = "answered" /\ UNCHANGED <<seen, origin, plan>>
      BY <1>3, Zenon DEF Reply, Shape
    <2>2. posted'[t] = posted[t] \cup {plan[t].profile}
      BY <1>3, Zenon DEF Reply, Shape
    <2>3. AnswerInv(t)'
      BY <1>3, ReplyIsOwn, Zenon
    <2> QED
      BY <1>7, <2>1, <2>2, <2>3, Zenon DEF SeenInv
  <1>4. CASE FollowRedirect(t)
    <2>1. pc[t] = "sent" /\ pc'[t] = "answered" /\ UNCHANGED <<seen, origin, plan>>
      BY <1>4, Zenon DEF FollowRedirect, Shape
    <2>2. posted'[t] = posted[t] \cup {plan[t].profile}
      BY <1>4, Zenon DEF FollowRedirect, Shape
    <2>3. hops'[t] = hops[t] + 1 /\ hops[t] \in Nat
      BY <1>4, Zenon DEF FollowRedirect, Shape, Values
    <2>4. hops'[t] > 0
      BY <2>3
    <2>5. KeyOf(t)' = <<origin'[t], "delivery">>
      BY ScopeOfTask, Zenon DEF KeyOf
    <2>6. \A p : Own(KeyOf(t), p)'
      BY <2>4, <2>5, Zenon DEF Own, Redirected
    <2> QED
      BY <1>7, <2>1, <2>2, <2>6, Zenon DEF SeenInv, AnswerInv
  <1>5. CASE Observe(t)
    <2>1. pc[t] = "answered" /\ pc'[t] = "save" /\ UNCHANGED <<origin, plan, posted>>
      BY <1>5, Zenon DEF Observe, Shape
    <2> QED
      BY <1>a, <1>5, <1>7, <2>1, ObservationIsOwn, Zenon
  <1>6. CASE Settle(t)
    <2>1. /\ pc[t] = "save" /\ pc'[t] \in {"done", "queued"} /\ UNCHANGED <<origin, plan, posted>>
          /\ seen'[t] = NoRecord
      BY <1>6, Zenon DEF Settle, Shape
    <2> QED
      BY <1>7, <2>1, Zenon DEF AnswerInv, SeenInv
  <1> QED
    BY <1>1, <1>2, <1>3, <1>4, <1>5, <1>6, Zenon DEF TaskStep

\* The record of a server that is known to take RFC 9421 from the start.
Taken == [profile |-> "rfc9421", observed |-> 0, expires |-> PositiveTTL]

\* The invariant holds initially.
LEMMA Starts == Init => Inv
  <1> SUFFICES ASSUME Init PROVE Inv
    OBVIOUS
  <1>0. /\ \A k \in Key : /\ store[k] = latest[k]
                          /\ (store[k] = Taken /\ k \in shown) \/ store[k] = NoRecord
        /\ \A a \in Actor : /\ pc[a] = "idle" /\ seen[a] = NoRecord /\ hops[a] = 0
                            /\ plan[a] = [profile |-> "legacy", fallback |-> FALSE]
        /\ \A t \in Task : posted[t] = {}
    BY Zenon DEF Init, Known, Taken
  <1>8. Taken \in Evidence /\ Taken.profile = "rfc9421"
    BY NegotiationAssumption DEF NegotiationAssumption, Taken, Evidence, Profile
  <1>1. Shape
    <2>1. ASSUME NEW a \in Actor PROVE Values(a)
      BY <1>0, NoRecordIs DEF Values, Profile
    <2>2. clock \in Nat
      BY DEF Init
    <2> QED
      BY <1>0, <1>8, <2>1, <2>2, NoRecordIs, Zenon DEF Init, Known, Shape
  <1>2. ~Fresh(NoRecord)
    BY NoRecordIs DEF Init, Fresh
  <1>3. LatestInv
    <2> SUFFICES ASSUME NEW k \in Key
                 PROVE  /\ latest[k] = NoRecord => store[k] = NoRecord
                        /\ store[k].observed <= latest[k].observed
                        /\ Fresh(latest[k]) => store[k] = latest[k]
      BY Zenon DEF LatestInv
    <2>1. store[k] = latest[k]
      BY <1>0, Zenon
    <2>2. latest[k] \in Evidence
      BY <1>1, Zenon DEF Shape
    <2>3. latest[k].observed \in Nat
      BY <2>2 DEF Evidence
    <2> QED
      BY <2>1, <2>3
  <1>4. OwnInv
    BY <1>0, <1>2, <1>8, Zenon DEF OwnInv, Own
  <1>5. \A a \in Actor : AnswerInv(a) /\ SeenInv(a)
    BY <1>0, Zenon DEF AnswerInv, SeenInv
  <1>6. \A f \in Fetcher : FetchInv(f)
    BY <1>0, ScopeOfFetcher, Zenon DEF FetchInv
  <1>7. \A t \in Task : TaskInv(t)
    BY <1>0, ScopeOfTask, Zenon DEF TaskInv
  <1> QED
    BY <1>1, <1>3, <1>4, <1>5, <1>6, <1>7, Zenon DEF Inv

\* Every step keeps the invariant.
LEMMA Steps == Inv /\ [Next]_vars => Inv'
  <1> SUFFICES ASSUME Inv, [Next]_vars PROVE Inv'
    OBVIOUS
  <1>0. Shape'
    BY ShapeKept, Zenon DEF Inv
  <1>1. CASE UNCHANGED <<store, request, shown, rejected, posted, latest>> /\ (clock' = clock \/ clock' = clock + 1)
    <2>1. Grows
      BY <1>1, Zenon DEF request, Grows
    <2>2. \A a \in Actor : Same(a)
      BY <1>1, Zenon DEF request, Same
    <2>3. \A a \in Actor : AnswerInv(a)' /\ SeenInv(a)'
      BY <2>1, <2>2, SameKept, Zenon DEF Inv
    <2>4. \A f \in Fetcher : FetchInv(f)'
      BY <2>1, <2>2, SameKept, ScopeOfFetcher, Zenon DEF Inv
    <2>5. \A t \in Task : TaskInv(t)'
      BY <2>1, <2>2, SameKept, ScopeOfTask, Zenon DEF Inv
    <2>6. ASSUME NEW r \in Evidence, r.expires > clock' PROVE Fresh(r)
      BY <1>1, <2>6 DEF Fresh, Evidence, Inv, Shape
    <2>7. \A k \in Key : /\ store[k] \in Evidence /\ latest[k] \in Evidence
                         /\ store'[k] = store[k] /\ latest'[k] = latest[k]
      BY <1>1, Zenon DEF Inv, Shape
    <2>8. LatestInv'
      BY <2>6, <2>7, Zenon DEF Inv, LatestInv, Fresh
    <2>9. OwnInv'
      <3> SUFFICES ASSUME NEW k \in Key, Fresh(store[k])' PROVE Own(k, store[k].profile)'
        BY Zenon DEF OwnInv
      <3>1. Fresh(store[k])
        BY <2>6, <2>7, Zenon DEF Fresh
      <3>2. Own(k, store[k].profile)
        BY <3>1, Zenon DEF Inv, OwnInv
      <3> QED
        BY <1>1, <3>2, <2>1, Zenon DEF Grows, Own, Redirected
    <2> QED
      BY <1>0, <2>3, <2>4, <2>5, <2>8, <2>9, Zenon DEF Inv
  <1>2. ASSUME NEW f \in Fetcher, FetcherStep(f) PROVE Inv'
    <2>0. f \in Actor /\ f \notin Task /\ Shape /\ OwnInv
      BY ScopeOfFetcher, Zenon DEF Inv
    <2>1. Grows /\ Saved(f)
      BY <1>2, <2>0, FetcherGrows, FetcherSaves, Zenon
    <2>2. LatestInv' /\ OwnInv'
      BY <2>0, <2>1, LatestSaved, OwnSaved, Zenon DEF Inv
    <2>3. AnswerInv(f)' /\ SeenInv(f)' /\ FetchInv(f)'
      BY <1>2, <2>0, FetcherInv, Zenon DEF Inv
    <2>4. \A b \in Actor : b # f => Same(b)
      BY <1>2, <2>0, OthersOfFetcher, Zenon
    <2>5. \A a \in Actor : AnswerInv(a)' /\ SeenInv(a)'
      BY <2>1, <2>3, <2>4, SameKept, Zenon DEF Inv
    <2>6. \A g \in Fetcher : FetchInv(g)'
      BY <2>1, <2>3, <2>4, SameKept, ScopeOfFetcher, Zenon DEF Inv
    <2>7. \A t \in Task : TaskInv(t)'
      BY <2>0, <2>1, <2>4, SameKept, ScopeOfTask, Zenon DEF Inv
    <2> QED
      BY <1>0, <2>2, <2>5, <2>6, <2>7, Zenon DEF Inv
  <1>3. ASSUME NEW t \in Task, TaskStep(t) PROVE Inv'
    <2>0. t \in Actor /\ t \notin Fetcher /\ Shape /\ OwnInv
      BY ScopeOfTask, Zenon DEF Inv
    <2>1. Grows /\ Saved(t)
      BY <1>3, <2>0, TaskGrows, TaskSaves, Zenon DEF Inv
    <2>2. LatestInv' /\ OwnInv'
      BY <2>0, <2>1, LatestSaved, OwnSaved, Zenon DEF Inv
    <2>3. AnswerInv(t)' /\ SeenInv(t)' /\ TaskInv(t)'
      BY <1>3, <2>0, TaskStepInv, Zenon DEF Inv
    <2>4. \A b \in Actor : b # t => Same(b)
      BY <1>3, <2>0, OthersOfTask, Zenon
    <2>5. \A a \in Actor : AnswerInv(a)' /\ SeenInv(a)'
      BY <2>1, <2>3, <2>4, SameKept, Zenon DEF Inv
    <2>6. \A f \in Fetcher : FetchInv(f)'
      BY <2>0, <2>1, <2>4, SameKept, ScopeOfFetcher, Zenon DEF Inv
    <2>7. \A u \in Task : TaskInv(u)'
      BY <2>1, <2>3, <2>4, SameKept, ScopeOfTask, Zenon DEF Inv
    <2> QED
      BY <1>0, <2>2, <2>5, <2>6, <2>7, Zenon DEF Inv
  <1> QED
    BY <1>1, <1>2, <1>3, Split, Zenon

\* The invariant holds in all reachable states.
LEMMA Inductive == Spec => []Inv
  BY Starts, Steps, PTL DEF Spec

\* NewestEvidenceKept: the script of SaveDestinationCapability leaves the newest
\* valid observation in the record, in whatever order observations are saved.
THEOREM NewestObservationWins == Spec => []NewestEvidenceKept
  <1>1. Inv => NewestEvidenceKept
    BY Zenon DEF Inv, LatestInv, NewestEvidenceKept
  <1> QED
    BY <1>1, Inductive, PTL

\* EvidenceIsOwn: what ObserveResponse and the fallback of DoGET leave in a record
\* was answered by that server in that scope, with the exception of redirected
\* deliveries.
THEOREM RecordsRestOnAnswers == Spec => []EvidenceIsOwn
  <1>1. Inv => EvidenceIsOwn
    BY Zenon DEF Inv, OwnInv, Own, Redirected, EvidenceIsOwn
  <1> QED
    BY <1>1, Inductive, PTL

\* ModernDeliveryEarned: plannedDeliveryProfile settles the profile of a task for
\* all its attempts, and chooses RFC 9421 only on evidence from deliveries.
THEOREM ModernDeliveriesEarned == Spec => []ModernDeliveryEarned
  <1>1. Inv => ModernDeliveryEarned
    <2> SUFFICES ASSUME Inv, NEW t \in Task
                 PROVE  /\ Cardinality(posted[t]) <= 1
                        /\ "rfc9421" \in posted[t] =>
                              \/ <<origin[t], "delivery">> \in shown
                              \/ \E u \in Task : origin[u] = origin[t] /\ hops[u] > 0
      BY Zenon DEF ModernDeliveryEarned
    <2>0. TaskInv(t)
      BY Zenon DEF Inv
    <2>1. posted[t] = {} \/ posted[t] = {plan[t].profile}
      BY <2>0, Zenon DEF TaskInv
    <2>2. Cardinality({}) = 0 /\ Cardinality({plan[t].profile}) = 1
      BY FS_EmptySet, FS_Singleton, Zenon
    <2>3. Cardinality(posted[t]) <= 1
      BY <2>1, <2>2
    <2>4. ASSUME "rfc9421" \in posted[t]
          PROVE  \/ <<origin[t], "delivery">> \in shown
                 \/ \E u \in Task : origin[u] = origin[t] /\ hops[u] > 0
      <3>1. pc[t] # "idle" /\ plan[t].profile = "rfc9421"
        BY <2>0, <2>4, Zenon DEF TaskInv
      <3>2. Own(<<origin[t], "delivery">>, "rfc9421")
        BY <2>0, <3>1, Zenon DEF TaskInv
      <3> QED
        BY <3>2, Zenon DEF Own, Redirected
    <2> QED
      BY <2>3, <2>4, Zenon
  <1> QED
    BY <1>1, Inductive, PTL

-----------------------------------------------------------------------------
(* How many fetches a server loses after it turned to rejecting RFC 9421   *)

\* Twice the failures that l late successes, saved one after the other, can still
\* bring about among n fetches.
Renewals(n, l) == l * (2 * n - l + 1)

\* A square is no less than its root.
LEMMA Squares ==
    ASSUME NEW d \in Nat
    PROVE  d * d >= d
  <1>1. CASE d = 0
    BY <1>1
  <1>2. CASE d >= 1
    <2>1. d * d - d = d * (d - 1)
      OBVIOUS
    <2>2. d * (d - 1) >= 0
      BY <1>2
    <2> QED
      BY <2>1, <2>2
  <1> QED
    BY <1>1, <1>2

\* When the server changes, l fetches have a late success and u others can fail.
LEMMA AtTheChange ==
    ASSUME NEW n \in Nat, NEW l \in Nat, NEW u \in Nat, u + l <= n
    PROVE  2 * u + Renewals(n, l) <= n * (n + 1)
  <1> DEFINE d == n - l
  <1>1. d \in Nat /\ n = l + d /\ u <= d
    OBVIOUS
  <1>2. n * (n + 1) - l * (2 * n - l + 1) = d * d + d
    OBVIOUS
  <1>3. d * d >= d
    BY <1>1, Squares
  <1>4. d * d \in Nat /\ n * (n + 1) \in Nat /\ Renewals(n, l) \in Int
    BY <1>1 DEF Renewals
  <1> QED
    BY <1>1, <1>2, <1>3, <1>4 DEF Renewals

\* Saving a late success pays for a failure of every fetch that has none.
LEMMA OneLateLess ==
    ASSUME NEW n \in Nat, NEW l \in Nat, l > 0, NEW u \in Nat, u + (l - 1) <= n
    PROVE  2 * u + Renewals(n, l - 1) <= Renewals(n, l)
  <1>1. l * (2 * n - l + 1) - (l - 1) * (2 * n - (l - 1) + 1) = 2 * (n - l + 1)
    OBVIOUS
  <1> QED
    BY <1>1 DEF Renewals

\* The answer of a fetch says that the server takes RFC 9421.
Tells(f) == answer[f] = "advert" \/ (answer[f] = "ok" /\ plan[f].profile = "rfc9421")

\* A fetch has a success of the server that is not saved yet.
LateAt(f, o) ==
    /\ origin[f] = o
    /\ \/ pc[f] = "answered" /\ Tells(f)
       \/ pc[f] \in {"save", "saveFallback"} /\ seen[f].profile = "rfc9421"

\* A fetch is about to save a rejection that is newer than the record.
WarnedAt(f, o) ==
    /\ origin[f] = o /\ pc[f] = "save" /\ seen[f].profile = "legacy"
    /\ seen[f].observed > store[<<o, "fetch">>].observed

\* A fetch is under way because of a record, and can still count as misled.
ArmedAt(f, o) ==
    /\ origin[f] = o /\ plan[f] = [profile |-> "rfc9421", fallback |-> FALSE]
    /\ pc[f] = "sent" \/ (pc[f] = "answered" /\ answer[f] = "challenge")

\* The record of the server is a success.
Trusted(o) == store[<<o, "fetch">>].profile = "rfc9421"

\* A fetch can fail before a late success is saved: any that is not itself late
\* or warned while the record is a success, else those that are under way.
RiskAt(f, o) == IF Trusted(o) THEN ~LateAt(f, o) /\ ~WarnedAt(f, o) ELSE ArmedAt(f, o)

Late(o)   == {f \in Fetcher : LateAt(f, o)}
AtRisk(o) == {f \in Fetcher : RiskAt(f, o)}

\* The failures so far and those that can still come.
Budget(o) ==
    2 * failed[o] + 2 * Cardinality(AtRisk(o)) + Renewals(Cardinality(Fetcher), Cardinality(Late(o)))
        <= Cardinality(Fetcher) * (Cardinality(Fetcher) + 1) + 2 * unsaved

\* The time of an observation is past, and a success is valid for some time.
Timely(r) == r.observed <= clock /\ (r.profile = "rfc9421" => r.expires > r.observed)

\* What the budget needs of the other variables.
CountInv ==
    /\ DOMAIN mode = Key /\ DOMAIN failed = Origin
    /\ unsaved \in Nat /\ \A o \in Origin : failed[o] \in Nat
    /\ \A k \in Key : Timely(store[k])
    /\ \A a \in Actor : Timely(seen[a])

BudgetInv == \A o \in Origin : mode[<<o, "fetch">>] = "challenging" => Budget(o)

\* Disjoint sets of fetches are finite and together no more than all of them.
LEMMA FetchersCounted ==
    ASSUME NEW L, NEW U, L \subseteq Fetcher, U \subseteq Fetcher, U \cap L = {}
    PROVE  /\ Cardinality(Fetcher) \in Nat /\ Cardinality(L) \in Nat /\ Cardinality(U) \in Nat
           /\ IsFiniteSet(L) /\ IsFiniteSet(U)
           /\ Cardinality(U) + Cardinality(L) <= Cardinality(Fetcher)
  <1>1. IsFiniteSet(Fetcher)
    BY NegotiationAssumption, Zenon DEF NegotiationAssumption
  <1>2. IsFiniteSet(L) /\ IsFiniteSet(U)
    BY <1>1, FS_Subset, Zenon
  <1>3. /\ Cardinality(Fetcher) \in Nat /\ Cardinality(L) \in Nat /\ Cardinality(U) \in Nat
    BY <1>1, <1>2, FS_CardinalityType, Zenon
  <1>4. Cardinality(U \cup L) = Cardinality(U) + Cardinality(L)
    <2>1. Cardinality(U \cap L) = 0
      BY FS_EmptySet
    <2>2. Cardinality(U \cup L) = Cardinality(U) + Cardinality(L) - Cardinality(U \cap L)
      BY <1>2, FS_Union, Zenon
    <2> QED
      BY <1>3, <2>1, <2>2
  <1>5. Cardinality(U \cup L) <= Cardinality(Fetcher)
    <2>1. U \cup L \subseteq Fetcher
      OBVIOUS
    <2> QED
      BY <1>1, <2>1, FS_Subset, Zenon
  <1> QED
    BY <1>2, <1>3, <1>4, <1>5

\* No fetch is both late and at risk.
NoneIsBoth(o) ==
    /\ Late(o) \subseteq Fetcher /\ AtRisk(o) \subseteq Fetcher
    /\ AtRisk(o) \cap Late(o) = {}

\* So it is before and after a step.
LEMMA LateOrAtRisk ==
    ASSUME NEW o
    PROVE  NoneIsBoth(o) /\ NoneIsBoth(o)'
  <1>1. ASSUME NEW f, RiskAt(f, o), LateAt(f, o) PROVE FALSE
    <2>1. ArmedAt(f, o)
      BY <1>1, Zenon DEF RiskAt
    <2> QED
      BY <1>1, <2>1 DEF ArmedAt, LateAt, Tells
  <1>2. ASSUME NEW f, RiskAt(f, o)', LateAt(f, o)' PROVE FALSE
    <2>1. ArmedAt(f, o)'
      BY <1>2, Zenon DEF RiskAt
    <2> QED
      BY <1>2, <2>1 DEF ArmedAt, LateAt, Tells
  <1>3. NoneIsBoth(o)
    BY <1>1, Zenon DEF NoneIsBoth, Late, AtRisk
  <1>4. NoneIsBoth(o)'
    BY <1>2, Zenon DEF NoneIsBoth, Late, AtRisk
  <1> QED
    BY <1>3, <1>4, Zenon

\* What a step does to the fetches that count for a server: it adds none, it
\* loses one, it ends the lateness of one, or it drops a rejection unsaved.
Kept(o) ==
    /\ Late(o)' = Late(o) /\ AtRisk(o)' \subseteq AtRisk(o)
    /\ failed'[o] = failed[o] /\ unsaved' \in {unsaved, unsaved + 1}
Lost(o) ==
    \E f \in AtRisk(o) : /\ Late(o)' = Late(o) /\ AtRisk(o)' \subseteq AtRisk(o) \ {f}
                         /\ failed'[o] = failed[o] + 1 /\ unsaved' = unsaved
Renewed(o) ==
    \E f \in Late(o) : /\ Late(o)' = Late(o) \ {f}
                       /\ failed'[o] = failed[o] /\ unsaved' \in {unsaved, unsaved + 1}
Dropped(o) ==
    \E f \in Fetcher : /\ Late(o)' = Late(o) /\ AtRisk(o)' \subseteq AtRisk(o) \cup {f}
                       /\ failed'[o] = failed[o] /\ unsaved' = unsaved + 1

\* Each of these stays within the budget.
LEMMA BudgetKept ==
    ASSUME CountInv, NEW o \in Origin, Budget(o), Kept(o) \/ Lost(o) \/ Renewed(o) \/ Dropped(o)
    PROVE  Budget(o)'
  <1> DEFINE n == Cardinality(Fetcher)
             l == Cardinality(Late(o))
             u == Cardinality(AtRisk(o))
             m == Cardinality(Late(o)')
             v == Cardinality(AtRisk(o)')
  <1>1. /\ n \in Nat /\ l \in Nat /\ u \in Nat /\ u + l <= n
        /\ IsFiniteSet(Late(o)) /\ IsFiniteSet(AtRisk(o))
    BY LateOrAtRisk, FetchersCounted, Zenon DEF NoneIsBoth
  <1>2. m \in Nat /\ v \in Nat /\ v + m <= n
    BY LateOrAtRisk, FetchersCounted, Zenon DEF NoneIsBoth
  <1>3. failed[o] \in Nat /\ unsaved \in Nat
    BY Zenon DEF CountInv
  <1>4. 2 * failed[o] + 2 * u + Renewals(n, l) <= n * (n + 1) + 2 * unsaved
    BY Zenon DEF Budget
  <1>5. Renewals(n, l) \in Int /\ Renewals(n, m) \in Int /\ n * (n + 1) \in Int
    BY <1>1, <1>2 DEF Renewals
  <1>6. SUFFICES 2 * failed'[o] + 2 * v + Renewals(n, m) <= n * (n + 1) + 2 * unsaved'
    BY Zenon DEF Budget
  <1>7. CASE Kept(o)
    <2>1. m = l /\ v <= u
      BY <1>1, <1>7, FS_Subset, Zenon DEF Kept
    <2>2. failed'[o] = failed[o] /\ unsaved' \in {unsaved, unsaved + 1}
      BY <1>7, Zenon DEF Kept
    <2> HIDE DEF n, l, u, m, v
    <2> QED
      BY <1>1, <1>2, <1>3, <1>4, <1>5, <2>1, <2>2
  <1>8. CASE Lost(o)
    <2>1. PICK f \in AtRisk(o) : /\ Late(o)' = Late(o) /\ AtRisk(o)' \subseteq AtRisk(o) \ {f}
                                 /\ failed'[o] = failed[o] + 1 /\ unsaved' = unsaved
      BY <1>8, Zenon DEF Lost
    <2>2. IsFiniteSet(AtRisk(o) \ {f}) /\ Cardinality(AtRisk(o) \ {f}) = u - 1
      BY <1>1, FS_RemoveElement, Zenon
    <2>3. m = l /\ v <= Cardinality(AtRisk(o) \ {f})
      BY <2>1, <2>2, FS_Subset, Zenon
    <2> HIDE DEF n, l, u, m, v
    <2> QED
      BY <1>1, <1>2, <1>3, <1>4, <1>5, <2>1, <2>2, <2>3
  <1>9. CASE Renewed(o)
    <2>1. PICK f \in Late(o) : /\ Late(o)' = Late(o) \ {f}
                               /\ failed'[o] = failed[o] /\ unsaved' \in {unsaved, unsaved + 1}
      BY <1>9, Zenon DEF Renewed
    <2>2. m = l - 1
      BY <1>1, <2>1, FS_RemoveElement, Zenon
    <2> HIDE DEF n, l, u, m, v
    <2>3. l > 0 /\ v + (l - 1) <= n
      BY <1>1, <1>2, <2>2
    <2>4. 2 * v + Renewals(n, l - 1) <= Renewals(n, l)
      BY <1>1, <1>2, <2>3, OneLateLess, Zenon
    <2> QED
      BY <1>1, <1>2, <1>3, <1>4, <1>5, <2>1, <2>2, <2>4
  <1>10. CASE Dropped(o)
    <2>1. PICK f \in Fetcher : /\ Late(o)' = Late(o) /\ AtRisk(o)' \subseteq AtRisk(o) \cup {f}
                               /\ failed'[o] = failed[o] /\ unsaved' = unsaved + 1
      BY <1>10, Zenon DEF Dropped
    <2>2. IsFiniteSet(AtRisk(o) \cup {f}) /\ Cardinality(AtRisk(o) \cup {f}) \in {u, u + 1}
      BY <1>1, FS_AddElement, Zenon
    <2>3. m = l /\ v <= Cardinality(AtRisk(o) \cup {f})
      BY <2>1, <2>2, FS_Subset, Zenon
    <2> HIDE DEF n, l, u, m, v
    <2> QED
      BY <1>1, <1>2, <1>3, <1>4, <1>5, <2>1, <2>2, <2>3
  <1> QED
    BY <1>7, <1>8, <1>9, <1>10, Zenon

\* A success is read from an answer if and only if the answer tells of one, and a
\* challenge to RFC 9421 is read as a rejection.
LEMMA SuccessSeen ==
    ASSUME clock \in Nat, NEW p, NEW reply
    PROVE  /\ ObserveResponse(p, reply).profile = "rfc9421" <=> reply = "advert" \/ (reply = "ok" /\ p = "rfc9421")
           /\ reply = "challenge" /\ p = "rfc9421" => ObserveResponse(p, reply) = Observed("legacy")
           /\ ObserveResponse(p, reply) \in {NoRecord, Observed("rfc9421"), Observed("legacy")}
  <1>0. Observed("rfc9421").profile = "rfc9421" /\ Observed("legacy").profile = "legacy" /\ NoRecord.profile = "legacy"
    BY DEF Observed, NoRecord
  <1>1. CASE reply = "advert" \/ (reply = "ok" /\ p = "rfc9421")
    <2>1. ObserveResponse(p, reply) = Observed("rfc9421") /\ reply # "challenge"
      BY <1>1, Zenon DEF ObserveResponse
    <2> QED
      BY <1>0, <1>1, <2>1, Zenon
  <1>2. CASE reply = "challenge" /\ p = "rfc9421"
    <2>1. ObserveResponse(p, reply) = Observed("legacy")
      BY <1>2, Zenon DEF ObserveResponse
    <2> QED
      BY <1>0, <1>2, <2>1, Zenon
  <1>3. CASE ~(reply = "advert" \/ (reply = "ok" /\ p = "rfc9421")) /\ ~(reply = "challenge" /\ p = "rfc9421")
    <2>1. ObserveResponse(p, reply) = NoRecord
      BY <1>3, Zenon DEF ObserveResponse
    <2> QED
      BY <1>0, <1>3, <2>1, Zenon
  <1> QED
    BY <1>1, <1>2, <1>3, Zenon

\* What is observed now is timely.
LEMMA ObservedTimely ==
    ASSUME clock \in Nat
    PROVE  Timely(NoRecord) /\ Timely(Observed("rfc9421")) /\ Timely(Observed("legacy"))
  <1>1. PositiveTTL \in Nat /\ PositiveTTL > 0 /\ NegativeTTL \in Nat
    BY NegotiationAssumption DEF NegotiationAssumption
  <1> QED
    BY <1>1 DEF Timely, NoRecord, Observed

\* What an actor has seen after its step.
LEMMA SeenAfter ==
    ASSUME Shape, NEW a \in Actor, (a \in Fetcher /\ FetcherStep(a)) \/ (a \in Task /\ TaskStep(a))
    PROVE  seen'[a] \in {seen[a], NoRecord, Observed("rfc9421"), Observed("legacy")}
  <1>0. clock \in Nat /\ DOMAIN seen = Actor
    BY Zenon DEF Shape
  <1>1. CASE Observe(a)
    <2>1. seen'[a] = ObserveResponse(plan[a].profile, answer[a])
      BY <1>0, <1>1, Zenon DEF Observe
    <2>2. ObserveResponse(plan[a].profile, answer[a]) \in {NoRecord, Observed("rfc9421"), Observed("legacy")}
      BY <1>0, SuccessSeen
    <2> QED
      BY <2>1, <2>2, Zenon
  <1>2. CASE ~Observe(a)
    BY <1>0, <1>2, ZenonT(30) DEF FetcherStep, TaskStep, Fetch, Reply, Redirect, Conclude, ConcludeFallback, Forget,
        Enqueue, Attempt, FollowRedirect, Settle
  <1> QED
    BY <1>1, <1>2, Zenon

\* A step of an actor does not change the servers.  It counts a failure only when a
\* fetch looks at its answer, and a rejection as unsaved only when it saves.
Counts(a) ==
    /\ mode' = mode /\ clock' = clock
    /\ unsaved' \in {unsaved, unsaved + 1}
    /\ Observe(a) \/ failed' = failed

\* So it is for every step of a fetch (DoGET) ...
LEMMA FetcherCounts ==
    ASSUME NEW f \in Fetcher, FetcherStep(f)
    PROVE  Counts(f)
  <1>1. CASE \E o \in Origin : Fetch(f, o)
    BY <1>1, Zenon DEF Fetch, history, Counts
  <1>2. CASE Reply(f)
    BY <1>2, Zenon DEF Reply, Counts
  <1>3. CASE Redirect(f)
    BY <1>3, Zenon DEF Redirect, history, Counts
  <1>4. CASE Observe(f)
    BY <1>4, Zenon DEF Observe, Counts
  <1>5. CASE Conclude(f)
    BY <1>5, Zenon DEF Conclude, SaveSeen, Unsaved, Counts
  <1>6. CASE ConcludeFallback(f)
    BY <1>6, Zenon DEF ConcludeFallback, SaveSeen, Unsaved, Counts
  <1> QED
    BY <1>1, <1>2, <1>3, <1>4, <1>5, <1>6, Zenon DEF FetcherStep

\* ... and of a delivery (relayActivityV2), which never counts a failure.
LEMMA TaskCounts ==
    ASSUME NEW t \in Task, TaskStep(t)
    PROVE  Counts(t) /\ failed' = failed
  <1>0. t \notin Fetcher
    BY ScopeOfTask, Zenon
  <1>1. CASE \E o \in Receiver : Enqueue(t, o)
    BY <1>1, Zenon DEF Enqueue, history, Counts
  <1>2. CASE Attempt(t)
    BY <1>2, Zenon DEF Attempt, history, Counts
  <1>3. CASE Reply(t)
    BY <1>3, Zenon DEF Reply, Counts
  <1>4. CASE FollowRedirect(t)
    BY <1>4, Zenon DEF FollowRedirect, Counts
  <1>5. CASE Observe(t)
    BY <1>0, <1>5, Zenon DEF Observe, Counts
  <1>6. CASE Settle(t)
    BY <1>6, Zenon DEF Settle, SaveSeen, Unsaved, Counts
  <1> QED
    BY <1>1, <1>2, <1>3, <1>4, <1>5, <1>6, Zenon DEF TaskStep

\* What is on record after a step of an actor was there before, or was seen by it.
LEMMA StoreAfter ==
    ASSUME Shape, NEW a \in Actor, Saved(a), NEW k \in Key
    PROVE  store'[k] \in {store[k], seen[a]} /\ (k # KeyOf(a) => store'[k] = store[k])
  BY KeyIs, Zenon DEF Saved, Save, Shape

\* A step of an actor keeps what the budget needs.
LEMMA ActorCountInv ==
    ASSUME Shape, CountInv, NEW a \in Actor, Saved(a), Counts(a), \A b \in Actor : b # a => Same(b),
           seen'[a] \in {seen[a], NoRecord, Observed("rfc9421"), Observed("legacy")},
           a \in Fetcher \/ failed' = failed
    PROVE  CountInv'
  <1>0. clock \in Nat /\ clock' = clock /\ mode' = mode
    BY Zenon DEF Shape, Counts
  <1>1. \A r : Timely(r)' <=> Timely(r)
    BY <1>0, Zenon DEF Timely
  <1>2. \A k \in Key : Timely(store[k])'
    BY <1>0, StoreAfter, ZenonT(60) DEF CountInv, Timely
  <1>3. \A b \in Actor : Timely(seen[b])'
    <2> SUFFICES ASSUME NEW b \in Actor PROVE Timely(seen'[b])
      BY <1>0, Zenon DEF Timely
    <2>1. CASE b = a
      BY <1>0, <2>1, ObservedTimely, Zenon DEF CountInv
    <2>2. CASE b # a
      BY <2>2, Zenon DEF CountInv, Same
    <2> QED
      BY <2>1, <2>2, Zenon
  <1>4. unsaved' \in Nat
    <2>1. unsaved \in Nat /\ unsaved' \in {unsaved, unsaved + 1}
      BY Zenon DEF CountInv, Counts
    <2> QED
      BY <2>1
  <1>5. DOMAIN failed' = Origin /\ \A o \in Origin : failed'[o] \in Nat
    <2>1. CASE failed' = failed
      BY <2>1, Zenon DEF CountInv
    <2>2. CASE failed' = [failed EXCEPT ![origin[a]] = @ + 1]
      <3>1. DOMAIN failed = Origin /\ \A o \in Origin : failed[o] \in Nat
        BY Zenon DEF CountInv
      <3> QED
        BY <2>2, <3>1
    <2> QED
      BY <2>1, <2>2, Zenon DEF Counts, Observe
  <1> QED
    BY <1>0, <1>2, <1>3, <1>4, <1>5, Zenon DEF CountInv

\* A step that is none of a fetch or a delivery: time, a change of a server, or
\* nothing.
Outside ==
    /\ UNCHANGED <<store, request, shown, rejected, posted, latest, unsaved>>
    /\ \/ clock' = clock + 1 /\ UNCHANGED <<mode, failed>>
       \/ clock' = clock /\ UNCHANGED <<mode, failed>>
       \/ clock' = clock /\ \E key \in Key : Change(key)

\* Every step is one of these, of a fetch or of a delivery.
LEMMA OutsideSplit ==
    ASSUME [Next]_vars
    PROVE  \/ Outside
           \/ \E f \in Fetcher : FetcherStep(f)
           \/ \E t \in Task : TaskStep(t)
  <1>1. CASE Tick
    BY <1>1, Zenon DEF Tick, history, Outside
  <1>2. CASE \E key \in Key : Change(key)
    BY <1>2, Zenon DEF Change, Outside
  <1>3. CASE UNCHANGED vars
    BY <1>3, Zenon DEF vars, history, Outside
  <1> QED
    BY <1>1, <1>2, <1>3, NegotiationAssumption, Zenon DEF NegotiationAssumption, Next, FetcherStep, TaskStep

\* Such a step keeps what the budget needs.
LEMMA OutsideCountInv ==
    ASSUME Shape, CountInv, Outside
    PROVE  CountInv'
  <1>0. /\ clock \in Nat /\ clock' \in {clock, clock + 1} /\ store' = store /\ seen' = seen /\ unsaved' = unsaved
        /\ \A k \in Key : store[k] \in Evidence
        /\ \A a \in Actor : seen[a] \in Evidence
    BY Zenon DEF Shape, Values, Outside, request
  <1>1. ASSUME NEW r \in Evidence, Timely(r) PROVE Timely(r)'
    BY <1>0, <1>1 DEF Timely, Evidence
  <1>2. (\A k \in Key : Timely(store[k])') /\ (\A a \in Actor : Timely(seen[a])')
    BY <1>0, <1>1, Zenon DEF CountInv, Timely
  <1>3. DOMAIN mode' = Key /\ DOMAIN failed' = Origin /\ \A o \in Origin : failed'[o] \in Nat
    <2>0. DOMAIN mode = Key /\ DOMAIN failed = Origin /\ \A o \in Origin : failed[o] \in Nat
      BY Zenon DEF CountInv
    <2>1. CASE UNCHANGED <<mode, failed>>
      BY <2>0, <2>1, Zenon
    <2>2. CASE \E key \in Key : Change(key)
      <3>1. PICK key \in Key : Change(key)
        BY <2>2, Zenon
      <3>2. DOMAIN mode' = DOMAIN mode
        BY <3>1, Zenon DEF Change
      <3>3. failed' = failed \/ failed' = [failed EXCEPT ![key[1]] = 0]
        BY <3>1, Zenon DEF Change
      <3> QED
        BY <2>0, <3>2, <3>3
    <2> QED
      BY <2>1, <2>2, Zenon DEF Outside
  <1> QED
    BY <1>0, <1>2, <1>3, Zenon DEF CountInv

\* For a server that is not changed a step outside adds nothing; one that changes
\* starts with nothing failed.
LEMMA OutsideBudget ==
    ASSUME CountInv, BudgetInv, Outside
    PROVE  BudgetInv'
  <1> SUFFICES ASSUME NEW o \in Origin, mode'[<<o, "fetch">>] = "challenging" PROVE Budget(o)'
    BY Zenon DEF BudgetInv
  <1>0. Late(o)' = Late(o) /\ AtRisk(o)' = AtRisk(o) /\ unsaved' = unsaved
    BY ZenonT(60) DEF Outside, request, Late, AtRisk, LateAt, RiskAt, Tells, WarnedAt, ArmedAt, Trusted
  <1>1. CASE mode'[<<o, "fetch">>] = mode[<<o, "fetch">>] /\ failed'[o] = failed[o]
    BY <1>0, <1>1, Zenon DEF BudgetInv, Budget
  <1>2. CASE failed'[o] = 0
    <2> DEFINE n == Cardinality(Fetcher)
               l == Cardinality(Late(o))
               u == Cardinality(AtRisk(o))
    <2>1. n \in Nat /\ l \in Nat /\ u \in Nat /\ u + l <= n
      BY LateOrAtRisk, FetchersCounted, Zenon DEF NoneIsBoth
    <2>2. 2 * u + Renewals(n, l) <= n * (n + 1)
      BY <2>1, AtTheChange, Zenon
    <2>3. unsaved \in Nat /\ Renewals(n, l) \in Int /\ n * (n + 1) \in Int
      BY <2>1 DEF CountInv, Renewals
    <2>4. 2 * 0 + 2 * u + Renewals(n, l) <= n * (n + 1) + 2 * unsaved
      <3> HIDE DEF n, l, u
      <3> QED
        BY <2>1, <2>2, <2>3
    <2> QED
      BY <1>0, <1>2, <2>4, Zenon DEF Budget
  <1> QED
    <2>1. CASE UNCHANGED <<mode, failed>>
      BY <1>1, <2>1, Zenon
    <2>2. CASE \E key \in Key : Change(key)
      <3>1. PICK key \in Key : Change(key)
        BY <2>2, Zenon
      <3>2. CASE key = <<o, "fetch">>
        <4>1. key[1] = o /\ key[2] = "fetch"
          BY <3>2
        <4>2. failed'[o] = 0
          BY <3>1, <4>1, Zenon DEF Change, CountInv
        <4> QED
          BY <1>2, <4>2, Zenon
      <3>3. CASE key # <<o, "fetch">>
        <4>1. mode'[<<o, "fetch">>] = mode[<<o, "fetch">>]
          BY <3>1, <3>3 DEF Change, CountInv, Key
        <4>2. failed'[o] = failed[o] \/ failed'[o] = 0
          BY <3>1, Zenon DEF Change, CountInv
        <4> QED
          BY <1>1, <1>2, <4>1, <4>2, ZenonT(60)
      <3> QED
        BY <3>2, <3>3, Zenon
    <2> QED
      BY <2>1, <2>2, Zenon DEF Outside

\* A fetch that is under way because of a record is at risk.
LEMMA ArmedIsAtRisk ==
    ASSUME NEW f, NEW o, ArmedAt(f, o)
    PROVE  RiskAt(f, o) /\ ~LateAt(f, o)
  <1>1. ~LateAt(f, o) /\ ~WarnedAt(f, o)
    BY DEF ArmedAt, LateAt, WarnedAt, Tells
  <1> QED
    BY <1>1, Zenon DEF RiskAt

\* The fetches but one: who is late stays so, and nobody else comes to be at risk.
OthersLate(f, o) == \A g \in Fetcher : g # f => (LateAt(g, o)' <=> LateAt(g, o))
OthersRisk(f, o) == \A g \in Fetcher : g # f => (RiskAt(g, o)' => RiskAt(g, o))

\* What one fetch does leaves the others as late as they were.
LEMMA OthersStayLate ==
    ASSUME NEW f, NEW o, \A b \in Actor : b # f => Same(b)
    PROVE  OthersLate(f, o)
  BY Zenon DEF OthersLate, Actor, Same, LateAt, Tells

\* It puts no other at risk unless it makes the record a success.
LEMMA OthersStayAtRisk ==
    ASSUME NEW f, NEW o, \A b \in Actor : b # f => Same(b),
           store'[<<o, "fetch">>] = store[<<o, "fetch">>] \/ ~Trusted(o)'
    PROVE  OthersRisk(f, o)
  <1> SUFFICES ASSUME NEW g \in Fetcher, g # f, RiskAt(g, o)' PROVE RiskAt(g, o)
    BY Zenon DEF OthersRisk
  <1>0. Same(g)
    BY Zenon DEF Actor
  <1>1. CASE store'[<<o, "fetch">>] = store[<<o, "fetch">>]
    BY <1>0, <1>1, ZenonT(30) DEF Same, RiskAt, Trusted, LateAt, WarnedAt, ArmedAt, Tells
  <1>2. CASE ~Trusted(o)'
    <2>1. ArmedAt(g, o)'
      BY <1>2, Zenon DEF RiskAt
    <2>2. ArmedAt(g, o)
      BY <1>0, <2>1, Zenon DEF Same, ArmedAt
    <2> QED
      BY <2>2, ArmedIsAtRisk, Zenon
  <1> QED
    BY <1>1, <1>2, Zenon

\* What a step of one fetch does, by what it does to that fetch.
LEMMA KeptBy ==
    ASSUME NEW f \in Fetcher, NEW o, OthersLate(f, o), OthersRisk(f, o),
           LateAt(f, o)' <=> LateAt(f, o), RiskAt(f, o)' => RiskAt(f, o),
           failed'[o] = failed[o], unsaved' \in {unsaved, unsaved + 1}
    PROVE  Kept(o)
  BY Zenon DEF OthersLate, OthersRisk, Kept, Late, AtRisk

\* A fetch that fails was at risk and is so no more.
LEMMA LostBy ==
    ASSUME NEW f \in Fetcher, NEW o, OthersLate(f, o), OthersRisk(f, o),
           LateAt(f, o)' <=> LateAt(f, o), RiskAt(f, o), ~RiskAt(f, o)',
           failed'[o] = failed[o] + 1, unsaved' = unsaved
    PROVE  Lost(o)
  <1>1. f \in AtRisk(o)
    BY Zenon DEF AtRisk
  <1>2. Late(o)' = Late(o)
    BY Zenon DEF OthersLate, Late
  <1>3. AtRisk(o)' \subseteq AtRisk(o) \ {f}
    BY Zenon DEF OthersRisk, AtRisk
  <1> QED
    BY <1>1, <1>2, <1>3, Zenon DEF Lost

\* A fetch that saves its late success is late no more.
LEMMA RenewedBy ==
    ASSUME NEW f \in Fetcher, NEW o, OthersLate(f, o), LateAt(f, o), ~LateAt(f, o)',
           failed'[o] = failed[o], unsaved' \in {unsaved, unsaved + 1}
    PROVE  Renewed(o)
  <1>1. f \in Late(o)
    BY Zenon DEF Late
  <1>2. Late(o)' = Late(o) \ {f}
    BY Zenon DEF OthersLate, Late
  <1> QED
    BY <1>1, <1>2, Zenon DEF Renewed

\* A save that fails puts at most the fetch itself at risk.
LEMMA DroppedBy ==
    ASSUME NEW f \in Fetcher, NEW o, OthersLate(f, o), OthersRisk(f, o),
           LateAt(f, o)' <=> LateAt(f, o), failed'[o] = failed[o], unsaved' = unsaved + 1
    PROVE  Dropped(o)
  <1>2. Late(o)' = Late(o)
    BY Zenon DEF OthersLate, Late
  <1>3. AtRisk(o)' \subseteq AtRisk(o) \cup {f}
    BY Zenon DEF OthersRisk, AtRisk
  <1> QED
    BY <1>2, <1>3, Zenon DEF Dropped

\* A record that is no success never leads to a plan that can mislead.
LEMMA PlanOfRejection ==
    ASSUME NEW o, ~Trusted(o)
    PROVE  Plan(o, "fetch") # [profile |-> "rfc9421", fallback |-> FALSE]
  <1>1. CASE Fresh(store[<<o, "fetch">>])
    <2>1. Plan(o, "fetch") = [profile |-> store[<<o, "fetch">>].profile, fallback |-> FALSE]
      BY <1>1, Zenon DEF Plan, capabilityKey
    <2> QED
      BY <2>1 DEF Trusted
  <1>2. CASE ~Fresh(store[<<o, "fetch">>])
    <2>1. Plan(o, "fetch") = [profile |-> "rfc9421", fallback |-> TRUE]
      BY <1>2, Zenon DEF Plan, capabilityKey
    <2> QED
      BY <2>1
  <1> QED
    BY <1>1, <1>2, Zenon

\* Planning a request puts nobody at risk whom the record does not.
LEMMA PlanKept ==
    ASSUME Shape, NEW f \in Fetcher, NEW o \in Origin, \A b \in Actor : b # f => Same(b),
           pc[f] \in {"idle", "sent"}, pc'[f] = "sent", store' = store,
           \E p \in Origin : origin'[f] = p /\ plan'[f] = Plan(p, "fetch"),
           failed' = failed, unsaved' = unsaved
    PROVE  Kept(o)
  <1>1. OthersLate(f, o) /\ OthersRisk(f, o)
    BY OthersStayLate, OthersStayAtRisk, Zenon
  <1>2. ~LateAt(f, o) /\ ~LateAt(f, o)' /\ ~WarnedAt(f, o)
    BY DEF LateAt, WarnedAt
  <1>3. RiskAt(f, o)' => RiskAt(f, o)
    <2>1. CASE Trusted(o)
      BY <1>2, <2>1, Zenon DEF RiskAt
    <2>2. CASE ~Trusted(o)
      <3>1. ~ArmedAt(f, o)'
        BY <2>2, PlanOfRejection, Zenon DEF ArmedAt
      <3>2. ~Trusted(o)'
        BY <2>2, Zenon DEF Trusted
      <3> QED
        BY <3>1, <3>2, Zenon DEF RiskAt
    <2> QED
      BY <2>1, <2>2, Zenon
  <1> QED
    BY <1>1, <1>2, <1>3, KeptBy, Zenon

\* A server that challenges RFC 9421 gives no answer that tells of a success.
LEMMA NoNewSuccess ==
    ASSUME NEW profile, NEW reply \in Answers("challenging", profile)
    PROVE  ~(reply = "advert" \/ (reply = "ok" /\ profile = "rfc9421"))
  <1>1. Answers("challenging", profile) = {"other"} \cup (IF profile = "rfc9421" THEN {"challenge"} ELSE {"ok"})
    BY Zenon DEF Answers
  <1> QED
    BY <1>1

\* An answer makes nobody late while the server challenges RFC 9421.
LEMMA ReplyKept ==
    ASSUME Shape, NEW f \in Fetcher, NEW o \in Origin, \A b \in Actor : b # f => Same(b),
           mode[<<o, "fetch">>] = "challenging", Reply(f)
    PROVE  Kept(o)
  <1>0. f \in Actor /\ ScopeOf(f) = "fetch"
    BY ScopeOfFetcher, Zenon
  <1>1. /\ pc[f] = "sent" /\ pc'[f] = "answered"
        /\ UNCHANGED <<store, origin, plan, failed, unsaved>>
    BY <1>0, Zenon DEF Reply, Shape
  <1>2. OthersLate(f, o) /\ OthersRisk(f, o)
    BY <1>1, OthersStayLate, OthersStayAtRisk, Zenon
  <1>3. ~LateAt(f, o) /\ ~WarnedAt(f, o)
    BY <1>1 DEF LateAt, WarnedAt
  <1>4. ~LateAt(f, o)'
    <2> SUFFICES ASSUME origin[f] = o PROVE ~Tells(f)'
      BY <1>1 DEF LateAt
    <2>1. PICK reply \in Answers("challenging", plan[f].profile) : answer' = [answer EXCEPT ![f] = reply]
      BY <1>0, Zenon DEF Reply
    <2>2. answer'[f] = reply
      BY <1>0, <2>1, Zenon DEF Shape
    <2> QED
      BY <1>1, <2>2, NoNewSuccess, Zenon DEF Tells
  <1>5. RiskAt(f, o)' => RiskAt(f, o)
    <2>1. CASE Trusted(o)
      BY <1>3, <2>1, Zenon DEF RiskAt
    <2>2. CASE ~Trusted(o)
      BY <1>1, <2>2, Zenon DEF RiskAt, Trusted, ArmedAt
    <2> QED
      BY <2>1, <2>2, Zenon
  <1> QED
    BY <1>1, <1>2, <1>3, <1>4, <1>5, KeptBy, Zenon

\* A misled fetch is about to save a rejection that is newer than the record.
LEMMA MisledIsWarned ==
    ASSUME Shape, CountInv, NEW f \in Fetcher, Observe(f), Misled(f), origin[f] \in Origin, Trusted(origin[f])
    PROVE  WarnedAt(f, origin[f])'
  <1> DEFINE r == store[<<origin[f], "fetch">>]
  <1>0. f \in Actor /\ <<origin[f], "fetch">> \in Key
    BY ScopeOfFetcher, Zenon DEF Key
  <1>1. r \in Evidence /\ Timely(r) /\ clock \in Nat
    BY <1>0, Zenon DEF Shape, CountInv
  <1>2. /\ plan[f] = [profile |-> "rfc9421", fallback |-> FALSE] /\ answer[f] = "challenge"
        /\ ~(Fresh(r) /\ r.profile = "rfc9421" /\ r.observed = clock)
    BY Zenon DEF Misled, TakenNow, capabilityKey
  <1>3. r.observed < clock
    <2>1. r.profile = "rfc9421"
      BY Zenon DEF Trusted
    <2> HIDE DEF r
    <2>2. r.observed \in Nat /\ r.expires \in Nat /\ r.observed <= clock /\ r.expires > r.observed
      BY <1>1, <2>1 DEF Evidence, Timely
    <2> QED
      BY <1>1, <1>2, <2>1, <2>2 DEF Fresh
  <1>4. plan[f].profile = "rfc9421"
    BY <1>2
  <1>5. ObserveResponse(plan[f].profile, answer[f]) = Observed("legacy")
    BY <1>1, <1>2, <1>4, SuccessSeen
  <1>6. /\ seen'[f] = Observed("legacy") /\ pc'[f] = "save" /\ UNCHANGED <<origin, store>>
    BY <1>0, <1>5, Zenon DEF Observe, Shape
  <1>7. Observed("legacy").profile = "legacy" /\ Observed("legacy").observed = clock
    BY DEF Observed
  <1> QED
    BY <1>1, <1>3, <1>6, <1>7 DEF WarnedAt, Evidence

\* Looking at an answer makes nobody late, and counts a failure only of a fetch at
\* risk, which then is warned.
LEMMA ObserveEffect ==
    ASSUME Shape, CountInv, NEW f \in Fetcher, NEW o \in Origin, \A b \in Actor : b # f => Same(b), Observe(f)
    PROVE  Kept(o) \/ Lost(o)
  <1>0. f \in Actor /\ clock \in Nat
    BY ScopeOfFetcher, Zenon DEF Shape
  <1>1. /\ pc[f] = "answered" /\ pc'[f] = "save"
        /\ seen'[f] = ObserveResponse(plan[f].profile, answer[f])
        /\ UNCHANGED <<store, origin, plan, answer, unsaved>>
    BY <1>0, Zenon DEF Observe, Shape
  <1>2. OthersLate(f, o) /\ OthersRisk(f, o)
    BY <1>1, OthersStayLate, OthersStayAtRisk, Zenon
  <1>3. LateAt(f, o)' <=> LateAt(f, o)
    <2>1. seen'[f].profile = "rfc9421" <=> Tells(f)
      BY <1>0, <1>1, SuccessSeen, SMTT(30) DEF Tells
    <2> QED
      BY <1>1, <2>1 DEF LateAt
  <1>4. ~WarnedAt(f, o) /\ ~ArmedAt(f, o)'
    BY <1>1 DEF WarnedAt, ArmedAt
  <1>5. RiskAt(f, o)' => RiskAt(f, o)
    <2>1. CASE Trusted(o)
      BY <1>1, <1>3, <1>4, <2>1, Zenon DEF RiskAt, Trusted
    <2>2. CASE ~Trusted(o)
      BY <1>1, <1>4, <2>2, Zenon DEF RiskAt, Trusted
    <2> QED
      BY <2>1, <2>2, Zenon
  <1>6. CASE Misled(f) /\ origin[f] = o
    <2>1. failed'[o] = failed[o] + 1
      BY <1>6, Zenon DEF Observe, CountInv
    <2>2. RiskAt(f, o)
      <3>1. ArmedAt(f, o)
        BY <1>1, <1>6, Zenon DEF Misled, ArmedAt
      <3> QED
        BY <3>1, ArmedIsAtRisk, Zenon
    <2>3. ~RiskAt(f, o)'
      <3>1. CASE Trusted(o)
        BY <1>1, <1>6, <3>1, MisledIsWarned, Zenon DEF RiskAt, Trusted
      <3>2. CASE ~Trusted(o)
        BY <1>1, <1>4, <3>2, Zenon DEF RiskAt, Trusted
      <3> QED
        BY <3>1, <3>2, Zenon
    <2> QED
      BY <1>1, <1>2, <1>3, <2>1, <2>2, <2>3, LostBy, Zenon
  <1>7. CASE ~(Misled(f) /\ origin[f] = o)
    <2>1. failed'[o] = failed[o]
      BY <1>7, Zenon DEF Observe, CountInv
    <2> QED
      BY <1>1, <1>2, <1>3, <1>5, <2>1, KeptBy, Zenon
  <1> QED
    BY <1>6, <1>7, Zenon

\* A fetch that is done with an answer: it saved what it saw or failed to, and
\* goes on without a success or a plan that can mislead.
Concludes(f) ==
    /\ pc[f] \in {"save", "saveFallback"} /\ SaveSeen(f)
    /\ UNCHANGED <<clock, origin, failed>>
    /\ \/ pc'[f] = "idle"
       \/ pc'[f] = "sent" /\ plan'[f].profile = "legacy"
       \/ pc'[f] = "saveFallback" /\ seen'[f].profile = "legacy"

\* The ends of DoGET are such steps.
LEMMA BothConclude ==
    ASSUME Shape, NEW f \in Fetcher, Conclude(f) \/ ConcludeFallback(f)
    PROVE  Concludes(f)
  <1>0. f \in Actor
    BY ScopeOfFetcher, Zenon
  <1>1. Observed("legacy").profile = "legacy" /\ [profile |-> "legacy", fallback |-> FALSE].profile = "legacy"
    BY DEF Observed
  <1>2. CASE Conclude(f)
    <2>1. pc[f] = "save" /\ SaveSeen(f) /\ UNCHANGED <<clock, origin, failed>>
      BY <1>2, Zenon DEF Conclude
    <2>2. \/ pc'[f] = "idle"
          \/ pc'[f] = "sent" /\ plan'[f] = [profile |-> "legacy", fallback |-> FALSE]
          \/ pc'[f] = "saveFallback" /\ seen'[f] = Observed("legacy")
      BY <1>0, <1>2, ZenonT(60) DEF Conclude, Forget, Shape
    <2>3. \/ pc'[f] = "idle"
          \/ pc'[f] = "sent" /\ plan'[f].profile = "legacy"
          \/ pc'[f] = "saveFallback" /\ seen'[f].profile = "legacy"
      BY <1>1, <2>2, Zenon
    <2> QED
      BY <2>1, <2>3, Zenon DEF Concludes
  <1>3. CASE ConcludeFallback(f)
    BY <1>0, <1>3, Zenon DEF ConcludeFallback, Forget, Shape, Concludes
  <1> QED
    BY <1>2, <1>3, Zenon

\* A saved success was late.  A saved rejection leaves at risk only those who are
\* under way.  A rejection that the script refuses was no warning, and one that
\* Redis fails to save or that has expired puts one fetch at risk again.
LEMMA ConcludeEffect ==
    ASSUME Shape, CountInv, NEW f \in Fetcher, NEW o \in Origin, \A b \in Actor : b # f => Same(b), Concludes(f)
    PROVE  Kept(o) \/ Renewed(o) \/ Dropped(o)
  <1> DEFINE key == <<o, "fetch">>
  <1>0. f \in Actor /\ key \in Key /\ DOMAIN store = Key
    BY ScopeOfFetcher, Zenon DEF Key, Shape
  <1>a. capabilityKey(origin[f], ScopeOf(f)) = <<origin[f], "fetch">>
    BY ScopeOfFetcher, Zenon DEF capabilityKey
  <1>1. pc[f] \in {"save", "saveFallback"} /\ UNCHANGED <<clock, origin, failed>>
    BY Zenon DEF Concludes
  <1>2. ~LateAt(f, o)' /\ ~ArmedAt(f, o)' /\ ~ArmedAt(f, o)
    <2>1. ~LateAt(f, o)'
      BY DEF Concludes, LateAt
    <2>2. ~ArmedAt(f, o)'
      BY DEF Concludes, ArmedAt
    <2> QED
      BY <1>1, <2>1, <2>2 DEF ArmedAt
  <1>3. OthersLate(f, o)
    BY OthersStayLate, Zenon
  <1>4. \/ unsaved' = unsaved /\ seen[f] = NoRecord /\ store' = store
        \/ unsaved' = unsaved /\ Fresh(seen[f]) /\ Save(<<origin[f], "fetch">>, seen[f])
        \/ /\ unsaved' = (IF seen[f].profile = "legacy" THEN unsaved + 1 ELSE unsaved)
           /\ store' = store
    <2>1. CASE Fresh(seen[f])
      BY <1>a, <2>1, Zenon DEF Concludes, SaveSeen, Unsaved
    <2>2. CASE ~Fresh(seen[f])
      BY <1>a, <2>2, Zenon DEF Concludes, SaveSeen, Unsaved, Save
    <2> QED
      BY <2>1, <2>2, Zenon
  <1>b. unsaved' \in {unsaved, unsaved + 1}
    BY <1>4, Zenon
  <1>5. CASE LateAt(f, o)
    BY <1>1, <1>2, <1>3, <1>b, <1>5, RenewedBy, ZenonT(60)
  <1>6. CASE ~LateAt(f, o) /\ origin[f] # o
    <2>1. store'[key] = store[key]
      BY <1>0, <1>4, <1>6 DEF Save
    <2>2. OthersRisk(f, o)
      BY <2>1, OthersStayAtRisk, Zenon
    <2>3. RiskAt(f, o)' => RiskAt(f, o)
      BY <1>1, <1>2, <1>6, <2>1, Zenon DEF RiskAt, Trusted, WarnedAt
    <2> QED
      BY <1>1, <1>2, <1>3, <1>b, <1>6, <2>2, <2>3, KeptBy, ZenonT(60)
  <1>7. CASE ~LateAt(f, o) /\ origin[f] = o
    <2>0. seen[f] \in Evidence /\ seen[f].profile = "legacy" /\ store[key] \in Evidence
      <3>1. seen[f] \in Evidence /\ store[key] \in Evidence
        BY <1>0, Zenon DEF Shape, Values
      <3>2. seen[f].profile # "rfc9421"
        BY <1>1, <1>7, Zenon DEF LateAt
      <3> QED
        BY <3>1, <3>2 DEF Evidence, Profile
    <2>1. CASE store'[key] = store[key] /\ ~WarnedAt(f, o)
      <3>1. OthersRisk(f, o)
        BY <2>1, OthersStayAtRisk, Zenon
      <3>2. RiskAt(f, o)' => RiskAt(f, o)
        BY <1>2, <1>7, <2>1, Zenon DEF RiskAt, Trusted
      <3> QED
        BY <1>1, <1>2, <1>3, <1>b, <1>7, <3>1, <3>2, KeptBy, ZenonT(60)
    <2>2. CASE store'[key] = seen[f] /\ unsaved' = unsaved
      <3>1. ~Trusted(o)'
        BY <2>0, <2>2 DEF Trusted
      <3>2. OthersRisk(f, o)
        BY <3>1, OthersStayAtRisk, Zenon
      <3>3. ~RiskAt(f, o)'
        BY <1>2, <3>1, Zenon DEF RiskAt
      <3> QED
        BY <1>1, <1>2, <1>3, <1>7, <2>2, <3>2, <3>3, KeptBy, ZenonT(60)
    <2>3. CASE store' = store /\ unsaved' = unsaved + 1
      <3>1. OthersRisk(f, o)
        BY <2>3, OthersStayAtRisk, Zenon
      <3> QED
        BY <1>1, <1>2, <1>3, <1>7, <2>3, <3>1, DroppedBy, ZenonT(60)
    <2>4. CASE unsaved' = unsaved /\ seen[f] = NoRecord /\ store' = store
      <3>1. seen[f].observed = 0 /\ store[key].observed \in Nat
        BY <2>0, <2>4, NoRecordIs DEF Evidence
      <3>2. ~WarnedAt(f, o)
        BY <3>1 DEF WarnedAt
      <3> QED
        BY <2>1, <2>4, <3>2, Zenon
    <2>5. CASE unsaved' = unsaved /\ Fresh(seen[f]) /\ Save(key, seen[f])
      <3>1. store'[key] = IF Fresh(store[key]) /\ store[key].observed >= seen[f].observed
                          THEN store[key] ELSE seen[f]
        BY <1>0, <2>5, Zenon DEF Save
      <3>2. CASE Fresh(store[key]) /\ store[key].observed >= seen[f].observed
        <4>1. store[key].observed \in Nat /\ seen[f].observed \in Nat
          BY <2>0 DEF Evidence
        <4>2. ~WarnedAt(f, o)
          BY <3>2, <4>1 DEF WarnedAt
        <4> QED
          BY <2>1, <3>1, <3>2, <4>2, ZenonT(60)
      <3>3. CASE ~(Fresh(store[key]) /\ store[key].observed >= seen[f].observed)
        BY <2>2, <2>5, <3>1, <3>3, Zenon
      <3> QED
        BY <3>2, <3>3, Zenon
    <2> QED
      BY <1>4, <1>7, <2>0, <2>3, <2>4, <2>5, ZenonT(60)
  <1> QED
    BY <1>5, <1>6, <1>7, Zenon

\* The steps of a fetch stay within the budget.
LEMMA FetcherBudget ==
    ASSUME Shape, CountInv, BudgetInv, NEW f \in Fetcher, FetcherStep(f)
    PROVE  BudgetInv'
  <1> SUFFICES ASSUME NEW o \in Origin, mode'[<<o, "fetch">>] = "challenging" PROVE Budget(o)'
    BY Zenon DEF BudgetInv
  <1>0. f \in Actor /\ \A b \in Actor : b # f => Same(b)
    BY ScopeOfFetcher, OthersOfFetcher, Zenon
  <1>1. mode[<<o, "fetch">>] = "challenging"
    BY FetcherCounts, Zenon DEF Counts
  <1>2. Budget(o)
    BY <1>1, Zenon DEF BudgetInv
  <1>3. CASE (\E p \in Origin : Fetch(f, p)) \/ Redirect(f)
    <2>1. /\ pc[f] \in {"idle", "sent"} /\ pc'[f] = "sent"
          /\ UNCHANGED <<store, failed, unsaved>>
          /\ \E p \in Origin : origin'[f] = p /\ plan'[f] = Plan(p, "fetch")
      BY <1>0, <1>3, ZenonT(30) DEF Fetch, Redirect, Shape, history
    <2>2. Kept(o)
      BY <1>0, <2>1, PlanKept, Zenon
    <2> QED
      BY <1>2, <2>2, BudgetKept, Zenon
  <1>4. CASE Reply(f)
    BY <1>0, <1>1, <1>2, <1>4, ReplyKept, BudgetKept, ZenonT(60)
  <1>5. CASE Observe(f)
    BY <1>0, <1>2, <1>5, ObserveEffect, BudgetKept, ZenonT(60)
  <1>6. CASE Conclude(f) \/ ConcludeFallback(f)
    BY <1>0, <1>2, <1>6, BothConclude, ConcludeEffect, BudgetKept, ZenonT(60)
  <1> QED
    BY <1>3, <1>4, <1>5, <1>6, Zenon DEF FetcherStep

\* The steps of a delivery leave the records of fetches alone.
LEMMA TaskBudget ==
    ASSUME Shape, CountInv, BudgetInv, NEW t \in Task, TaskStep(t)
    PROVE  BudgetInv'
  <1> SUFFICES ASSUME NEW o \in Origin, mode'[<<o, "fetch">>] = "challenging" PROVE Budget(o)'
    BY Zenon DEF BudgetInv
  <1>0. t \in Actor /\ t \notin Fetcher /\ \A b \in Actor : b # t => Same(b)
    BY ScopeOfTask, OthersOfTask, Zenon
  <1>1. mode' = mode /\ failed' = failed /\ unsaved' \in {unsaved, unsaved + 1}
    BY TaskCounts, Zenon DEF Counts
  <1>2. store'[<<o, "fetch">>] = store[<<o, "fetch">>]
    <2>1. Saved(t) /\ <<o, "fetch">> \in Key
      BY TaskSaves, Zenon DEF Key
    <2>2. <<o, "fetch">> # KeyOf(t)
      BY ScopeOfTask DEF KeyOf
    <2> QED
      BY <1>0, <2>1, <2>2, StoreAfter, Zenon
  <1>3. OthersLate(t, o) /\ OthersRisk(t, o)
    BY <1>0, <1>2, OthersStayLate, OthersStayAtRisk, ZenonT(60)
  <1>4. Kept(o)
    BY <1>0, <1>1, <1>3, Zenon DEF OthersLate, OthersRisk, Kept, Late, AtRisk
  <1> QED
    BY <1>1, <1>4, BudgetKept, Zenon DEF BudgetInv

\* The invariant of the bound holds initially, as after a change of a server.
LEMMA BudgetStarts == Init => CountInv /\ BudgetInv
  <1> SUFFICES ASSUME Init PROVE CountInv /\ BudgetInv
    OBVIOUS
  <1>0. /\ clock \in Nat /\ unsaved = 0 /\ DOMAIN mode = Key /\ DOMAIN failed = Origin
        /\ \A k \in Key : store[k] \in {Taken, NoRecord}
        /\ \A a \in Actor : pc[a] = "idle" /\ seen[a] = NoRecord
        /\ \A o \in Origin : failed[o] = 0
    BY DEF Init, Known, Taken
  <1>3. Timely(Taken)
    BY <1>0, NegotiationAssumption DEF NegotiationAssumption, Timely, Taken
  <1>1. CountInv
    BY <1>0, <1>3, ObservedTimely DEF CountInv
  <1>2. BudgetInv
    <2> SUFFICES ASSUME NEW o \in Origin PROVE Budget(o)
      BY Zenon DEF BudgetInv
    <2> DEFINE n == Cardinality(Fetcher)
               l == Cardinality(Late(o))
               u == Cardinality(AtRisk(o))
    <2>1. n \in Nat /\ l \in Nat /\ u \in Nat /\ u + l <= n
      BY LateOrAtRisk, FetchersCounted, Zenon DEF NoneIsBoth
    <2>2. 2 * u + Renewals(n, l) <= n * (n + 1)
      BY <2>1, AtTheChange, Zenon
    <2>3. Renewals(n, l) \in Int /\ n * (n + 1) \in Int
      BY <2>1 DEF Renewals
    <2>4. 2 * 0 + 2 * u + Renewals(n, l) <= n * (n + 1) + 2 * 0
      <3> HIDE DEF n, l, u
      <3> QED
        BY <2>1, <2>2, <2>3
    <2> QED
      BY <1>0, <2>4, Zenon DEF Budget
  <1> QED
    BY <1>1, <1>2, Zenon

\* Every step keeps it.
LEMMA BudgetSteps == Inv /\ CountInv /\ BudgetInv /\ [Next]_vars => (CountInv /\ BudgetInv)'
  <1> SUFFICES ASSUME Inv, CountInv, BudgetInv, [Next]_vars PROVE (CountInv /\ BudgetInv)'
    OBVIOUS
  <1>0. Shape
    BY Zenon DEF Inv
  <1>1. CASE Outside
    BY <1>0, <1>1, OutsideCountInv, OutsideBudget, Zenon
  <1>2. ASSUME NEW f \in Fetcher, FetcherStep(f) PROVE (CountInv /\ BudgetInv)'
    <2>1. f \in Actor /\ Saved(f) /\ Counts(f) /\ \A b \in Actor : b # f => Same(b)
      BY <1>0, <1>2, ScopeOfFetcher, FetcherSaves, FetcherCounts, OthersOfFetcher, Zenon
    <2>2. seen'[f] \in {seen[f], NoRecord, Observed("rfc9421"), Observed("legacy")}
      BY <1>0, <1>2, <2>1, SeenAfter, Zenon
    <2>3. CountInv'
      BY <1>0, <2>1, <2>2, ActorCountInv, Zenon
    <2> QED
      BY <1>0, <1>2, <2>3, FetcherBudget, Zenon
  <1>3. ASSUME NEW t \in Task, TaskStep(t) PROVE (CountInv /\ BudgetInv)'
    <2>1. t \in Actor /\ Saved(t) /\ Counts(t) /\ failed' = failed /\ \A b \in Actor : b # t => Same(b)
      BY <1>0, <1>3, ScopeOfTask, TaskSaves, TaskCounts, OthersOfTask, Zenon
    <2>2. seen'[t] \in {seen[t], NoRecord, Observed("rfc9421"), Observed("legacy")}
      BY <1>0, <1>3, <2>1, SeenAfter, Zenon
    <2>3. CountInv'
      BY <1>0, <2>1, <2>2, ActorCountInv, Zenon
    <2> QED
      BY <1>0, <1>3, <2>3, TaskBudget, Zenon
  <1> QED
    BY <1>1, <1>2, <1>3, OutsideSplit, Zenon

\* RejectionsEnd: what ObserveResponse, the script of SaveDestinationCapability and
\* Plan do together bounds the fetches that a server loses after it turned to
\* challenging RFC 9421, whatever late successes are saved and in whatever order.
THEOREM RejectionsAreBounded == Spec => []RejectionsEnd
  <1>1. CountInv /\ BudgetInv => RejectionsEnd
    <2> SUFFICES ASSUME CountInv, BudgetInv, NEW o \in Origin, mode[<<o, "fetch">>] = "challenging"
                 PROVE  failed[o] <= (Cardinality(Fetcher) * (Cardinality(Fetcher) + 1)) \div 2 + unsaved
      BY Zenon DEF RejectionsEnd
    <2> DEFINE n == Cardinality(Fetcher)
               l == Cardinality(Late(o))
               u == Cardinality(AtRisk(o))
               w == n * (n + 1)
    <2>1. n \in Nat /\ l \in Nat /\ u \in Nat /\ l <= n
      <3>1. n \in Nat /\ l \in Nat /\ u \in Nat /\ u + l <= n
        BY LateOrAtRisk, FetchersCounted, Zenon DEF NoneIsBoth
      <3> HIDE DEF n, l, u
      <3> QED
        BY <3>1
    <2>2. 2 * failed[o] + 2 * u + Renewals(n, l) <= w + 2 * unsaved
      BY Zenon DEF BudgetInv, Budget
    <2>3. failed[o] \in Nat /\ unsaved \in Nat
      BY Zenon DEF CountInv
    <2>4. Renewals(n, l) \in Nat /\ w \in Nat
      <3> HIDE DEF n, l
      <3> QED
        BY <2>1 DEF Renewals
    <2> HIDE DEF n, l, u, w
    <2>5. 2 * failed[o] <= w + 2 * unsaved
      BY <2>1, <2>2, <2>3, <2>4
    <2>6. failed[o] <= w \div 2 + unsaved
      BY <2>3, <2>4, <2>5
    <2> QED
      BY <2>6 DEF w, n
  <1> QED
    BY <1>1, Inductive, BudgetStarts, BudgetSteps, PTL DEF Spec

===============================================================================
