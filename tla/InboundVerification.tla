-------------------------- MODULE InboundVerification --------------------------
(***************************************************************************)
(* What the inbox does with a signed request before it looks at the        *)
(* activity (decodeActivity in api/decode.go, VerifyPOST in                *)
(* internal/httpsignature): the window of the creation time, the key of    *)
(* the sender from a cache of the process or from its server, the nonce in *)
(* Redis, and the actor of the activity.                                   *)
(*                                                                         *)
(* Requests can be delivered more than once and to any API process.  The   *)
(* processes have clocks of their own.  The sender replaces its key now    *)
(* and then.  A request that is refused for its form leaves everything as  *)
(* it was and is not a step of the model.                                  *)
(***************************************************************************)
EXTENDS Integers

CONSTANTS Handler, Replica,
          Home,          \* the API process of a handler
          Message,       \* signed requests; each has its own nonce
          Stamp,         \* creation times senders may claim
          MaximumAge, FutureSkew, ReplayTTL,
          CacheTTL,      \* lifetime of a cached actor document
          MaxResolve,    \* the longest time from the clock reading to the nonce
          MaxDrift,      \* the most that clocks of API processes differ
          MaxKeys,       \* bound on replaced keys
          MaxClock,      \* bound on time
          MaxReceived    \* bound on requests

\* NewRFC9421Verifier insists on the first two terms of the sum.  The others are
\* what the defaults leave room for: 270 seconds, against two GET requests of at
\* most 10 seconds each.
ASSUME VerificationAssumption ==
    /\ Home \in [Handler -> Replica]
    /\ Stamp \subseteq Nat
    /\ MaximumAge \in Nat /\ FutureSkew \in Nat /\ CacheTTL \in Nat
    /\ MaxResolve \in Nat /\ MaxDrift \in Nat /\ ReplayTTL \in Nat
    /\ MaximumAge + FutureSkew + MaxResolve + MaxDrift < ReplayTTL
    /\ MaxKeys \in Nat /\ MaxClock \in Nat /\ MaxReceived \in Nat

VARIABLES
    clock,     \* real time, which is also the time of Redis
    offset,    \* how far the clock of a process is ahead
    key,       \* the number of the sender's key
    replaced,  \* when a key was replaced
    held,      \* processes with the sender's actor document in ActorCache,
    cached,    \* the key in it,
    expires,   \* and when it expires
    sent,      \* the requests sent,
    modern,    \* those with Signature-Input,
    created,   \* their creation time,
    until,     \* the time they claim to expire at, or 0,
    signer,    \* and the key they were signed with
    nonce,     \* when the nonce of a request expires in Redis; 0 if never set
    pc, msg,   \* where a handler is, and with which request
    genuine,   \* handlers that received what was signed
    readAt,    \* real time at which it read its clock
    got,       \* the key it got
    received,
    accepted,  \* history: how often a request was accepted
    intact     \* history: requests that reached a process as they were signed

cache   == <<held, cached, expires>>
request == <<sent, modern, created, until, signer>>
handler == <<pc, msg, genuine, readAt, got>>
verificationVars == <<clock, offset, key, replaced, cache, request, nonce, handler, received,
                      accepted, intact>>

VerificationInit ==
    /\ clock = 0
    /\ offset \in [Replica -> 0 .. MaxDrift]
    /\ key = 0
    /\ replaced = [k \in 0 .. MaxKeys |-> 0]
    /\ held = {} /\ cached = [r \in Replica |-> 0] /\ expires = [r \in Replica |-> 0]
    /\ sent = {} /\ modern = {}
    /\ created = [m \in Message |-> 0] /\ until = [m \in Message |-> 0]
    /\ signer = [m \in Message |-> 0]
    /\ nonce = [m \in Message |-> 0]
    /\ pc = [h \in Handler |-> "idle"]
    /\ msg \in [Handler -> Message]
    /\ genuine = {}
    /\ readAt = [h \in Handler |-> 0]
    /\ got = [h \in Handler |-> 0]
    /\ received = 0
    /\ accepted = [m \in Message |-> 0]
    /\ intact = {}

-----------------------------------------------------------------------------
(* Senders                                                                 *)

Send(m) ==
    /\ m \notin sent
    /\ sent' = sent \cup {m}
    /\ modern' \in {modern, modern \cup {m}}
    /\ \E c \in Stamp : created' = [created EXCEPT ![m] = c]
    /\ \E u \in {0} \cup Stamp : until' = [until EXCEPT ![m] = u]
    /\ signer' = [signer EXCEPT ![m] = key]
    /\ UNCHANGED <<clock, offset, key, replaced, cache, nonce, handler, received, accepted,
                   intact>>

ReplaceKey ==
    /\ key < MaxKeys
    /\ key' = key + 1
    /\ replaced' = [replaced EXCEPT ![key] = clock]
    /\ UNCHANGED <<clock, offset, cache, request, nonce, handler, received, accepted,
                   intact>>

-----------------------------------------------------------------------------
(* Handlers                                                                *)

\* A handler goes on without its key, or ends.
Leave(h, where) ==
    /\ pc' = [pc EXCEPT ![h] = where]
    /\ genuine' = genuine \ {h}
    /\ readAt' = [readAt EXCEPT ![h] = 0]
    /\ got' = [got EXCEPT ![h] = 0]

\* validateRFC9421POSTParameters, on the clock of the process.
InWindow(h, m) ==
    LET now == clock + offset[Home[h]]
    IN  /\ created[m] >= now - MaximumAge
        /\ created[m] <= now + FutureSkew
        /\ until[m] # 0 => until[m] >= created[m] /\ until[m] >= now

\* decodeActivity up to the key.  A request without Signature-Input has no
\* window and no nonce.
Receive(h, m) ==
    /\ pc[h] = "idle"
    /\ m \in sent
    /\ received < MaxReceived
    /\ m \in modern => InWindow(h, m)
    /\ received' = received + 1
    /\ pc' = [pc EXCEPT ![h] = "resolve"]
    /\ msg' = [msg EXCEPT ![h] = m]
    /\ \/ genuine' = genuine \cup {h} /\ intact' = intact \cup {m}
       \/ UNCHANGED <<genuine, intact>>
    /\ readAt' = [readAt EXCEPT ![h] = clock]
    /\ UNCHANGED <<clock, offset, key, replaced, cache, request, nonce, got, accepted>>

\* Get of go-cache.
Cached(r) == r \in held /\ clock <= expires[r]

\* Mutant: a hit renews the lifetime of the document.
CacheHitRenewing(h) ==
    /\ pc[h] = "resolve"
    /\ Cached(Home[h])
    /\ got' = [got EXCEPT ![h] = cached[Home[h]]]
    /\ pc' = [pc EXCEPT ![h] = "verify"]
    /\ expires' = [expires EXCEPT ![Home[h]] = clock + CacheTTL]
    /\ UNCHANGED <<clock, offset, key, replaced, held, cached, request, nonce, msg, genuine,
                   readAt, received, accepted, intact>>

\* NewActivityPubActorFromRemoteActor finds the document in the cache.
CacheHit(h) ==
    /\ pc[h] = "resolve"
    /\ Cached(Home[h])
    /\ got' = [got EXCEPT ![h] = cached[Home[h]]]
    /\ pc' = [pc EXCEPT ![h] = "verify"]
    /\ UNCHANGED <<clock, offset, key, replaced, cache, request, nonce, msg, genuine,
                   readAt, received, accepted, intact>>

\* It does not, and the sender's server answers or the request fails.
Fetch(h) ==
    /\ pc[h] = "resolve"
    /\ ~Cached(Home[h])
    /\ \/ /\ got' = [got EXCEPT ![h] = key]
          /\ pc' = [pc EXCEPT ![h] = "fetched"]
          /\ UNCHANGED <<genuine, readAt>>
       \/ Leave(h, "idle")
    /\ UNCHANGED <<clock, offset, key, replaced, cache, request, nonce, msg, received,
                   accepted, intact>>

\* The answer arrives and is kept.
Store(h) ==
    /\ pc[h] = "fetched"
    /\ held' = held \cup {Home[h]}
    /\ cached' = [cached EXCEPT ![Home[h]] = got[h]]
    /\ expires' = [expires EXCEPT ![Home[h]] = clock + CacheTTL]
    /\ pc' = [pc EXCEPT ![h] = "verify"]
    /\ UNCHANGED <<clock, offset, key, replaced, request, nonce, msg, genuine, readAt, got,
                   received, accepted, intact>>

\* The signature is one of that key over what was received.
SignatureValid(h) == h \in genuine /\ got[h] = signer[msg[h]]

\* Mutant: the nonce lives only as long as the age of a request.
NonceExpiryOfAge(m) == clock + MaximumAge

\* ReserveRFC9421Nonce: SET NX with a lifetime.
NonceExpiry(m) == clock + ReplayTTL
NonceHeld(m)   == nonce[m] > clock

\* The signature is checked, then the nonce is reserved: it can be taken, the
\* call can fail, and its answer can be lost after it took effect.
Verify(h) ==
    LET m == msg[h]
    IN  /\ pc[h] = "verify"
        /\ \/ /\ ~SignatureValid(h)
              /\ Leave(h, "idle")
              /\ UNCHANGED nonce
           \/ /\ SignatureValid(h) /\ m \notin modern
              /\ Leave(h, "bind")
              /\ UNCHANGED nonce
           \/ /\ SignatureValid(h) /\ m \in modern /\ ~NonceHeld(m)
              /\ nonce' = [nonce EXCEPT ![m] = NonceExpiry(m)]
              /\ \/ Leave(h, "bind")
                 \/ Leave(h, "idle")
           \/ /\ SignatureValid(h) /\ m \in modern
              /\ Leave(h, "idle")
              /\ UNCHANGED nonce
        /\ UNCHANGED <<clock, offset, key, replaced, cache, request, msg, received,
                       accepted, intact>>

\* The activity is parsed, its actor compared with the owner of the key and
\* with its own document: the request is accepted or refused.
Bind(h) ==
    /\ pc[h] = "bind"
    /\ Leave(h, "idle")
    /\ \/ accepted' = [accepted EXCEPT ![msg[h]] = @ + 1]
       \/ UNCHANGED accepted
    /\ UNCHANGED <<clock, offset, key, replaced, cache, request, nonce, msg, received,
                   intact>>

-----------------------------------------------------------------------------

Resolving == {"resolve", "fetched", "verify"}

\* Time passes; requests to the sender's server and to Redis have timeouts.
Tick ==
    /\ clock < MaxClock
    /\ \A h \in Handler : pc[h] \in Resolving => clock < readAt[h] + MaxResolve
    /\ clock' = clock + 1
    /\ UNCHANGED <<offset, key, replaced, cache, request, nonce, handler, received, accepted,
                   intact>>

VerificationNext ==
    \/ Tick
    \/ ReplaceKey
    \/ \E m \in Message : Send(m)
    \/ \E h \in Handler : \/ \E m \in Message : Receive(h, m)
                          \/ CacheHit(h) \/ Fetch(h) \/ Store(h) \/ Verify(h) \/ Bind(h)

VerificationSpec == VerificationInit /\ [][VerificationNext]_verificationVars

-----------------------------------------------------------------------------
(* Properties                                                              *)

\* Every variable has its type; a signature is only checked against a key that the
\* sender has or had.
VerificationTypeOK ==
    /\ clock \in Nat
    /\ offset \in [Replica -> 0 .. MaxDrift]
    /\ key \in 0 .. MaxKeys
    /\ replaced \in [0 .. MaxKeys -> Nat]
    /\ held \subseteq Replica
    /\ cached \in [Replica -> 0 .. MaxKeys] /\ expires \in [Replica -> Nat]
    /\ sent \subseteq Message /\ modern \subseteq Message
    /\ created \in [Message -> Nat] /\ until \in [Message -> Nat] /\ signer \in [Message -> 0 .. MaxKeys]
    /\ nonce \in [Message -> Nat]
    /\ pc \in [Handler -> {"idle", "resolve", "fetched", "verify", "bind"}]
    /\ msg \in [Handler -> Message]
    /\ genuine \subseteq Handler
    /\ readAt \in [Handler -> Nat]
    /\ got \in [Handler -> 0 .. MaxKeys]
    /\ received \in 0 .. MaxReceived
    /\ accepted \in [Message -> Nat]
    /\ intact \subseteq Message

\* A request with an RFC 9421 signature is accepted at most once, by whichever
\* process, however often and late it is delivered: when its nonce has expired
\* in Redis no process takes its creation time any more, although that time is
\* looked at before the key is fetched and the nonce is set after.
AcceptedOnce == \A m \in Message : m \in modern => accepted[m] <= 1

\* Without a copy that arrived as it was signed a request is never accepted and
\* its nonce is never used up, however many damaged copies arrive: the nonce is
\* reserved after the signature is checked, by a handler of that copy.
IntactOnly == \A m \in Message : nonce[m] > 0 \/ accepted[m] > 0 => m \in intact

\* A key that was replaced is used for verification only for a bounded time: the
\* lifetime of the cached document and twice the time a lookup may take.
KeysCatchUp ==
    \A h \in Handler : (pc[h] = "verify" /\ got[h] # key) =>
        clock <= replaced[got[h]] + CacheTTL + 2 * MaxResolve

================================================================================
