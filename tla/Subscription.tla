----------------------------- MODULE Subscription ----------------------------
(***************************************************************************)
(* How a server becomes a receiver of the relay and stops being one        *)
(* (api/resolver.go, api/handle.go, control/follow.go, control/domain.go). *)
(*                                                                         *)
(* A Follow of the Public collection makes a subscriber, a Follow of the   *)
(* relay actor a follower; with manual approval either is first put on the *)
(* pending list, where an operator accepts or rejects it.  Requests of the *)
(* API and commands of the operator work on the same Redis keys, each in   *)
(* several steps and without a lock.                                       *)
(*                                                                         *)
(* Keys are built from the host of the actor's ID.  Records are stored and *)
(* looked up under different spellings of it: as it is written, in lower   *)
(* case (StateDomain), or in lower case without a port (ActorDomain).      *)
(***************************************************************************)
EXTENDS Integers

CONSTANTS Name,         \* hosts, in every spelling
          Actor,        \* the spellings that occur in actor IDs
          StateDomain,  \* normalizeStateDomain of a name
          ActorDomain,  \* normalizedActorDomain of a name
          Request,      \* inbox requests handled at the same time
          Operator,     \* commands of the control tool run at the same time
          MaxRequests,  \* bound on inbox requests
          MaxCommands,  \* bound on commands
          MaxFaults     \* bound on failed calls and dead processes

ASSUME SubscriptionAssumption ==
    /\ Actor \subseteq Name
    /\ StateDomain \in [Name -> Name]
    /\ ActorDomain \in [Name -> Name]
    /\ MaxRequests \in Nat
    /\ MaxCommands \in Nat
    /\ MaxFaults \in Nat

Style == {"Public", "Relay"}
NoFollow == [style |-> "none", id |-> 0]

VARIABLES
    pending,    \* relay:pending:<name>
    subs,       \* relay:subscription:<name>: the ID of the Follow, 0 if none
    fols,       \* relay:follower:<name>: the same
    mutual,     \* its mutually_follow
    manual,     \* manually_accept in relay:config
    seen,       \* the snapshot of the API and of each command
    rpc, req,   \* where a request is, and what it asks
    opc, cmd,   \* where a command is, and what it does
    follow,     \* the pending Follow a command has read
    requests, commands, faults,
    approved,   \* history: Follows an operator accepted
    open,       \* history: Follows handled without manual approval
    stored,     \* history: Follows that became a record
    accepted,   \* history: Follows that were answered with an Accept
    removed,    \* history: Follows taken from the pending list by an accept
    quiet,      \* history: requests that nothing else for their name overlaps
                \* and whose deletions do not fail
    undone      \* history: names and styles whose last word was a quiet Undo

redisVars   == <<pending, subs, fols, mutual, manual>>
requestVars == <<rpc, req>>
commandVars == <<opc, cmd, follow>>
bounds      == <<requests, commands, faults>>
history     == <<approved, open, stored, accepted, removed, quiet, undone>>
vars == <<redisVars, seen, requestVars, commandVars, bounds, history>>

View == [manual |-> manual, subs |-> {n \in Name : subs[n] # 0}, fols |-> {n \in Name : fols[n] # 0}]

NoRequest == [kind |-> "none", name |-> "", id |-> 0]
NoCommand == [kind |-> "none", name |-> ""]

Init ==
    /\ pending = [n \in Name |-> NoFollow]
    /\ subs = [n \in Name |-> 0]
    /\ fols = [n \in Name |-> 0]
    /\ mutual = [n \in Name |-> FALSE]
    /\ manual \in BOOLEAN
    /\ seen = [p \in {"api"} \cup Operator |-> View]
    /\ rpc = [r \in Request |-> "idle"]
    /\ req = [r \in Request |-> NoRequest]
    /\ opc = [o \in Operator |-> "idle"]
    /\ cmd = [o \in Operator |-> NoCommand]
    /\ follow = [o \in Operator |-> NoFollow]
    /\ requests = 0 /\ commands = 0 /\ faults = 0
    /\ approved = {} /\ open = {} /\ stored = {} /\ accepted = {} /\ removed = {} /\ quiet = {} /\ undone = {}

Fault == faults < MaxFaults /\ faults' = faults + 1

\* Load of models/state.go: a running process catches up with Redis.
Load(p) ==
    /\ p \in Operator => opc[p] # "idle"
    /\ seen' = [seen EXCEPT ![p] = View]
    /\ UNCHANGED <<redisVars, requestVars, commandVars, bounds, history>>

-----------------------------------------------------------------------------
(* The inbox                                                               *)

Follows == {"FollowPublic", "FollowRelay"}
Undos   == {"UndoPublic", "UndoRelay"}
Answers == {"Accept", "Reject"}
StyleOf(kind) == IF kind \in {"FollowPublic", "UndoPublic"} THEN "Public" ELSE "Relay"
FollowOf(r) == [style |-> StyleOf(req[r].kind), id |-> req[r].id]

Goto(r, to) == rpc' = [rpc EXCEPT ![r] = to]
Done(r) == Goto(r, "idle") /\ req' = [req EXCEPT ![r] = NoRequest]

\* Another request or command works for the same name.
Busy(r, n) ==
    \/ \E s \in Request \ {r} : req[s].name = n
    \/ \E o \in Operator : cmd[o].name = n

\* handleInbox: an activity arrives and is dispatched.
HandleInbox(r, kind, n) ==
    /\ rpc[r] = "idle"
    /\ requests < MaxRequests
    /\ requests' = requests + 1
    /\ req' = [req EXCEPT ![r] = [kind |-> kind, name |-> n, id |-> requests + 1]]
    /\ Goto(r, CASE kind \in Follows -> "follow"
                 [] kind \in Undos   -> "unfollow"
                 [] kind \in Answers -> "finalize")
    /\ quiet' = IF Busy(r, n) THEN {s \in quiet \ {r} : req[s].name # n} ELSE quiet \cup {r}
    /\ undone' = IF kind \in Follows THEN undone \ {<<n, StyleOf(kind)>>} ELSE undone
    /\ UNCHANGED <<redisVars, seen, commandVars, commands, faults,
                   approved, open, stored, accepted, removed>>

\* executeRejectRequest: the domain is blocked, the actor may not follow the
\* relay actor, or the object is neither Public nor the relay actor.
ExecuteRejectRequest(r) ==
    /\ \/ rpc[r] = "follow"
       \/ rpc[r] = "unfollow" /\ req[r].kind = "UndoRelay"
    /\ Done(r)
    /\ UNCHANGED <<redisVars, seen, commandVars, bounds, history>>

\* Mutant: manual approval is only asked for subscribers.
FollowingUnapproved(r) ==
    /\ rpc[r] = "follow"
    /\ Goto(r, IF seen["api"].manual /\ req[r].kind = "FollowPublic" THEN "pend" ELSE "store")
    /\ open' = IF seen["api"].manual THEN open ELSE open \cup {req[r].id}
    /\ accepted' = IF ~seen["api"].manual /\ req[r].kind = "FollowPublic"
                   THEN accepted \cup {FollowOf(r)} ELSE accepted
    /\ UNCHANGED <<redisVars, seen, req, commandVars, bounds, approved, stored, removed, quiet, undone>>

\* executeFollowing decides by the snapshot; the Accept to a subscriber is on
\* its way before the record is stored.
ExecuteFollowing(r) ==
    /\ rpc[r] = "follow"
    /\ Goto(r, IF seen["api"].manual THEN "pend" ELSE "store")
    /\ open' = IF seen["api"].manual THEN open ELSE open \cup {req[r].id}
    /\ accepted' = IF ~seen["api"].manual /\ req[r].kind = "FollowPublic"
                   THEN accepted \cup {FollowOf(r)} ELSE accepted
    /\ UNCHANGED <<redisVars, seen, req, commandVars, bounds, approved, stored, removed, quiet, undone>>

\* HMSet relay:pending:<host>; its error is not looked at.
StorePending(r) ==
    /\ rpc[r] = "pend"
    /\ \/ /\ pending' = [pending EXCEPT ![req[r].name] = FollowOf(r)]
          /\ UNCHANGED faults
       \/ Fault /\ UNCHANGED pending
    /\ Done(r)
    /\ UNCHANGED <<subs, fols, mutual, manual, seen, commandVars, requests, commands, history>>

\* AddSubscriber; its error is not looked at.
AddSubscriber(n, id) ==
    /\ subs' = [subs EXCEPT ![n] = id]
    /\ stored' = stored \cup {id}
    /\ UNCHANGED <<fols, mutual>>

\* AddFollowerChecked stores under the normalized domain.
AddFollowerChecked(n, id) ==
    /\ fols' = [fols EXCEPT ![StateDomain[n]] = id]
    /\ mutual' = [mutual EXCEPT ![StateDomain[n]] = FALSE]
    /\ stored' = stored \cup {id}
    /\ UNCHANGED subs

\* The record of a Follow without approval.  A follower is answered after
\* its record is stored, and rejected when that fails.
StoreRecord(r) ==
    /\ rpc[r] = "store"
    /\ \/ /\ req[r].kind = "FollowPublic"
          /\ AddSubscriber(req[r].name, req[r].id)
          /\ Done(r)
          /\ UNCHANGED faults
       \/ /\ req[r].kind = "FollowRelay"
          /\ AddFollowerChecked(req[r].name, req[r].id)
          /\ Goto(r, "answer")
          /\ UNCHANGED <<req, faults>>
       \/ /\ Fault
          /\ Done(r)
          /\ UNCHANGED <<subs, fols, mutual, stored>>
    /\ UNCHANGED <<pending, manual, seen, commandVars, requests, commands,
                   approved, open, accepted, removed, quiet, undone>>

\* The Accept, and the relay's own Follow (executeMutuallyFollow).
AnswerFollower(r) ==
    /\ rpc[r] = "answer"
    /\ accepted' = accepted \cup {FollowOf(r)}
    /\ Done(r)
    /\ UNCHANGED <<redisVars, seen, commandVars, bounds, approved, open, stored, removed, quiet, undone>>

\* executeUnfollowing with DelSubscriber or DelFollower, which delete the
\* record and then the pending request under the host as it is written.  The
\* errors of both deletions are ignored and the Undo counts as handled.
DelRecord(r) ==
    /\ rpc[r] = "unfollow"
    /\ \/ /\ req[r].kind = "UndoPublic"
          /\ subs' = [subs EXCEPT ![req[r].name] = 0]
          /\ UNCHANGED <<fols, mutual, faults, quiet>>
       \/ /\ req[r].kind = "UndoRelay"
          /\ fols' = [fols EXCEPT ![req[r].name] = 0]
          /\ mutual' = [mutual EXCEPT ![req[r].name] = FALSE]
          /\ UNCHANGED <<subs, faults, quiet>>
       \/ Fault /\ quiet' = quiet \ {r} /\ UNCHANGED <<subs, fols, mutual>>
    /\ Goto(r, "forget")
    /\ UNCHANGED <<pending, manual, seen, req, commandVars, requests, commands,
                   approved, open, stored, accepted, removed, undone>>

QuietUndo(r) == IF r \in quiet THEN {<<req[r].name, StyleOf(req[r].kind)>>} ELSE {}

\* Mutant: an Undo of the Public collection leaves the pending request.
ForgetPending(r) ==
    /\ rpc[r] = "forget"
    /\ pending' = IF req[r].kind = "UndoPublic" THEN pending
                  ELSE [pending EXCEPT ![req[r].name] = NoFollow]
    /\ undone' = undone \cup QuietUndo(r)
    /\ Done(r)
    /\ UNCHANGED <<subs, fols, mutual, manual, seen, commandVars, bounds,
                   approved, open, stored, accepted, removed, quiet>>

DelPending(r) ==
    /\ rpc[r] = "forget"
    /\ \/ /\ pending' = [pending EXCEPT ![req[r].name] = NoFollow]
          /\ undone' = undone \cup QuietUndo(r)
          /\ UNCHANGED faults
       \/ Fault /\ UNCHANGED <<pending, undone>>
    /\ Done(r)
    /\ UNCHANGED <<subs, fols, mutual, manual, seen, commandVars, requests, commands,
                   approved, open, stored, accepted, removed, quiet>>

\* finalizeMutuallyFollow: isActorFollowers asks the snapshot for the host
\* without its port, updateFollowerStatusScript changes the record only if it
\* exists; when it fails the answer is dropped.
FinalizeMutuallyFollow(r) ==
    /\ rpc[r] = "finalize"
    /\ LET n == StateDomain[req[r].name] IN
       \/ /\ mutual' = IF ActorDomain[req[r].name] \in seen["api"].fols /\ fols[n] # 0
                       THEN [mutual EXCEPT ![n] = (req[r].kind = "Accept")]
                       ELSE mutual
          /\ UNCHANGED faults
       \/ Fault /\ UNCHANGED mutual
    /\ Done(r)
    /\ UNCHANGED <<pending, subs, fols, manual, seen, commandVars, requests, commands, history>>

-----------------------------------------------------------------------------
(* The command line tool: every command is a process with its own snapshot *)

Step(o, to) == opc' = [opc EXCEPT ![o] = to]
End(o) ==
    /\ Step(o, "idle")
    /\ cmd' = [cmd EXCEPT ![o] = NoCommand]
    /\ follow' = [follow EXCEPT ![o] = NoFollow]

\* acceptFollow and rejectFollow look the domain up in the pending list,
\* unfollowDomains in its snapshot.
Start(o, kind, n) ==
    /\ opc[o] = "idle"
    /\ commands < MaxCommands
    /\ \/ /\ kind \in Answers
          /\ pending[n] # NoFollow
          /\ Step(o, "read")
       \/ /\ kind = "unfollow"
          /\ n \in View.subs \cup View.fols
          /\ Step(o, IF n \in View.subs THEN "selectSubscriber" ELSE "selectFollower")
    /\ cmd' = [cmd EXCEPT ![o] = [kind |-> kind, name |-> n]]
    /\ seen' = [seen EXCEPT ![o] = View]
    /\ commands' = commands + 1
    /\ quiet' = {r \in quiet : req[r].name # n}
    /\ UNCHANGED <<redisVars, requestVars, follow, requests, faults,
                   approved, open, stored, accepted, removed, undone>>

\* editConfig: manually_accept is switched.
EditConfig(o) ==
    /\ opc[o] = "idle"
    /\ commands < MaxCommands
    /\ commands' = commands + 1
    /\ manual' = ~manual
    /\ UNCHANGED <<pending, subs, fols, mutual, seen, requestVars, commandVars, requests, faults, history>>

\* createFollowRequestResponse reads the request once: HGETALL of a key that
\* is gone gives an empty one, and one that fails ends the command.
ReadPending(o) ==
    /\ opc[o] = "read"
    /\ \/ LET f == pending[cmd[o].name] IN
          /\ follow' = [follow EXCEPT ![o] = f]
          /\ approved' = IF cmd[o].kind = "Accept" THEN approved \cup {f.id} ELSE approved
          /\ Step(o, IF cmd[o].kind = "Accept" /\ f.style = "Relay" THEN "storeFollower" ELSE "answer")
          /\ UNCHANGED <<cmd, faults>>
       \/ Fault /\ End(o) /\ UNCHANGED approved
    /\ UNCHANGED <<redisVars, seen, requestVars, requests, commands,
                   open, stored, accepted, removed, quiet, undone>>

\* A follower is stored before it is answered; when that fails the command
\* ends and the request stays on the list.
StoreFollower(o) ==
    /\ opc[o] = "storeFollower"
    /\ \/ /\ AddFollowerChecked(cmd[o].name, follow[o].id)
          /\ Step(o, "answer")
          /\ UNCHANGED <<cmd, follow, faults>>
       \/ Fault /\ End(o) /\ UNCHANGED <<subs, fols, mutual, stored>>
    /\ UNCHANGED <<pending, manual, seen, requestVars, requests, commands,
                   approved, open, accepted, removed, quiet, undone>>

\* enqueueRegisterActivity publishes the answer or, when the queue is full or
\* Redis fails, drops it.
AnswerFollow(o) ==
    /\ opc[o] = "answer"
    /\ accepted' \in {accepted} \cup
                     (IF cmd[o].kind = "Accept" THEN {accepted \cup {follow[o]}} ELSE {})
    /\ Step(o, "forget")
    /\ UNCHANGED <<redisVars, seen, requestVars, cmd, follow, bounds,
                   approved, open, stored, removed, quiet, undone>>

\* The pending request is deleted, whatever it is by now; an error of the
\* deletion is not looked at.
DelFollow(o) ==
    \/ /\ pending' = [pending EXCEPT ![cmd[o].name] = NoFollow]
       /\ removed' = IF cmd[o].kind = "Accept" /\ follow[o].style # "none"
                     THEN removed \cup {follow[o]} ELSE removed
       /\ UNCHANGED faults
    \/ Fault /\ UNCHANGED <<pending, removed>>

\* Mutant: an accepted subscriber is not stored.
ForgetAndEnd(o) ==
    /\ opc[o] = "forget"
    /\ DelFollow(o)
    /\ End(o)
    /\ UNCHANGED <<subs, fols, mutual, manual, seen, requestVars, requests, commands,
                   approved, open, stored, accepted, quiet, undone>>

ForgetFollow(o) ==
    /\ opc[o] = "forget"
    /\ DelFollow(o)
    /\ IF cmd[o].kind = "Accept" /\ follow[o].style = "Public"
       THEN Step(o, "storeSubscriber") /\ UNCHANGED <<cmd, follow>>
       ELSE End(o)
    /\ UNCHANGED <<subs, fols, mutual, manual, seen, requestVars, requests, commands,
                   approved, open, stored, accepted, quiet, undone>>

StoreSubscriber(o) ==
    /\ opc[o] = "storeSubscriber"
    /\ \/ AddSubscriber(cmd[o].name, follow[o].id) /\ UNCHANGED faults
       \/ Fault /\ UNCHANGED <<subs, fols, mutual, stored>>
    /\ End(o)
    /\ UNCHANGED <<pending, manual, seen, requestVars, requests, commands,
                   approved, open, accepted, removed, quiet, undone>>

\* unfollowDomains: the record is selected from the snapshot of now, and its
\* absence is not looked at.
SelectReceiver(o) ==
    /\ opc[o] \in {"selectSubscriber", "selectFollower"}
    /\ LET known == IF opc[o] = "selectSubscriber" THEN seen[o].subs ELSE seen[o].fols
       IN  Step(o, IF cmd[o].name \notin known THEN "panic"
                   ELSE IF opc[o] = "selectSubscriber" THEN "delSubscriber" ELSE "delFollower")
    /\ UNCHANGED <<redisVars, seen, requestVars, cmd, follow, bounds, history>>

\* A Reject is queued and the record is deleted, then the pending request;
\* the domain is reported as unfollowed even if a deletion fails.
Unfollow(o) ==
    /\ opc[o] \in {"delSubscriber", "delFollower"}
    /\ \/ /\ opc[o] = "delSubscriber"
          /\ subs' = [subs EXCEPT ![cmd[o].name] = 0]
          /\ UNCHANGED <<fols, mutual, faults>>
       \/ /\ opc[o] = "delFollower"
          /\ fols' = [fols EXCEPT ![cmd[o].name] = 0]
          /\ mutual' = [mutual EXCEPT ![cmd[o].name] = FALSE]
          /\ UNCHANGED <<subs, faults>>
       \/ Fault /\ UNCHANGED <<subs, fols, mutual>>
    /\ Step(o, "delPending")
    /\ UNCHANGED <<pending, manual, seen, requestVars, cmd, follow, requests, commands, history>>

UnfollowPending(o) ==
    /\ opc[o] = "delPending"
    /\ \/ pending' = [pending EXCEPT ![cmd[o].name] = NoFollow] /\ UNCHANGED faults
       \/ Fault /\ UNCHANGED pending
    /\ End(o)
    /\ UNCHANGED <<subs, fols, mutual, manual, seen, requestVars, requests, commands, history>>

\* The API or a command dies between two steps.
Die ==
    /\ Fault
    /\ \/ \E r \in Request : rpc[r] # "idle" /\ Done(r) /\ UNCHANGED commandVars
       \/ \E o \in Operator : opc[o] \notin {"idle", "panic"} /\ End(o) /\ UNCHANGED requestVars
    /\ UNCHANGED <<redisVars, seen, requests, commands, history>>

-----------------------------------------------------------------------------
Inbox ==
    \E r \in Request :
        \/ \E kind \in Follows \cup Undos \cup Answers, n \in Actor : HandleInbox(r, kind, n)
        \/ ExecuteRejectRequest(r) \/ ExecuteFollowing(r) \/ StorePending(r)
        \/ StoreRecord(r) \/ AnswerFollower(r)
        \/ DelRecord(r) \/ DelPending(r) \/ FinalizeMutuallyFollow(r)

Control ==
    \E o \in Operator :
        \/ \E kind \in Answers \cup {"unfollow"}, n \in Name : Start(o, kind, n)
        \/ EditConfig(o)
        \/ ReadPending(o) \/ StoreFollower(o) \/ AnswerFollow(o)
        \/ ForgetFollow(o) \/ StoreSubscriber(o)
        \/ SelectReceiver(o) \/ Unfollow(o) \/ UnfollowPending(o)

Next == Inbox \/ Control \/ Die \/ \E p \in {"api"} \cup Operator : Load(p)

Spec == Init /\ [][Next]_vars

-----------------------------------------------------------------------------
(* Properties                                                              *)

\* Every variable has its type.
TypeOK ==
    /\ pending \in [Name -> [style : Style \cup {"none"}, id : 0..MaxRequests]]
    /\ subs \in [Name -> 0..MaxRequests]
    /\ fols \in [Name -> 0..MaxRequests]
    /\ mutual \in [Name -> BOOLEAN]
    /\ manual \in BOOLEAN
    /\ \A n \in Name : pending[n].id = 0 <=> pending[n].style = "none"
    /\ DOMAIN seen = {"api"} \cup Operator
    /\ requests \in 0..MaxRequests
    /\ commands \in 0..MaxCommands
    /\ faults \in 0..MaxFaults

\* No server receives without consent: a subscriber or follower stands for a
\* Follow that was handled while the API knew manual approval to be off, or
\* that an operator accepted -- whatever requests, commands, reloads and
\* deaths come in between (executeFollowing, createFollowRequestResponse).
\* Nor does a late answer of a former follower bring its record back
\* (finalizeMutuallyFollow).
ReceiversApproved ==
    \A n \in Name : /\ {subs[n], fols[n]} \subseteq {0} \cup open \cup approved
                    /\ mutual[n] => fols[n] # 0

\* An Undo is final: when an Undo has been handled, Redis carried out its two
\* deletions and no other request or command for the name overlapped it, the
\* name is not a receiver in that style and has no such pending request until
\* it sends a Follow again -- whatever fails later, and no accept command
\* brings it back (executeUnfollowing).
UndoIsFinal ==
    \A n \in Actor :
        /\ <<n, "Public">> \in undone => subs[n] = 0 /\ pending[n].style # "Public"
        /\ <<n, "Relay">> \in undone => fols[StateDomain[n]] = 0 /\ pending[n].style # "Relay"

\* An accepted request is not forgotten: a follower that is told Accept has
\* been recorded before, by the API and by the accept command, and what the
\* accept command took from the pending list has become a record.  For a
\* subscriber, whose record is stored last, this needs that the command is over
\* and nothing has failed.
AcceptNotForgotten ==
    /\ \A f \in accepted : f.style = "Relay" => f.id \in stored
    /\ \A f \in removed :
          \/ f.id \in stored
          \/ f.style = "Public" /\ (faults > 0 \/ \E o \in Operator : follow[o] = f)
==============================================================================
