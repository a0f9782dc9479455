--------------------------- MODULE ReceiverProofs ----------------------------
(****************************************************************************)
(* Proofs about how servers become receivers (Subscription) and what they   *)
(* are then sent (FanOut), for any number of requests, commands, actors and *)
(* records and for every value of the bounds.                               *)
(*                                                                          *)
(* Subscription: MoveStep and RecordStep say once what a step can do to the *)
(* places of requests and commands and to the stored records; the           *)
(* invariants follow from these instead of from each action.  SourceInv and *)
(* StoredInv carry where a record comes from, QuietInv, GoneInv and UndoInv *)
(* what an Undo that nothing overlaps, and whose deletions do not fail, has *)
(* achieved at each of its steps.                                           *)
(*                                                                          *)
(* FanOut: WorkInv says that the tasks of an activity, and the domains that *)
(* were refused, are those of the fan-outs made so far, all planned from    *)
(* one state of the cache; CheckInv, that they have got past the checks of  *)
(* the sender and the author.  The rest is what the choice of targets makes *)
(* of that state (DomainsCovered, OneTargetPerDomain).                      *)
(****************************************************************************)
EXTENDS Subscription, FanOut, WellFoundedInduction, TLAPS

\* Every function has its domain.
Shape ==
    /\ DOMAIN pending = Name /\ DOMAIN subs = Name /\ DOMAIN fols = Name /\ DOMAIN mutual = Name
    /\ DOMAIN rpc = Request /\ DOMAIN req = Request
    /\ DOMAIN opc = Operator /\ DOMAIN cmd = Operator /\ DOMAIN follow = Operator
    /\ faults \in Nat /\ quiet \subseteq Request

\* Where a request is tells what it asks, ...
RequestPlace(r) ==
    /\ rpc[r] # "idle" => req[r].name \in Actor
    /\ rpc[r] \in {"follow", "pend", "store", "answer"} => req[r].kind \in Follows
    /\ rpc[r] \in {"unfollow", "forget"} => req[r].kind \in Undos

\* ... and where a command is what it does.  It has read no Follow before it
\* has looked at the pending list.
CommandPlace(o) ==
    /\ opc[o] # "idle" => cmd[o].name \in Name
    /\ opc[o] \in {"read", "storeFollower", "answer", "forget", "storeSubscriber"} =>
          cmd[o].kind \in Answers /\ cmd[o].name \in Actor
    /\ opc[o] = "storeFollower" => cmd[o].kind = "Accept" /\ follow[o].style = "Relay"
    /\ opc[o] = "storeSubscriber" => cmd[o].kind = "Accept" /\ follow[o].style = "Public"
    /\ opc[o] \in {"idle", "read"} => follow[o] = NoFollow
    /\ follow[o].style \in {"Public", "Relay", "none"}

\* Only actors have pending requests.
PendingPlace(n) ==
    /\ pending[n].style \in {"Public", "Relay", "none"}
    /\ pending[n] # NoFollow => n \in Actor

PlaceInv ==
    /\ \A r \in Request : RequestPlace(r)
    /\ \A o \in Operator : CommandPlace(o)
    /\ \A n \in Name : PendingPlace(n)

\* What is about to become a record was handled without manual approval, or
\* accepted.
SourceInv ==
    /\ \A r \in Request : rpc[r] = "store" => req[r].id \in open
    /\ \A o \in Operator : opc[o] \in {"storeFollower", "answer", "forget", "storeSubscriber"}
                           /\ cmd[o].kind = "Accept" => follow[o].id \in approved

\* A follower is stored before it is answered, and what an accept command took
\* from the pending list is stored, or about to be.
StoredInv ==
    /\ \A r \in Request : rpc[r] = "answer" => req[r].id \in stored
    /\ \A o \in Operator :
          opc[o] \in {"answer", "forget"} /\ cmd[o].kind = "Accept" /\ follow[o].style = "Relay"
             => follow[o].id \in stored
    /\ \A f \in accepted : f.style = "Relay" => f.id \in stored
    /\ \A f \in removed :
          \/ f.id \in stored
          \/ /\ f.style = "Public"
             /\ faults > 0 \/ \E o \in Operator : opc[o] = "storeSubscriber" /\ follow[o] = f

\* Nothing else works for the name of a quiet request, ...
QuietInv ==
    \A r \in quiet : rpc[r] # "idle" =>
        /\ \A s \in Request \ {r} : rpc[s] # "idle" => req[s].name # req[r].name
        /\ \A o \in Operator : opc[o] # "idle" => cmd[o].name # req[r].name

\* ... so that its record is still gone when it deletes the pending request.
GoneInv ==
    \A r \in quiet : rpc[r] = "forget" =>
        /\ req[r].kind = "UndoPublic" => subs[req[r].name] = 0
        /\ req[r].kind = "UndoRelay" => fols[req[r].name] = 0

\* After a quiet Undo nothing that could make a record of the style is on its
\* way, until the next Follow.
Undone(n, style) ==
    /\ style = "Public" => subs[n] = 0
    /\ style = "Relay" => fols[n] = 0
    /\ pending[n].style # style
    /\ \A r \in Request : rpc[r] # "idle" /\ req[r].kind \in Follows /\ req[r].name = n
                             => StyleOf(req[r].kind) # style
    /\ \A o \in Operator : opc[o] # "idle" /\ cmd[o].kind = "Accept" /\ cmd[o].name = n
                             => follow[o].style # style
UndoInv == \A n \in Actor, style \in Style : <<n, style>> \in undone => Undone(n, style)

\* The hosts of actor IDs are in lower case.
LowerCase == \A n \in Actor : StateDomain[n] = n

-----------------------------------------------------------------------------
(* What a step can do                                                      *)

\* To a request: leave it alone, end it, or take it one step further.
RequestMove(r) ==
    \/ rpc'[r] = rpc[r] /\ req'[r] = req[r]
    \/ rpc'[r] = "idle"
    \/ \E kind \in Follows \cup Undos \cup Answers, n \in Actor : HandleInbox(r, kind, n)
    \/ ExecuteFollowing(r) \/ StoreRecord(r) \/ DelRecord(r)

\* To a command: the same.  When it ends an accepted subscriber is stored, or
\* something failed.
CommandMove(o) ==
    \/ opc'[o] = opc[o] /\ cmd'[o] = cmd[o] /\ follow'[o] = follow[o]
    \/ /\ opc'[o] = "idle" /\ follow'[o] = NoFollow
       /\ opc[o] = "storeSubscriber" => follow[o].id \in stored' \/ faults' > 0
    \/ \E kind \in Answers \cup {"unfollow"}, n \in Name : Start(o, kind, n)
    \/ ReadPending(o) \/ StoreFollower(o) \/ AnswerFollow(o) \/ ForgetFollow(o)
    \/ SelectReceiver(o) \/ Unfollow(o)

\* To the histories: add to them.
Grows ==
    /\ open \subseteq open' /\ approved \subseteq approved' /\ stored \subseteq stored'
    /\ faults > 0 => faults' > 0

Moves == Grows /\ (\A r \in Request : RequestMove(r)) /\ (\A o \in Operator : CommandMove(o))

\* Only r moves, or only o.
OnlyRequest(r) ==
    /\ Shape' /\ Grows
    /\ \A s \in Request \ {r} : rpc'[s] = rpc[s] /\ req'[s] = req[s]
    /\ \A o \in Operator : opc'[o] = opc[o] /\ cmd'[o] = cmd[o] /\ follow'[o] = follow[o]
OnlyCommand(o) ==
    /\ Shape' /\ Grows
    /\ \A r \in Request : rpc'[r] = rpc[r] /\ req'[r] = req[r]
    /\ \A p \in Operator \ {o} : opc'[p] = opc[p] /\ cmd'[p] = cmd[p] /\ follow'[p] = follow[p]

\* Every step keeps the domains and moves requests and commands as said.
LEMMA MoveStep ==
    ASSUME Shape, [Next]_vars
    PROVE  Shape' /\ Moves
<1> USE DEF redisVars, requestVars, commandVars, bounds, history, Goto, Done, Step, End
<1>r. ASSUME NEW r \in Request, OnlyRequest(r), RequestMove(r) PROVE Shape' /\ Moves
  BY <1>r, Zenon DEF OnlyRequest, Moves, RequestMove, CommandMove
<1>o. ASSUME NEW o \in Operator, OnlyCommand(o), CommandMove(o) PROVE Shape' /\ Moves
  BY <1>o, Zenon DEF OnlyCommand, Moves, RequestMove, CommandMove
<1>e. ASSUME NEW r \in Request, OnlyRequest(r), rpc'[r] = "idle" PROVE Shape' /\ Moves
  BY <1>e, <1>r, Zenon DEF RequestMove
<1>d. ASSUME NEW o \in Operator, OnlyCommand(o), opc'[o] = "idle", follow'[o] = NoFollow,
             opc[o] = "storeSubscriber" => follow[o].id \in stored' \/ faults' > 0
      PROVE  Shape' /\ Moves
  BY <1>d, <1>o, Zenon DEF CommandMove
<1>1. ASSUME NEW r \in Request, NEW kind \in Follows \cup Undos \cup Answers, NEW n \in Actor, HandleInbox(r, kind, n) PROVE Shape' /\ Moves
  <2>1. OnlyRequest(r)
    BY <1>1, Zenon DEF HandleInbox, OnlyRequest, Shape, Grows
  <2>2. QED
    BY <1>1, <2>1, <1>r, Zenon DEF RequestMove
<1>2. ASSUME NEW r \in Request, ExecuteRejectRequest(r) PROVE Shape' /\ Moves
  <2>1. OnlyRequest(r) /\ rpc'[r] = "idle"
    BY <1>2, Zenon DEF ExecuteRejectRequest, OnlyRequest, Shape, Grows
  <2>2. QED
    BY <1>2, <2>1, <1>e, Zenon
<1>3. ASSUME NEW r \in Request, ExecuteFollowing(r) PROVE Shape' /\ Moves
  <2>1. OnlyRequest(r)
    BY <1>3, Zenon DEF ExecuteFollowing, OnlyRequest, Shape, Grows
  <2>2. QED
    BY <1>3, <2>1, <1>r, Zenon DEF RequestMove
<1>4. ASSUME NEW r \in Request, StorePending(r) PROVE Shape' /\ Moves
  <2>1. OnlyRequest(r) /\ rpc'[r] = "idle"
    BY <1>4 DEF StorePending, Fault, OnlyRequest, Shape, Grows
  <2>2. QED
    BY <1>4, <2>1, <1>e, Zenon
<1>5. ASSUME NEW r \in Request, StoreRecord(r) PROVE Shape' /\ Moves
  <2>1. OnlyRequest(r)
    BY <1>5 DEF StoreRecord, AddSubscriber, AddFollowerChecked, Fault, OnlyRequest, Shape, Grows
  <2>2. QED
    BY <1>5, <2>1, <1>r, Zenon DEF RequestMove
<1>6. ASSUME NEW r \in Request, AnswerFollower(r) PROVE Shape' /\ Moves
  <2>1. OnlyRequest(r) /\ rpc'[r] = "idle"
    BY <1>6, Zenon DEF AnswerFollower, OnlyRequest, Shape, Grows
  <2>2. QED
    BY <1>6, <2>1, <1>e, Zenon
<1>7. ASSUME NEW r \in Request, DelRecord(r) PROVE Shape' /\ Moves
  <2>1. OnlyRequest(r)
    BY <1>7 DEF DelRecord, Fault, OnlyRequest, Shape, Grows
  <2>2. QED
    BY <1>7, <2>1, <1>r, Zenon DEF RequestMove
<1>8. ASSUME NEW r \in Request, DelPending(r) PROVE Shape' /\ Moves
  <2>1. OnlyRequest(r) /\ rpc'[r] = "idle"
    BY <1>8 DEF DelPending, Fault, OnlyRequest, Shape, Grows
  <2>2. QED
    BY <1>8, <2>1, <1>e, Zenon
<1>9. ASSUME NEW r \in Request, FinalizeMutuallyFollow(r) PROVE Shape' /\ Moves
  <2>1. OnlyRequest(r) /\ rpc'[r] = "idle"
    BY <1>9 DEF FinalizeMutuallyFollow, Fault, OnlyRequest, Shape, Grows
  <2>2. QED
    BY <1>9, <2>1, <1>e, Zenon
<1>10. ASSUME NEW o \in Operator, NEW kind \in Answers \cup {"unfollow"}, NEW n \in Name, Start(o, kind, n) PROVE Shape' /\ Moves
  <2>1. OnlyCommand(o)
    BY <1>10, Zenon DEF Start, OnlyCommand, Shape, Grows
  <2>2. QED
    BY <1>10, <2>1, <1>o, Zenon DEF CommandMove
<1>11. ASSUME NEW o \in Operator, ReadPending(o) PROVE Shape' /\ Moves
  <2>1. OnlyCommand(o)
    BY <1>11 DEF ReadPending, Fault, OnlyCommand, Shape, Grows
  <2>2. QED
    BY <1>11, <2>1, <1>o, Zenon DEF CommandMove
<1>12. ASSUME NEW o \in Operator, StoreFollower(o) PROVE Shape' /\ Moves
  <2>1. OnlyCommand(o)
    BY <1>12 DEF StoreFollower, AddFollowerChecked, Fault, OnlyCommand, Shape, Grows
  <2>2. QED
    BY <1>12, <2>1, <1>o, Zenon DEF CommandMove
<1>13. ASSUME NEW o \in Operator, AnswerFollow(o) PROVE Shape' /\ Moves
  <2>1. OnlyCommand(o)
    BY <1>13, Zenon DEF AnswerFollow, OnlyCommand, Shape, Grows
  <2>2. QED
    BY <1>13, <2>1, <1>o, Zenon DEF CommandMove
<1>14. ASSUME NEW o \in Operator, ForgetFollow(o) PROVE Shape' /\ Moves
  <2>1. OnlyCommand(o)
    BY <1>14 DEF ForgetFollow, DelFollow, Fault, OnlyCommand, Shape, Grows
  <2>2. QED
    BY <1>14, <2>1, <1>o, Zenon DEF CommandMove
<1>15. ASSUME NEW o \in Operator, StoreSubscriber(o) PROVE Shape' /\ Moves
  <2>1. OnlyCommand(o) /\ opc'[o] = "idle" /\ follow'[o] = NoFollow
        /\ (follow[o].id \in stored' \/ faults' > 0)
    BY <1>15 DEF StoreSubscriber, AddSubscriber, Fault, OnlyCommand, Shape, Grows
  <2>2. QED
    BY <1>15, <2>1, <1>d, Zenon
<1>16. ASSUME NEW o \in Operator, SelectReceiver(o) PROVE Shape' /\ Moves
  <2>1. OnlyCommand(o)
    BY <1>16, Zenon DEF SelectReceiver, OnlyCommand, Shape, Grows
  <2>2. QED
    BY <1>16, <2>1, <1>o, Zenon DEF CommandMove
<1>17. ASSUME NEW o \in Operator, Unfollow(o) PROVE Shape' /\ Moves
  <2>1. OnlyCommand(o)
    BY <1>17 DEF Unfollow, Fault, OnlyCommand, Shape, Grows
  <2>2. QED
    BY <1>17, <2>1, <1>o, Zenon DEF CommandMove
<1>18. ASSUME NEW o \in Operator, UnfollowPending(o) PROVE Shape' /\ Moves
  <2>1. OnlyCommand(o) /\ opc'[o] = "idle" /\ follow'[o] = NoFollow /\ opc[o] # "storeSubscriber"
    BY <1>18 DEF UnfollowPending, Fault, OnlyCommand, Shape, Grows
  <2>2. QED
    BY <1>18, <2>1, <1>d, Zenon
<1>20. CASE Die
  <2>1. faults' > 0
    BY <1>20 DEF Die, Fault, Shape
  <2>2. ASSUME NEW r \in Request, Done(r), UNCHANGED commandVars PROVE OnlyRequest(r) /\ rpc'[r] = "idle"
    BY <1>20, <2>1, <2>2 DEF Die, Fault, OnlyRequest, Shape, Grows
  <2>3. ASSUME NEW o \in Operator, End(o), UNCHANGED requestVars
        PROVE  OnlyCommand(o) /\ opc'[o] = "idle" /\ follow'[o] = NoFollow
    BY <1>20, <2>1, <2>3 DEF Die, Fault, OnlyCommand, Shape, Grows
  <2>4. QED
    BY <1>20, <1>e, <1>d, <2>1, <2>2, <2>3, Zenon DEF Die
<1>21. CASE (\E o \in Operator : EditConfig(o)) \/ (\E p \in {"api"} \cup Operator : Load(p)) \/ UNCHANGED vars
  BY <1>21, Zenon DEF EditConfig, Load, vars, Shape, Moves, Grows, RequestMove, CommandMove
<1>i. CASE Inbox
  BY <1>i, <1>1, <1>2, <1>3, <1>4, <1>5, <1>6, <1>7, <1>8, <1>9, Zenon DEF Inbox
<1>c. CASE Control
  BY <1>c, <1>21, <1>10, <1>11, <1>12, <1>13, <1>14, <1>15, <1>16, <1>17, <1>18, Zenon DEF Control
<1>q. QED
  BY <1>i, <1>c, <1>20, <1>21, Zenon DEF Next

\* To the records of a name: keep them, delete them, or store what a Follow or
\* an accept command brought.  No answer marks a follower that is not there.
Records(n) ==
    /\ \/ subs'[n] \in {subs[n], 0}
       \/ \E r \in Request : /\ rpc[r] = "store" /\ req[r].kind = "FollowPublic"
                             /\ req[r].name = n /\ subs'[n] = req[r].id
       \/ \E o \in Operator : /\ opc[o] = "storeSubscriber"
                              /\ cmd[o].name = n /\ subs'[n] = follow[o].id
    /\ \/ fols'[n] \in {fols[n], 0}
       \/ \E r \in Request : /\ rpc[r] = "store" /\ req[r].kind = "FollowRelay"
                             /\ StateDomain[req[r].name] = n /\ fols'[n] = req[r].id
       \/ \E o \in Operator : /\ opc[o] = "storeFollower"
                              /\ StateDomain[cmd[o].name] = n /\ fols'[n] = follow[o].id
    /\ mutual'[n] => (mutual[n] \/ fols[n] # 0) /\ fols'[n] = fols[n]
    /\ \/ pending'[n] \in {pending[n], NoFollow}
       \/ \E r \in Request : rpc[r] = "pend" /\ req[r].name = n /\ pending'[n] = FollowOf(r)

\* Every step writes only the records its request or command is at.
LEMMA RecordStep ==
    ASSUME Shape, [Next]_vars, NEW n \in Name
    PROVE  Records(n)
<1> USE DEF redisVars
<1>t. DOMAIN subs = Name /\ DOMAIN fols = Name /\ DOMAIN mutual = Name /\ DOMAIN pending = Name
  BY Zenon DEF Shape
<1>f. ASSUME UNCHANGED <<subs, fols, mutual, pending>> PROVE Records(n)
  BY <1>f, Zenon DEF Records
<1>1. ASSUME NEW r \in Request, StorePending(r) PROVE Records(n)
  BY <1>1, <1>t, Zenon DEF StorePending, Records
<1>2. ASSUME NEW r \in Request, StoreRecord(r) PROVE Records(n)
  <2>1. CASE AddSubscriber(req[r].name, req[r].id) /\ req[r].kind = "FollowPublic"
    BY <1>2, <1>t, <2>1, Zenon DEF StoreRecord, AddSubscriber, Records
  <2>2. CASE AddFollowerChecked(req[r].name, req[r].id) /\ req[r].kind = "FollowRelay"
    BY <1>2, <1>t, <2>2, Zenon DEF StoreRecord, AddFollowerChecked, Records
  <2>3. QED
    BY <1>2, <1>f, <2>1, <2>2, Zenon DEF StoreRecord
<1>3. ASSUME NEW r \in Request, DelRecord(r) PROVE Records(n)
  BY <1>3, <1>t, Zenon DEF DelRecord, Records
<1>4. ASSUME NEW r \in Request, DelPending(r) PROVE Records(n)
  BY <1>4, <1>t, Zenon DEF DelPending, Records
<1>5. ASSUME NEW r \in Request, FinalizeMutuallyFollow(r) PROVE Records(n)
  BY <1>5, <1>t, Zenon DEF FinalizeMutuallyFollow, Records
<1>6. ASSUME NEW o \in Operator, StoreFollower(o) PROVE Records(n)
  BY <1>6, <1>t, Zenon DEF StoreFollower, AddFollowerChecked, Records
<1>7. ASSUME NEW o \in Operator, ForgetFollow(o) PROVE Records(n)
  BY <1>7, <1>t, Zenon DEF ForgetFollow, DelFollow, Records
<1>8. ASSUME NEW o \in Operator, StoreSubscriber(o) PROVE Records(n)
  BY <1>8, <1>t, Zenon DEF StoreSubscriber, AddSubscriber, Records
<1>9. ASSUME NEW o \in Operator, Unfollow(o) PROVE Records(n)
  BY <1>9, <1>t, Zenon DEF Unfollow, Records
<1>10. ASSUME NEW o \in Operator, UnfollowPending(o) PROVE Records(n)
  BY <1>10, <1>t, Zenon DEF UnfollowPending, Records
<1>11. ASSUME NEW r \in Request, NEW kind, NEW m,
              HandleInbox(r, kind, m) \/ ExecuteRejectRequest(r) \/ ExecuteFollowing(r) \/ AnswerFollower(r)
       PROVE  Records(n)
  BY <1>11, <1>f, Zenon DEF HandleInbox, ExecuteRejectRequest, ExecuteFollowing, AnswerFollower
<1>12. ASSUME NEW o \in Operator, NEW kind, NEW m,
              Start(o, kind, m) \/ EditConfig(o) \/ ReadPending(o) \/ AnswerFollow(o) \/ SelectReceiver(o)
       PROVE  Records(n)
  BY <1>12, <1>f, Zenon DEF Start, EditConfig, ReadPending, AnswerFollow, SelectReceiver
<1>13. CASE Die \/ (\E p \in {"api"} \cup Operator : Load(p)) \/ UNCHANGED vars
  BY <1>13, <1>f, Zenon DEF Die, Load, vars
<1>q. QED
  BY <1>1, <1>2, <1>3, <1>4, <1>5, <1>6, <1>7, <1>8, <1>9, <1>10, <1>11, <1>12, <1>13, Zenon
     DEF Next, Inbox, Control

-----------------------------------------------------------------------------
(* The invariants are kept                                                 *)

\* Requests and commands stay where their kind belongs.
LEMMA PlaceStep ==
    ASSUME Shape, PlaceInv, [Next]_vars
    PROVE  PlaceInv'
<1> USE DEF requestVars, commandVars, Goto, Done, Step, End
<1>m. Shape' /\ Moves
  BY MoveStep, Zenon
<1>1. ASSUME NEW r \in Request PROVE RequestPlace(r)'
  <2>0. RequestPlace(r) /\ RequestMove(r) /\ DOMAIN rpc = Request /\ DOMAIN req = Request
    BY <1>m, Zenon DEF PlaceInv, Moves, Shape
  <2>1. CASE rpc'[r] = "idle" \/ (rpc'[r] = rpc[r] /\ req'[r] = req[r])
    BY <2>0, <2>1, Zenon DEF RequestPlace
  <2>2. ASSUME NEW kind \in Follows \cup Undos \cup Answers, NEW n \in Actor, HandleInbox(r, kind, n)
        PROVE  RequestPlace(r)'
    BY <2>0, <2>2, Zenon DEF HandleInbox, RequestPlace, Follows, Undos, Answers
  <2>3. CASE ExecuteFollowing(r) \/ StoreRecord(r) \/ DelRecord(r)
    BY <2>0, <2>3, Zenon DEF ExecuteFollowing, StoreRecord, DelRecord, RequestPlace
  <2>4. QED
    BY <2>0, <2>1, <2>2, <2>3, Zenon DEF RequestMove
<1>2. ASSUME NEW o \in Operator PROVE CommandPlace(o)'
  <2>0. CommandPlace(o) /\ CommandMove(o) /\ DOMAIN opc = Operator /\ DOMAIN cmd = Operator /\ DOMAIN follow = Operator
    BY <1>m, Zenon DEF PlaceInv, Moves, Shape
  <2>1. CASE \/ opc'[o] = "idle" /\ follow'[o] = NoFollow
             \/ opc'[o] = opc[o] /\ cmd'[o] = cmd[o] /\ follow'[o] = follow[o]
    BY <2>0, <2>1 DEF CommandPlace, NoFollow
  <2>2. ASSUME NEW kind \in Answers \cup {"unfollow"}, NEW n \in Name, Start(o, kind, n)
        PROVE  CommandPlace(o)'
    <3>1. PendingPlace(n)
      BY Zenon DEF PlaceInv
    <3>2. QED
      BY <2>0, <2>2, <3>1, Zenon DEF Start, CommandPlace, PendingPlace
  <2>3. CASE ReadPending(o)
    <3>1. PendingPlace(cmd[o].name) /\ cmd[o].name \in Actor /\ cmd[o].kind \in Answers
      BY <2>0, <2>3, SubscriptionAssumption, Zenon DEF PlaceInv, CommandPlace, ReadPending
    <3>2. QED
      BY <2>0, <2>3, <3>1, SubscriptionAssumption, Zenon DEF ReadPending, CommandPlace, PendingPlace
  <2>4. CASE StoreFollower(o)
    BY <2>0, <2>4 DEF StoreFollower, CommandPlace, NoFollow
  <2>5. CASE AnswerFollow(o)
    BY <2>0, <2>5, Zenon DEF AnswerFollow, CommandPlace
  <2>6. CASE ForgetFollow(o)
    BY <2>0, <2>6 DEF ForgetFollow, CommandPlace, NoFollow
  <2>7. CASE SelectReceiver(o) \/ Unfollow(o)
    BY <2>0, <2>7, Zenon DEF SelectReceiver, Unfollow, CommandPlace
  <2>8. QED
    BY <2>0, <2>1, <2>2, <2>3, <2>4, <2>5, <2>6, <2>7, Zenon DEF CommandMove
<1>3. ASSUME NEW n \in Name PROVE PendingPlace(n)'
  <2>1. Records(n) /\ PendingPlace(n)
    BY RecordStep, Zenon DEF PlaceInv
  <2>2. CASE pending'[n] \in {pending[n], NoFollow}
    BY <2>1, <2>2 DEF PendingPlace, NoFollow
  <2>3. ASSUME NEW r \in Request, rpc[r] = "pend", req[r].name = n, pending'[n] = FollowOf(r)
        PROVE  PendingPlace(n)'
    BY <2>3 DEF PlaceInv, RequestPlace, PendingPlace, FollowOf, StyleOf
  <2>4. QED
    BY <2>1, <2>2, <2>3, Zenon DEF Records
<1>4. QED
  BY <1>1, <1>2, <1>3, Zenon DEF PlaceInv

\* Every step keeps where records come from.
LEMMA SourceStep ==
    ASSUME Shape, PlaceInv, SourceInv, [Next]_vars
    PROVE  SourceInv'
<1> USE DEF requestVars, commandVars, Goto, Done, Step, End
<1>m. Moves
  BY MoveStep, Zenon
<1>1. ASSUME NEW r \in Request, rpc'[r] = "store" PROVE req'[r].id \in open'
  <2>1. CASE rpc'[r] = rpc[r] /\ req'[r] = req[r]
    BY <1>1, <1>m, <2>1, Zenon DEF Moves, Grows, SourceInv
  <2>2. CASE ExecuteFollowing(r)
    BY <1>1, <2>2, Zenon DEF ExecuteFollowing, Shape
  <2>3. ~StoreRecord(r) /\ ~DelRecord(r)
    BY <1>1, Zenon DEF StoreRecord, DelRecord, Shape
  <2>4. ASSUME NEW kind \in Follows \cup Undos \cup Answers, NEW n PROVE ~HandleInbox(r, kind, n)
    BY <1>1, Zenon DEF HandleInbox, Shape, Follows, Undos, Answers
  <2>5. QED
    BY <1>1, <1>m, <2>1, <2>2, <2>3, <2>4, Zenon DEF Moves, RequestMove
<1>2. ASSUME NEW o \in Operator, cmd'[o].kind = "Accept",
             opc'[o] \in {"storeFollower", "answer", "forget", "storeSubscriber"}
      PROVE  follow'[o].id \in approved'
  <2>1. CASE ReadPending(o)
    BY <1>2, <2>1, Zenon DEF ReadPending, Shape
  <2>2. CASE StoreFollower(o) \/ AnswerFollow(o) \/ ForgetFollow(o)
    BY <1>2, <2>2, ZenonT(60) DEF StoreFollower, AnswerFollow, ForgetFollow, AddFollowerChecked, Shape, SourceInv
  <2>3. ASSUME NEW kind, NEW n PROVE ~Start(o, kind, n)
    BY <1>2, Zenon DEF Start, Shape
  <2>4. ~SelectReceiver(o) /\ ~Unfollow(o)
    BY <1>2, Zenon DEF SelectReceiver, Unfollow, Shape
  <2>5. CASE opc'[o] = opc[o] /\ cmd'[o] = cmd[o] /\ follow'[o] = follow[o]
    BY <1>2, <1>m, <2>5, Zenon DEF Moves, Grows, SourceInv
  <2>6. QED
    BY <1>2, <1>m, <2>1, <2>2, <2>3, <2>4, <2>5, Zenon DEF Moves, CommandMove
<1>3. QED
  BY <1>1, <1>2, Zenon DEF SourceInv

\* Every step makes receivers only of approved Follows.
LEMMA ApprovedStep ==
    ASSUME Shape, PlaceInv, SourceInv, ReceiversApproved, [Next]_vars
    PROVE  ReceiversApproved'
<1> SUFFICES ASSUME NEW n \in Name
             PROVE  /\ {subs'[n], fols'[n]} \subseteq {0} \cup open' \cup approved'
                    /\ mutual'[n] => fols'[n] # 0
  BY Zenon DEF ReceiversApproved
<1>1. Records(n) /\ Grows
  BY MoveStep, RecordStep, Zenon DEF Moves
<1>2. /\ {subs[n], fols[n]} \subseteq {0} \cup open \cup approved
      /\ mutual[n] => fols[n] # 0
  BY Zenon DEF ReceiversApproved
<1>3. /\ \A r \in Request : rpc[r] = "store" => req[r].id \in open
      /\ \A o \in Operator : opc[o] \in {"storeFollower", "storeSubscriber"} => follow[o].id \in approved
  BY Zenon DEF SourceInv, PlaceInv, CommandPlace
<1>4. subs'[n] \in {0} \cup open' \cup approved'
  BY <1>1, <1>2, <1>3, Zenon DEF Records, Grows
<1>5. fols'[n] \in {0} \cup open' \cup approved'
  BY <1>1, <1>2, <1>3, Zenon DEF Records, Grows
<1>6. mutual'[n] => fols'[n] # 0
  BY <1>1, <1>2, Zenon DEF Records
<1>7. QED
  BY <1>4, <1>5, <1>6, Zenon

\* Every step keeps what was accepted stored.
LEMMA StoredStep ==
    ASSUME Shape, PlaceInv, StoredInv, [Next]_vars
    PROVE  StoredInv'
<1> USE DEF requestVars, commandVars, history, Goto, Done, Step, End
<1>m. Moves /\ Grows
  BY MoveStep, Zenon DEF Moves
<1>h. /\ \/ accepted' = accepted
         \/ \E r \in Request : ExecuteFollowing(r) \/ AnswerFollower(r)
         \/ \E o \in Operator : AnswerFollow(o)
      /\ removed' = removed \/ \E o \in Operator : ForgetFollow(o)
  <2>1. ASSUME NEW r \in Request, NEW kind, NEW n,
               \/ HandleInbox(r, kind, n) \/ ExecuteRejectRequest(r) \/ StorePending(r) \/ StoreRecord(r)
               \/ DelRecord(r) \/ DelPending(r) \/ FinalizeMutuallyFollow(r)
        PROVE  UNCHANGED <<accepted, removed>>
    BY <2>1, Zenon DEF HandleInbox, ExecuteRejectRequest, StorePending, StoreRecord, DelRecord, DelPending,
                       FinalizeMutuallyFollow
  <2>2. ASSUME NEW o \in Operator, NEW kind, NEW n,
               \/ Start(o, kind, n) \/ EditConfig(o) \/ ReadPending(o) \/ StoreFollower(o)
               \/ StoreSubscriber(o) \/ SelectReceiver(o) \/ Unfollow(o) \/ UnfollowPending(o)
        PROVE  UNCHANGED <<accepted, removed>>
    BY <2>2, Zenon DEF Start, EditConfig, ReadPending, StoreFollower, StoreSubscriber, SelectReceiver, Unfollow,
                       UnfollowPending
  <2>3. ASSUME NEW r \in Request, ExecuteFollowing(r) \/ AnswerFollower(r) PROVE UNCHANGED removed
    BY <2>3, Zenon DEF ExecuteFollowing, AnswerFollower
  <2>4. ASSUME NEW o \in Operator
        PROVE  /\ AnswerFollow(o) => UNCHANGED removed
               /\ ForgetFollow(o) => UNCHANGED accepted
    BY Zenon DEF AnswerFollow, ForgetFollow
  <2>5. CASE Die \/ (\E p \in {"api"} \cup Operator : Load(p)) \/ UNCHANGED vars
    BY <2>5, Zenon DEF Die, Load, vars
  <2>6. QED
    BY <2>1, <2>2, <2>3, <2>4, <2>5, Zenon DEF Next, Inbox, Control
<1>1. ASSUME NEW r \in Request, rpc'[r] = "answer" PROVE req'[r].id \in stored'
  <2>1. CASE rpc'[r] = rpc[r] /\ req'[r] = req[r]
    BY <1>1, <1>m, <2>1, Zenon DEF Grows, StoredInv
  <2>2. CASE StoreRecord(r)
    BY <1>1, <2>2, Zenon DEF StoreRecord, AddFollowerChecked, Shape
  <2>3. ~ExecuteFollowing(r) /\ ~DelRecord(r)
    BY <1>1, Zenon DEF ExecuteFollowing, DelRecord, Shape
  <2>4. ASSUME NEW kind \in Follows \cup Undos \cup Answers, NEW n PROVE ~HandleInbox(r, kind, n)
    BY <1>1, Zenon DEF HandleInbox, Shape, Follows, Undos, Answers
  <2>5. QED
    BY <1>1, <1>m, <2>1, <2>2, <2>3, <2>4, Zenon DEF Moves, RequestMove
<1>2. ASSUME NEW o \in Operator, cmd'[o].kind = "Accept", follow'[o].style = "Relay", opc'[o] \in {"answer", "forget"}
      PROVE  follow'[o].id \in stored'
  <2>1. CASE StoreFollower(o)
    BY <1>2, <2>1, Zenon DEF StoreFollower, AddFollowerChecked, Shape
  <2>2. CASE AnswerFollow(o)
    BY <1>2, <2>2, Zenon DEF AnswerFollow, Shape, StoredInv
  <2>3. ASSUME NEW kind, NEW n PROVE ~Start(o, kind, n)
    BY <1>2, Zenon DEF Start, Shape
  <2>4. ~ReadPending(o) /\ ~ForgetFollow(o) /\ ~SelectReceiver(o) /\ ~Unfollow(o)
    BY <1>2, Zenon DEF ReadPending, ForgetFollow, SelectReceiver, Unfollow, Shape
  <2>5. CASE opc'[o] = opc[o] /\ cmd'[o] = cmd[o] /\ follow'[o] = follow[o]
    BY <1>2, <1>m, <2>5, ZenonT(60) DEF Grows, StoredInv
  <2>6. QED
    BY <1>2, <1>m, <2>1, <2>2, <2>3, <2>4, <2>5, Zenon DEF Moves, CommandMove
<1>3. ASSUME NEW f \in accepted', f.style = "Relay" PROVE f.id \in stored'
  <2>1. CASE f \in accepted
    BY <1>3, <1>m, <2>1, Zenon DEF Grows, StoredInv
  <2>2. ASSUME NEW r \in Request, ExecuteFollowing(r) PROVE f \in accepted
    BY <1>3, <2>2 DEF ExecuteFollowing, FollowOf, StyleOf
  <2>3. ASSUME NEW r \in Request, AnswerFollower(r), f \notin accepted PROVE f.id \in stored'
    BY <1>3, <2>3 DEF AnswerFollower, FollowOf, StoredInv
  <2>4. ASSUME NEW o \in Operator, AnswerFollow(o), f \notin accepted PROVE f.id \in stored'
    BY <1>3, <2>4 DEF AnswerFollow, StoredInv
  <2>5. QED
    BY <1>h, <2>1, <2>2, <2>3, <2>4, Zenon
<1>4. ASSUME NEW f \in removed'
      PROVE  \/ f.id \in stored'
             \/ /\ f.style = "Public"
                /\ faults' > 0 \/ \E o \in Operator : opc'[o] = "storeSubscriber" /\ follow'[o] = f
  <2>2. CASE f \in removed
    <3>1. CASE f.id \in stored \/ (f.style = "Public" /\ faults > 0)
      BY <1>m, <3>1, Zenon DEF Grows
    <3>2. ASSUME NEW o \in Operator, opc[o] = "storeSubscriber", follow[o] = f, f.style = "Public",
                 opc'[o] # "storeSubscriber" \/ follow'[o] # f
          PROVE  f.id \in stored' \/ faults' > 0
      <4>1. ~ReadPending(o) /\ ~StoreFollower(o) /\ ~AnswerFollow(o) /\ ~ForgetFollow(o)
            /\ ~SelectReceiver(o) /\ ~Unfollow(o) /\ \A kind, n : ~Start(o, kind, n)
        BY <3>2, Zenon DEF Start, ReadPending, StoreFollower, AnswerFollow, ForgetFollow, SelectReceiver, Unfollow
      <4>2. QED
        BY <1>m, <3>2, <4>1, Zenon DEF Moves, CommandMove
    <3>3. QED
      BY <2>2, <3>1, <3>2, Zenon DEF StoredInv
  <2>3. ASSUME NEW o \in Operator, ForgetFollow(o), f \notin removed
        PROVE  \/ f.id \in stored'
               \/ f.style = "Public" /\ opc'[o] = "storeSubscriber" /\ follow'[o] = f
    <3>1. cmd[o].kind = "Accept" /\ f = follow[o] /\ follow[o].style \in {"Public", "Relay"}
      BY <1>4, <2>3, Zenon DEF ForgetFollow, DelFollow, PlaceInv, CommandPlace
    <3>2. QED
      BY <2>3, <3>1, ZenonT(60) DEF ForgetFollow, Shape, StoredInv
  <2>4. QED
    BY <1>h, <2>2, <2>3, Zenon
<1>5. QED
  BY <1>1, <1>2, <1>3, <1>4, Zenon DEF StoredInv

\* A step other than the start of a request or a command: who is at work after
\* it was so before, with the same request or command.
Continues ==
    /\ \A r \in Request : rpc'[r] # "idle" =>
          /\ rpc[r] # "idle" /\ req'[r] = req[r]
          /\ rpc'[r] = "forget" => rpc[r] = "forget" \/ DelRecord(r)
    /\ \A o \in Operator : opc'[o] # "idle" =>
          /\ opc[o] # "idle" /\ cmd'[o] = cmd[o]
          /\ follow'[o] = follow[o] \/ ReadPending(o)
    /\ quiet' \subseteq quiet
    /\ undone' = undone \/ \E r \in Request : DelPending(r)

\* A step that begins no request and no command continues those there are.
LEMMA Continue ==
    ASSUME Shape, [Next]_vars
    PROVE  \/ Continues
           \/ \E r \in Request, kind \in Follows \cup Undos \cup Answers, n \in Actor : HandleInbox(r, kind, n)
           \/ \E o \in Operator, kind \in Answers \cup {"unfollow"}, n \in Name : Start(o, kind, n)
<1> SUFFICES ASSUME \A r \in Request, kind \in Follows \cup Undos \cup Answers, n \in Actor : ~HandleInbox(r, kind, n),
                    \A o \in Operator, kind \in Answers \cup {"unfollow"}, n \in Name : ~Start(o, kind, n)
             PROVE  Continues
  BY Zenon
<1>m. Moves
  BY MoveStep, Zenon
<1>1. ASSUME NEW r \in Request, rpc'[r] # "idle"
      PROVE  /\ rpc[r] # "idle" /\ req'[r] = req[r]
             /\ rpc'[r] = "forget" => rpc[r] = "forget" \/ DelRecord(r)
  <2>1. \/ rpc'[r] = rpc[r] /\ req'[r] = req[r]
        \/ ExecuteFollowing(r) \/ StoreRecord(r) \/ DelRecord(r)
    BY <1>1, <1>m, Zenon DEF Moves, RequestMove
  <2>2. QED
    BY <1>1, <2>1, Zenon DEF ExecuteFollowing, StoreRecord, DelRecord, Goto, Done, Shape
<1>2. ASSUME NEW o \in Operator, opc'[o] # "idle"
      PROVE  /\ opc[o] # "idle" /\ cmd'[o] = cmd[o]
             /\ follow'[o] = follow[o] \/ ReadPending(o)
  <2>1. \/ opc'[o] = opc[o] /\ cmd'[o] = cmd[o] /\ follow'[o] = follow[o]
        \/ ReadPending(o) \/ StoreFollower(o) \/ AnswerFollow(o) \/ ForgetFollow(o)
        \/ SelectReceiver(o) \/ Unfollow(o)
    BY <1>2, <1>m, Zenon DEF Moves, CommandMove
  <2>2. QED
    BY <1>2, <2>1, Zenon DEF ReadPending, StoreFollower, AnswerFollow, ForgetFollow, SelectReceiver, Unfollow, Step, End, Shape
<1>3. quiet' \subseteq quiet /\ (undone' = undone \/ \E r \in Request : DelPending(r))
  BY ZenonT(60) DEF history, Next, Inbox, Control, vars, ExecuteRejectRequest, ExecuteFollowing, StorePending,
         StoreRecord, AnswerFollower, DelRecord, DelPending, FinalizeMutuallyFollow, EditConfig, ReadPending,
         StoreFollower, AnswerFollow, ForgetFollow, StoreSubscriber, SelectReceiver, Unfollow, UnfollowPending,
         Die, Load
<1>4. QED
  BY <1>1, <1>2, <1>3, Zenon DEF Continues

\* Every step keeps quiet requests alone.
LEMMA QuietStep ==
    ASSUME Shape, QuietInv, [Next]_vars
    PROVE  QuietInv'
<1>1. CASE Continues
  <2>1. quiet' \subseteq quiet /\ quiet \subseteq Request
    BY <1>1, Zenon DEF Continues, Shape
  <2>2. QED
    <3> SUFFICES ASSUME NEW r \in quiet, r \in Request, rpc'[r] # "idle"
                 PROVE  /\ \A s \in Request \ {r} : rpc'[s] # "idle" => req'[s].name # req'[r].name
                        /\ \A o \in Operator : opc'[o] # "idle" => cmd'[o].name # req'[r].name
      BY <2>1, Zenon DEF QuietInv
    <3>1. rpc[r] # "idle" /\ req'[r] = req[r]
      BY <1>1, Zenon DEF Continues
    <3>2. ASSUME NEW s \in Request \ {r}, rpc'[s] # "idle" PROVE req'[s].name # req'[r].name
      <4>1. rpc[s] # "idle" /\ req'[s] = req[s]
        BY <1>1, <3>2, Zenon DEF Continues
      <4>2. QED
        BY <3>1, <4>1, Zenon DEF QuietInv
    <3>3. ASSUME NEW o \in Operator, opc'[o] # "idle" PROVE cmd'[o].name # req'[r].name
      <4>1. opc[o] # "idle" /\ cmd'[o] = cmd[o]
        BY <1>1, <3>3, Zenon DEF Continues
      <4>2. QED
        BY <3>1, <4>1, Zenon DEF QuietInv
    <3>4. QED
      BY <3>2, <3>3, Zenon
<1>2. ASSUME NEW r \in Request, NEW kind, NEW n, HandleInbox(r, kind, n) PROVE QuietInv'
  <2>1. /\ \A s \in Request \ {r} : rpc'[s] = rpc[s] /\ req'[s] = req[s]
        /\ req'[r].name = n /\ UNCHANGED <<opc, cmd>>
    BY <1>2, Zenon DEF HandleInbox, Goto, Shape, commandVars
  <2>2. CASE Busy(r, n)
    <3>1. quiet' = {s \in quiet \ {r} : req[s].name # n} /\ quiet \subseteq Request
      BY <1>2, <2>2, Zenon DEF HandleInbox, Shape
    <3>2. ASSUME NEW s \in quiet', rpc'[s] # "idle"
          PROVE  s \in quiet /\ s \in Request \ {r} /\ rpc[s] # "idle" /\ req'[s] = req[s] /\ req[s].name # n
      BY <2>1, <3>1, <3>2, Zenon
    <3>3. ASSUME NEW s \in quiet', rpc'[s] # "idle", NEW t \in Request \ {s}, rpc'[t] # "idle"
          PROVE  req'[t].name # req'[s].name
      BY <2>1, <3>2, <3>3, ZenonT(60) DEF QuietInv
    <3>4. ASSUME NEW s \in quiet', rpc'[s] # "idle", NEW o \in Operator, opc'[o] # "idle"
          PROVE  cmd'[o].name # req'[s].name
      BY <2>1, <3>2, <3>4, ZenonT(60) DEF QuietInv
    <3>5. QED
      BY <3>3, <3>4, Zenon DEF QuietInv
  <2>3. CASE ~Busy(r, n)
    BY <1>2, <2>1, <2>3 DEF HandleInbox, Busy, QuietInv, Shape
  <2>4. QED
    BY <2>2, <2>3, Zenon
<1>3. ASSUME NEW o \in Operator, NEW kind, NEW n, Start(o, kind, n) PROVE QuietInv'
  <2>1. /\ \A p \in Operator \ {o} : opc'[p] = opc[p] /\ cmd'[p] = cmd[p]
        /\ cmd'[o].name = n /\ UNCHANGED <<rpc, req>>
    BY <1>3, Zenon DEF Start, Step, Shape, requestVars
  <2>2. QED
    <3>1. quiet' = {r \in quiet : req[r].name # n} /\ quiet \subseteq Request
      BY <1>3, Zenon DEF Start, Shape
    <3>2. QED
      BY <2>1, <3>1, ZenonT(60) DEF QuietInv
<1>4. QED
  BY <1>1, <1>2, <1>3, Continue, Zenon

\* What a quiet request has deleted stays deleted until it ends.
LEMMA GoneStep ==
    ASSUME LowerCase, Shape, PlaceInv, QuietInv, GoneInv, [Next]_vars
    PROVE  GoneInv'
<1> SUFFICES ASSUME NEW r \in quiet', rpc'[r] = "forget"
             PROVE  /\ req'[r].kind = "UndoPublic" => subs'[req'[r].name] = 0
                    /\ req'[r].kind = "UndoRelay" => fols'[req'[r].name] = 0
  BY Zenon DEF GoneInv
<1>1. CASE Continues
  <2>1. r \in quiet /\ r \in Request /\ req'[r] = req[r] /\ rpc[r] # "idle" /\ req[r].name \in Actor
    BY <1>1, Zenon DEF Continues, Shape, PlaceInv, RequestPlace
  <2>2. CASE DelRecord(r)
    BY <2>1, <2>2, SubscriptionAssumption DEF DelRecord, Shape
  <2>3. CASE rpc[r] = "forget"
    <3>1. Records(req[r].name)
      BY <2>1, RecordStep, SubscriptionAssumption, Zenon
    <3>2. /\ ~\E s \in Request : rpc[s] = "store" /\ req[s].name = req[r].name
          /\ ~\E o \in Operator : opc[o] \in {"storeSubscriber", "storeFollower"} /\ cmd[o].name = req[r].name
      BY <2>1, <2>3, Zenon DEF QuietInv
    <3>n. /\ \A s \in Request : rpc[s] = "store" => StateDomain[req[s].name] = req[s].name
          /\ \A o \in Operator : opc[o] = "storeFollower" => StateDomain[cmd[o].name] = cmd[o].name
      BY Zenon DEF PlaceInv, RequestPlace, CommandPlace, LowerCase
    <3>3. QED
      BY <2>1, <2>3, <3>1, <3>2, <3>n, ZenonT(60) DEF Records, GoneInv
  <2>4. QED
    BY <1>1, <2>1, <2>2, <2>3, Zenon DEF Continues
<1>2. ASSUME NEW s \in Request, NEW kind \in Follows \cup Undos \cup Answers, NEW n, HandleInbox(s, kind, n)
      PROVE  r \in quiet /\ rpc[r] = "forget" /\ req'[r] = req[r] /\ UNCHANGED <<subs, fols>>
  BY <1>2, Zenon DEF HandleInbox, Goto, redisVars, Shape, Follows, Undos, Answers
<1>3. ASSUME NEW o \in Operator, NEW kind, NEW n, Start(o, kind, n)
      PROVE  r \in quiet /\ rpc[r] = "forget" /\ req'[r] = req[r] /\ UNCHANGED <<subs, fols>>
  BY <1>3, Zenon DEF Start, requestVars, redisVars
<1>4. ASSUME r \in quiet, rpc[r] = "forget", req'[r] = req[r], UNCHANGED <<subs, fols>>
      PROVE  /\ req'[r].kind = "UndoPublic" => subs'[req'[r].name] = 0
             /\ req'[r].kind = "UndoRelay" => fols'[req'[r].name] = 0
  BY <1>4, Zenon DEF GoneInv
<1>5. QED
  BY <1>1, <1>2, <1>3, <1>4, Continue, Zenon

\* What was undone stays so until the next Follow.
LEMMA UndoStep ==
    ASSUME LowerCase, Shape, PlaceInv, QuietInv, GoneInv, UndoInv, [Next]_vars
    PROVE  UndoInv'
<1> SUFFICES ASSUME NEW m \in Actor, NEW style \in Style, <<m, style>> \in undone'
             PROVE  Undone(m, style)'
  BY Zenon DEF UndoInv
<1>t. m \in Name /\ style \in {"Public", "Relay"} /\ NoFollow.style = "none"
  BY SubscriptionAssumption, Zenon DEF Style, NoFollow
<1>0. <<m, style>> \in undone => Undone(m, style)
  BY Zenon DEF UndoInv
<1>1. CASE Continues /\ Undone(m, style)
  <2>1. Records(m)
    BY <1>t, RecordStep, Zenon
  <2>n. /\ \A r \in Request : rpc[r] = "store" => StateDomain[req[r].name] = req[r].name
        /\ \A o \in Operator : opc[o] = "storeFollower" => StateDomain[cmd[o].name] = cmd[o].name
    BY Zenon DEF PlaceInv, RequestPlace, CommandPlace, LowerCase
  <2>2. /\ \A r \in Request : rpc[r] \in {"pend", "store"} /\ req[r].name = m => StyleOf(req[r].kind) # style
        /\ ~\E o \in Operator : opc[o] = "storeSubscriber" /\ cmd[o].name = m /\ style = "Public"
        /\ ~\E o \in Operator : opc[o] = "storeFollower" /\ cmd[o].name = m /\ style = "Relay"
    BY <1>1, Zenon DEF Undone, PlaceInv, RequestPlace, CommandPlace
  <2>3. style = "Public" => subs'[m] = 0
    BY <1>1, <2>1, <2>2, Zenon DEF Records, Undone, StyleOf
  <2>4. style = "Relay" => fols'[m] = 0
    BY <1>1, <2>1, <2>2, <2>n, Zenon DEF Records, Undone, StyleOf
  <2>5. pending'[m].style # style
    <3>1. ASSUME NEW r \in Request, rpc[r] = "pend", req[r].name = m, pending'[m] = FollowOf(r)
          PROVE  pending'[m].style # style
      <4>1. FollowOf(r).style = StyleOf(req[r].kind)
        BY DEF FollowOf
      <4>2. StyleOf(req[r].kind) # style
        BY <3>1, <2>2, Zenon
      <4>3. QED
        BY <3>1, <4>1, <4>2, Zenon
    <3>2. QED
      BY <1>1, <1>t, <2>1, <3>1, Zenon DEF Records, Undone
  <2>6. ASSUME NEW o \in Operator, opc'[o] # "idle", cmd'[o].kind = "Accept", cmd'[o].name = m
        PROVE  follow'[o].style # style
    <3>1. opc[o] # "idle" /\ cmd'[o] = cmd[o] /\ (follow'[o] = follow[o] \/ ReadPending(o))
      BY <1>1, <2>6, Zenon DEF Continues
    <3>2. CASE ReadPending(o)
      BY <1>1, <2>6, <3>1, <3>2, Zenon DEF ReadPending, End, Step, Undone, Shape
    <3>3. QED
      BY <1>1, <2>6, <3>1, <3>2, Zenon DEF Undone
  <2>7. QED
    BY <1>1, <2>3, <2>4, <2>5, <2>6, Zenon DEF Continues, Undone
<1>2. ASSUME NEW r \in Request, DelPending(r), <<m, style>> \notin undone PROVE Undone(m, style)'
  <2>1. r \in quiet /\ m = req[r].name /\ style = StyleOf(req[r].kind) /\ req[r].kind \in Undos
    <3>1. rpc[r] = "forget" /\ <<m, style>> \in QuietUndo(r)
      BY <1>2, Zenon DEF DelPending
    <3>2. r \in quiet /\ <<m, style>> = <<req[r].name, StyleOf(req[r].kind)>>
      BY <3>1, Zenon DEF QuietUndo
    <3>3. QED
      BY <3>1, <3>2 DEF PlaceInv, RequestPlace
  <2>2. style = "Public" => subs'[m] = 0
    BY <1>2, <2>1, Zenon DEF DelPending, GoneInv, StyleOf, Undos
  <2>3. style = "Relay" => fols'[m] = 0
    BY <1>2, <2>1, Zenon DEF DelPending, GoneInv, StyleOf, Undos
  <2>4. pending'[m].style # style
    BY <1>2, <1>t, <2>1, Zenon DEF DelPending, Shape
  <2>5. \A s \in Request : rpc'[s] # "idle" => req'[s].name # m
    BY <1>2, <2>1, Zenon DEF DelPending, Done, Goto, Shape, QuietInv
  <2>6. \A o \in Operator : opc'[o] # "idle" => cmd'[o].name # m
    BY <1>2, <2>1, Zenon DEF DelPending, commandVars, QuietInv
  <2>7. QED
    BY <2>2, <2>3, <2>4, <2>5, <2>6, Zenon DEF Undone
<1>3. ASSUME NEW r \in Request, NEW kind, NEW n, HandleInbox(r, kind, n) PROVE Undone(m, style)'
  <2>1. <<m, style>> \in undone /\ (kind \in Follows /\ n = m => StyleOf(kind) # style)
    BY <1>3, Zenon DEF HandleInbox
  <2>2. QED
    BY <1>0, <1>3, <2>1, Zenon DEF HandleInbox, Goto, redisVars, commandVars, Undone, Shape
<1>4. ASSUME NEW o \in Operator, NEW kind, NEW n, Start(o, kind, n) PROVE Undone(m, style)'
  <2>1. follow'[o] = NoFollow /\ UNCHANGED <<redisVars, requestVars, follow, undone>>
        /\ \A p \in Operator \ {o} : opc'[p] = opc[p] /\ cmd'[p] = cmd[p]
    BY <1>4, Zenon DEF Start, Step, PlaceInv, CommandPlace, Shape
  <2>2. QED
    BY <1>0, <1>t, <2>1, Zenon DEF redisVars, requestVars, Undone
<1>5. QED
  BY <1>0, <1>1, <1>2, <1>3, <1>4, Continue, Zenon DEF Continues


-----------------------------------------------------------------------------
(* The theorems                                                            *)

Inv == Shape /\ PlaceInv /\ SourceInv /\ StoredInv /\ ReceiversApproved

\* The invariant holds in every behaviour of requests and commands.
LEMMA Inductive == Spec => []Inv
<1>1. Init => Inv
  <2> SUFFICES ASSUME Init PROVE Inv
    OBVIOUS
  <2>1. Shape
    BY SubscriptionAssumption, Zenon DEF Init, Shape
  <2>2. PlaceInv /\ SourceInv /\ StoredInv /\ ReceiversApproved
    BY Zenon DEF Init, NoFollow, PlaceInv, RequestPlace, CommandPlace, PendingPlace, SourceInv, StoredInv, ReceiversApproved
  <2>3. QED
    BY <2>1, <2>2, Zenon DEF Inv
<1>2. Inv /\ [Next]_vars => Inv'
  BY MoveStep, PlaceStep, SourceStep, StoredStep, ApprovedStep, Zenon DEF Inv
<1>3. QED
  BY <1>1, <1>2, PTL DEF Spec

\* No server receives without consent (executeFollowing,
\* createFollowRequestResponse): its record stands for a Follow that was handled
\* without manual approval or that an operator accepted.  The spellings of
\* names may be normalised in any way.
THEOREM ReceiversAreApproved == Spec => []ReceiversApproved
<1>1. Inv => ReceiversApproved
  BY Zenon DEF Inv
<1>2. QED
  BY <1>1, Inductive, PTL

\* An accepted request is not forgotten: a follower that is told Accept is
\* stored, and what the accept command took from the pending list is or will be,
\* unless something failed.
THEOREM AcceptsAreKept == Spec => []AcceptNotForgotten
<1>1. Inv => AcceptNotForgotten
  BY Zenon DEF Inv, StoredInv, AcceptNotForgotten
<1>2. QED
  BY <1>1, Inductive, PTL

UndoneInv == QuietInv /\ GoneInv /\ UndoInv

\* When the hosts of actor IDs are in lower case, an Undo that nothing overlapped
\* and whose deletions Redis carried out is final (executeUnfollowing): until the
\* next Follow the name is no receiver in that style, and no accept command makes
\* it one, whatever fails later.
THEOREM UndosAreFinal == ASSUME LowerCase PROVE Spec => []UndoIsFinal
<1>1. Init => UndoneInv
  BY Zenon DEF Init, UndoneInv, QuietInv, GoneInv, UndoInv
<1>2. Inv /\ UndoneInv /\ [Next]_vars => UndoneInv'
  BY QuietStep, GoneStep, UndoStep, Zenon DEF Inv, UndoneInv
<1>3. UndoneInv => UndoIsFinal
  BY Zenon DEF UndoneInv, UndoInv, Undone, UndoIsFinal, LowerCase, Style
<1>4. QED
  BY <1>1, <1>2, <1>3, Inductive, PTL DEF Spec

-----------------------------------------------------------------------------
(* The choice of targets                                                   *)

\* A set of numbers that is not empty has a least one.
LEMMA Least ==
    ASSUME NEW T, T \subseteq Nat, T # {}
    PROVE  \E x \in T : \A y \in T : ~(y < x)
<1>1. IsWellFoundedOn({ss \in Nat \X Nat : ss[1] < ss[2]}, Nat)
  BY NatLessThanWellFounded DEF OpToRel
<1>2. \E x \in T : \A y \in T : ~(<<y, x>> \in {ss \in Nat \X Nat : ss[1] < ss[2]})
  BY <1>1, WFMin, ZenonT(30)
<1>3. QED
  BY <1>2, ZenonT(30)

\* An entry is known by its key and the kind of its record.
Listed(entries) ==
    /\ \A e \in entries : e.name \in Key /\ e.style \in {"subscriber", "follower"}
    /\ \A d, e \in entries : d.name = e.name /\ d.style = e.style => d = e

\* The two lists, and the list that Load makes of them, are of that kind.
LEMMA ListsAreListed ==
    ASSUME NEW c
    PROVE  Listed(Subscribers(c)) /\ Listed(Followers(c)) /\ Listed(SubscribersAndFollowers(c))
<1>1. \A e \in Subscribers(c) : /\ e.name \in Key /\ e.style = "subscriber"
                                /\ e = [name |-> e.name, style |-> "subscriber", inbox |-> c.subs[e.name]]
  BY DEF Subscribers, Entries
<1>2. \A e \in Followers(c) : /\ e.name \in Key /\ e.style = "follower"
                              /\ e = [name |-> e.name, style |-> "follower", inbox |-> c.fols[e.name]]
  BY DEF Followers, Entries
<1>3. "subscriber" # "follower"
  OBVIOUS
<1> QED
  BY <1>1, <1>2, <1>3, Zenon DEF Listed, SubscribersAndFollowers

\* Of some entries of one kind, one comes first.
LEMMA FirstOfStyle ==
    ASSUME NEW S, \A e \in S : e.name \in Key, S # {}
    PROVE  \E e \in S : \A d \in S : ~(Rank[d.name] < Rank[e.name])
<1> DEFINE T == {Rank[e.name] : e \in S}
<1>0. \A e \in S : Rank[e.name] \in Nat
  BY FanOutAssumption, Zenon
<1>1. T \subseteq Nat /\ T # {}
  BY <1>0, Zenon
<1>2. PICK x \in T : \A y \in T : ~(y < x)
  BY <1>1, Least, Zenon
<1> QED
  BY <1>2

\* Every domain with an entry that is not passed over has a target.
LEMMA DomainsCovered ==
    ASSUME NEW entries, Listed(entries), NEW excluded
    PROVE  Domains(Targets(entries, excluded)) = Domains({e \in entries : Eligible(e, excluded)})
<1>1. ASSUME NEW e \in entries, Eligible(e, excluded)
      PROVE  \E d \in Targets(entries, excluded) : SameDomain(d, e)
  <2> DEFINE S(style) == {d \in entries : Eligible(d, excluded) /\ SameDomain(d, e) /\ d.style = style}
  <2>1. CASE S("subscriber") # {}
    <3>1. PICK d \in S("subscriber") : \A f \in S("subscriber") : ~(Rank[f.name] < Rank[d.name])
      <4>1. \A f \in S("subscriber") : f.name \in Key
        BY Zenon DEF Listed
      <4> QED
        BY <2>1, <4>1, FirstOfStyle, Zenon
    <3>2. ASSUME NEW f \in entries, Eligible(f, excluded), SameDomain(f, d), Before(f, d) PROVE FALSE
      <4>1. f.style = "subscriber" /\ Rank[f.name] < Rank[d.name]
        BY <3>2 DEF Before
      <4>2. SameDomain(f, e)
        BY <3>2, Zenon DEF SameDomain
      <4> QED
        BY <3>1, <3>2, <4>1, <4>2, Zenon
    <3> QED
      BY <3>2, Zenon DEF Targets
  <2>2. CASE S("subscriber") = {}
    <3>0. S("follower") # {}
      <4>1. e.style \in {"subscriber", "follower"} /\ SameDomain(e, e)
        BY Zenon DEF Listed, SameDomain
      <4> QED
        BY <1>1, <2>2, <4>1, Zenon
    <3>1. PICK d \in S("follower") : \A f \in S("follower") : ~(Rank[f.name] < Rank[d.name])
      <4>1. \A f \in S("follower") : f.name \in Key
        BY Zenon DEF Listed
      <4> QED
        BY <3>0, <4>1, FirstOfStyle, Zenon
    <3>2. ASSUME NEW f \in entries, Eligible(f, excluded), SameDomain(f, d), Before(f, d) PROVE FALSE
      <4>1. SameDomain(f, e)
        BY <3>2, Zenon DEF SameDomain
      <4>2. f.style # "subscriber"
        BY <2>2, <3>2, <4>1, Zenon
      <4>3. f.style = "follower" /\ Rank[f.name] < Rank[d.name]
        BY <3>2, <4>2, Zenon DEF Before
      <4> QED
        BY <3>1, <3>2, <4>1, <4>3, Zenon
    <3> QED
      BY <3>2, Zenon DEF Targets
  <2> QED
    BY <2>1, <2>2, Zenon
<1>2. \A e \in Targets(entries, excluded) : e \in entries /\ Eligible(e, excluded)
  BY Zenon DEF Targets
<1> QED
  BY <1>1, <1>2, Zenon DEF Domains, SameDomain

\* ... and only one.
LEMMA OneTargetPerDomain ==
    ASSUME NEW entries, Listed(entries), NEW excluded,
           NEW d \in Targets(entries, excluded), NEW e \in Targets(entries, excluded), SameDomain(d, e)
    PROVE  d = e
<1>1. /\ d \in entries /\ e \in entries /\ Eligible(d, excluded) /\ Eligible(e, excluded)
      /\ SameDomain(e, d) /\ ~Before(d, e) /\ ~Before(e, d)
  BY Zenon DEF Targets, SameDomain
<1>2. d.name \in Key /\ e.name \in Key /\ {d.style, e.style} \subseteq {"subscriber", "follower"}
  BY <1>1, Zenon DEF Listed
<1>3. d.style = e.style
  BY <1>1, <1>2, Zenon DEF Before
<1>4. Rank[d.name] = Rank[e.name]
  <2>1. Rank[d.name] \in Nat /\ Rank[e.name] \in Nat
    BY <1>2, FanOutAssumption, Zenon
  <2>2. ~(Rank[d.name] < Rank[e.name]) /\ ~(Rank[e.name] < Rank[d.name])
    BY <1>1, <1>3, Zenon DEF Before
  <2> QED
    BY <2>1, <2>2
<1> QED
  BY <1>1, <1>2, <1>3, <1>4, FanOutAssumption, Zenon DEF Listed

-----------------------------------------------------------------------------
(* The handler and its fan-outs                                            *)

\* The activity is one that is relayed.
Relayable ==
    \/ Route(activity) \in {"relay", "embedded"}
    \/ Route(activity) = "announce" /\ activity.object = "url"

\* The handler follows the route of its activity.
PathInv ==
    /\ pc = "announce" => Route(activity) = "announce"
    /\ pc \in {"relay", "embedded", "account", "plan"} => Relayable

\* The fan-outs that a relayed activity gets, from the state c.
Fanouts(c) ==
    IF Route(activity) = "relay" THEN Plan(c, activity)
    ELSE {Fixed(SubscribersAndFollowers(c), {activity.actor, Author}, "announce")}

Chosen(j) == Targets(j.entries, j.excluded)

\* The task of a fan-out for an entry.
TaskOf(j, e) == [to |-> e, body |-> j.body]

\* Nothing was handed to a goroutine yet.
Nothing == jobs = {} /\ tasks = {} /\ refused = {} /\ snap = {}

\* The fan-outs of D were made: there are tasks for their targets, or these were
\* refused.
Made(D) ==
    /\ \A t \in tasks : \E j \in D : \E e \in Chosen(j) : t = TaskOf(j, e)
    /\ Served \cup refused = UNION {Domains(Chosen(j)) : j \in D}

\* A fan-out waits for the goroutine to read the state, or all are planned from
\* one state and some of them were made.
WorkInv ==
    \/ Nothing
    \/ /\ pc = "done" /\ Relayable
       /\ \/ /\ Route(activity) # "relay" /\ jobs = {Late({activity.actor, Author})}
             /\ tasks = {} /\ refused = {} /\ snap = {}
          \/ \E c \in Caches : \E D \in SUBSET Fanouts(c) :
                snap = {c} /\ jobs = Fanouts(c) \ D /\ Made(D)

\* The activity has got past the check of its sender, or past that of its author.
SenderChecked == pc \in {"relay", "embedded", "account", "plan"} \/ ~Nothing
AuthorChecked == pc \in {"account", "plan"} \/ ~Nothing

\* What the checks find in the cache is remembered, and the activity went on only
\* if they found it.
CheckInv ==
    /\ pc # "idle" => /\ activity.actor \in Receivers(cache) => activity.actor \in known
                      /\ cache.status[Author] = "free" => Author \in free
    /\ Route(activity) = "announce" /\ SenderChecked => activity.actor \in known
    /\ AuthorChecked => Author \in free

FanOutInv == cache \in Caches /\ PathInv /\ WorkInv

\* What a route says of an activity.
LEMMA Routes ==
    /\ Route(activity) \in {"relay", "embedded"} => Allows(activity)
    /\ Route(activity) = "embedded" => activity.object = "own"
    /\ Route(activity) = "announce" => activity.addressed /\ activity.type = "Announce"
    /\ Route(activity) # "announce" => Author = activity.actor
BY Zenon DEF Route, Author, AuthorOf

\* After the dispatch the route and the author of the activity stay.
LEMMA RouteSteady ==
    ASSUME UNCHANGED <<policy, activity>>
    PROVE  /\ Route(activity)' = Route(activity) /\ Author' = Author
           /\ Relayable' <=> Relayable
           /\ \A c : Fanouts(c)' = Fanouts(c)
<1>1. Route(activity)' = Route(activity)
  BY Zenon DEF Route, Allows
<1>2. Author' = Author
  BY <1>1, Zenon DEF Author, AuthorOf
<1> QED
  BY <1>1, <1>2, Zenon DEF Relayable, Fanouts

\* The fan-out is made from a list that was read with the plan.
PlannedAs(j, entries, excluded, body) == j = Fixed(entries, excluded, body)

\* A planned fan-out has the list it is made from.
LEMMA FixedFields ==
    ASSUME NEW entries, NEW excluded, NEW body, NEW j, PlannedAs(j, entries, excluded, body)
    PROVE  j.entries = entries /\ j.excluded = excluded /\ j.body = body /\ ~j.late
BY DEF PlannedAs, Fixed

\* One that is not planned has none.
LEMMA LateFields ==
    ASSUME NEW excluded
    PROVE  Late(excluded).excluded = excluded /\ Late(excluded).body = "announce" /\ Late(excluded).late
BY DEF Late

\* The fields of a task.
LEMMA TaskFields ==
    ASSUME NEW j, NEW e
    PROVE  TaskOf(j, e).to = e /\ TaskOf(j, e).body = j.body
BY DEF TaskOf

\* Targets of a fan-out get tasks, others are refused.
Offers(targets, j) ==
    \/ \E planned \in SUBSET targets :
          /\ tasks' = tasks \cup {TaskOf(j, t) : t \in planned}
          /\ refused' = refused \cup Domains(targets \ planned)
    \/ refused' = refused \cup Domains(targets) /\ UNCHANGED tasks

\* What a fan-out adds.
LEMMA FanOutAdds ==
    ASSUME NEW targets, NEW j,
           Offers(targets, j)
    PROVE  /\ \A t \in tasks' : t \in tasks \/ \E e \in targets : t = TaskOf(j, e)
           /\ Served' \cup refused' = (Served \cup refused) \cup Domains(targets)
<1>1. CASE \E planned \in SUBSET targets :
              /\ tasks' = tasks \cup {TaskOf(j, t) : t \in planned}
              /\ refused' = refused \cup Domains(targets \ planned)
  <2>1. PICK planned \in SUBSET targets :
              /\ tasks' = tasks \cup {TaskOf(j, t) : t \in planned}
              /\ refused' = refused \cup Domains(targets \ planned)
    BY <1>1, Zenon
  <2>2. \A t \in tasks' : t \in tasks \/ \E e \in planned : t = TaskOf(j, e)
    BY <2>1, Zenon
  <2>3. tasks \subseteq tasks' /\ \A e \in planned : TaskOf(j, e) \in tasks'
    BY <2>1, Zenon
  <2>4. Served' = Served \cup Domains(planned)
    <3>1. ASSUME NEW x \in Served' PROVE x \in Served \cup Domains(planned)
      <4>1. PICK t \in tasks' : x = Domain[t.to.name]
        BY <3>1, Zenon DEF Served
      <4>2. CASE t \in tasks
        BY <4>1, <4>2, Zenon DEF Served
      <4>3. ASSUME NEW e \in planned, t = TaskOf(j, e) PROVE x \in Domains(planned)
        <5>1. t.to = e
          BY <4>3, TaskFields, Zenon
        <5> QED
          BY <4>1, <5>1, Zenon DEF Domains
      <4> QED
        BY <2>2, <4>2, <4>3, Zenon
    <3>2. ASSUME NEW e \in planned PROVE Domain[e.name] \in Served'
      <4>1. TaskOf(j, e) \in tasks' /\ TaskOf(j, e).to = e
        BY <2>3, TaskFields, Zenon
      <4> QED
        BY <4>1, Zenon DEF Served
    <3>3. Served \subseteq Served'
      BY <2>3, Zenon DEF Served
    <3> QED
      BY <3>1, <3>2, <3>3, Zenon DEF Domains
  <2>5. Domains(targets) = Domains(planned) \cup Domains(targets \ planned)
    BY <2>1, Zenon DEF Domains
  <2> QED
    BY <2>1, <2>2, <2>4, <2>5, Zenon
<1>2. CASE refused' = refused \cup Domains(targets) /\ UNCHANGED tasks
  BY <1>2, Zenon DEF Served
<1> QED
  BY <1>1, <1>2, Zenon DEF Offers

-----------------------------------------------------------------------------
(* The steps keep the invariant                                            *)

\* A reload leaves a cache.
LEMMA ReloadType ==
    ASSUME cache \in Caches, Reload
    PROVE  cache' \in Caches
BY DEF Reload, Caches, Record, Status

\* A fan-out is made from a list read when the goroutine runs.
LEMMA LateStep ==
    ASSUME cache \in Caches, Route(activity) # "relay",
           jobs = {Late({activity.actor, Author})}, tasks = {}, refused = {}, pc = "done", Relayable,
           NEW j \in jobs, EnqueueActivityExcept(j)
    PROVE  WorkInv'
<1>0. PICK c \in Caches : c = cache
  BY Zenon
<1>1. PICK F : F = Fixed(SubscribersAndFollowers(c), {activity.actor, Author}, "announce")
  BY Zenon
<1>2. j.late /\ j.excluded = {activity.actor, Author} /\ j.body = "announce"
  BY LateFields, Zenon
<1>3. F.entries = SubscribersAndFollowers(c) /\ F.excluded = j.excluded /\ F.body = j.body
  <2>1. F.entries = SubscribersAndFollowers(c) /\ F.excluded = {activity.actor, Author} /\ F.body = "announce"
    <3>1. PlannedAs(F, SubscribersAndFollowers(c), {activity.actor, Author}, "announce")
      BY <1>1, Zenon DEF PlannedAs
    <3> QED
      BY <3>1, FixedFields
  <2> QED
    BY <1>2, <2>1, Zenon
<1>4. Fanouts(c) = {F}
  BY <1>1, Zenon DEF Fanouts
<1> DEFINE targets == Targets(SubscribersAndFollowers(c), j.excluded)
<1>5. Chosen(F) = targets /\ \A e : TaskOf(F, e) = TaskOf(j, e)
  BY <1>3, Zenon DEF Chosen, TaskOf
<1>6. /\ \A t \in tasks' : t \in tasks \/ \E e \in targets : t = TaskOf(j, e)
      /\ Served' \cup refused' = (Served \cup refused) \cup Domains(targets)
  <2>1. Offers(targets, j)
    BY <1>0, <1>2, Zenon DEF EnqueueActivityExcept, TaskOf, Offers
  <2> HIDE DEF targets
  <2> QED
    BY <2>1, FanOutAdds, Zenon
<1> HIDE DEF targets
<1>7. snap' = {c} /\ jobs' = {} /\ UNCHANGED <<policy, activity, pc>>
  BY <1>0, <1>2, Zenon DEF EnqueueActivityExcept
<1>8. Relayable' /\ Fanouts(c)' = {F}
  BY <1>4, <1>7, RouteSteady, Zenon
<1>9. Made({F})'
  <2>1. Served = {}
    BY Zenon DEF Served
  <2>2. Domains(targets) = UNION {Domains(Chosen(i)) : i \in {F}}
    BY <1>5, Zenon
  <2>3. \A t \in tasks' : \E i \in {F} : \E e \in Chosen(i) : t = TaskOf(i, e)
    BY <1>5, <1>6, ZenonT(60)
  <2>4. Served' \cup refused' = UNION {Domains(Chosen(i)) : i \in {F}}
    BY <1>6, <2>1, <2>2, Zenon
  <2> QED
    BY <2>3, <2>4, Zenon DEF Made
<1>10. {F} \in SUBSET Fanouts(c)' /\ jobs' = Fanouts(c)' \ {F}
  BY <1>7, <1>8, Zenon
<1> QED
  BY <1>7, <1>8, <1>9, <1>10, Zenon DEF WorkInv

\* A fan-out that was planned is made.
LEMMA FixedStep ==
    ASSUME pc = "done", Relayable,
           NEW c \in Caches, NEW D \in SUBSET Fanouts(c),
           snap = {c}, jobs = Fanouts(c) \ D, Made(D),
           NEW j \in jobs, EnqueueActivityExcept(j)
    PROVE  WorkInv'
<1>1. ~j.late
  <2>1. \E entries, excluded, body : PlannedAs(j, entries, excluded, body)
    BY Zenon DEF Fanouts, Plan, PlannedAs
  <2> QED
    BY <2>1, FixedFields
<1> DEFINE targets == Targets(j.entries, j.excluded)
           E == D \cup {j}
<1>2. /\ \A t \in tasks' : t \in tasks \/ \E e \in targets : t = TaskOf(j, e)
      /\ Served' \cup refused' = (Served \cup refused) \cup Domains(targets)
  <2>1. Offers(targets, j)
    BY <1>1, Zenon DEF EnqueueActivityExcept, TaskOf, Offers
  <2> HIDE DEF targets, E
  <2> QED
    BY <2>1, FanOutAdds, Zenon
<1>3. snap' = {c} /\ jobs' = jobs \ {j} /\ UNCHANGED <<policy, cache, activity, pc>>
  BY <1>1, Zenon DEF EnqueueActivityExcept
<1>4. UNCHANGED <<policy, activity>>
  BY <1>3, Zenon
<1>5. Relayable' /\ Fanouts(c)' = Fanouts(c)
  BY <1>4, RouteSteady, Zenon
<1>6. targets = Chosen(j)
  BY Zenon DEF Chosen
<1> HIDE DEF targets
<1>7. Made(E)'
  <2>1. \A t \in tasks' : \E i \in E : \E e \in Chosen(i) : t = TaskOf(i, e)
    <3>1. \A t \in tasks : \E i \in E : \E e \in Chosen(i) : t = TaskOf(i, e)
      BY Zenon DEF Made
    <3>2. \A t \in tasks' : t \in tasks \/ \E e \in Chosen(j) : t = TaskOf(j, e)
      BY <1>2, <1>6, Zenon
    <3>3. j \in E
      BY Zenon
    <3> HIDE DEF E
    <3> QED
      BY <3>1, <3>2, <3>3, Zenon
  <2>2. UNION {Domains(Chosen(i)) : i \in E} = (UNION {Domains(Chosen(i)) : i \in D}) \cup Domains(Chosen(j))
    BY Zenon
  <2>3. Served' \cup refused' = UNION {Domains(Chosen(i)) : i \in E}
    BY <1>2, <1>6, <2>2, Zenon DEF Made
  <2> HIDE DEF E
  <2> QED
    BY <2>1, <2>3, Zenon DEF Made
<1>8. E \in SUBSET Fanouts(c)' /\ jobs' = Fanouts(c)' \ E
  BY <1>3, <1>5, Zenon
<1> HIDE DEF E
<1> QED
  BY <1>3, <1>5, <1>7, <1>8, Zenon DEF WorkInv

\* A step that leaves the fan-outs alone keeps what is said of them.
LEMMA WorkSteady ==
    ASSUME WorkInv, UNCHANGED <<policy, activity, pc, jobs, tasks, snap, refused>>
    PROVE  WorkInv'
<1>1. UNCHANGED <<policy, activity>>
  BY Zenon
<1>2. Route(activity)' = Route(activity) /\ Author' = Author /\ (Relayable' <=> Relayable)
      /\ \A c : Fanouts(c)' = Fanouts(c)
  BY <1>1, RouteSteady, Zenon
<1>3. \A D : Made(D)' <=> Made(D)
  BY Zenon DEF Made, Served
<1> QED
  BY <1>2, <1>3, Zenon DEF WorkInv, Nothing

\* Every step keeps the invariant.
LEMMA FanOutStep ==
    ASSUME FanOutInv, [FanOutNext]_fanOutVars
    PROVE  FanOutInv'
<1> USE DEF FanOutInv
<1>1. ASSUME NEW a \in Activity, DispatchActivity(a) PROVE FanOutInv'
  <2>1. pc = "idle" /\ activity' = a /\ pc' = Route(a) /\ UNCHANGED <<policy, cache, jobs, tasks, snap, refused>>
    BY <1>1, Zenon DEF DispatchActivity
  <2>2. pc' = Route(activity)'
    BY <2>1, Zenon DEF Route, Allows
  <2>3. Nothing
    BY <2>1 DEF WorkInv
  <2>4. Nothing'
    BY <2>1, <2>3, Zenon DEF Nothing
  <2>5. Route(activity)' \in {"relay", "embedded", "record", "announce", "done"}
    BY Zenon DEF Route
  <2>6. PathInv'
    BY <2>2, <2>5 DEF PathInv, Relayable
  <2> QED
    BY <2>1, <2>4, <2>6, Zenon DEF WorkInv
<1>2. CASE AnnounceFromReceiver \/ CheckSender \/ RecordPublisherActivity
  <2>1. /\ pc \in {"announce", "relay", "embedded", "account", "record"}
        /\ UNCHANGED <<policy, cache, activity, jobs, tasks, snap, refused>>
    BY <1>2 DEF AnnounceFromReceiver, CheckSender, RecordPublisherActivity
  <2>2. Nothing'
    <3>1. Nothing
      BY <2>1 DEF WorkInv
    <3> QED
      BY <2>1, <3>1, Zenon DEF Nothing
  <2>3. UNCHANGED <<policy, activity>>
    BY <2>1, Zenon
  <2>4. Route(activity)' = Route(activity) /\ (Relayable' <=> Relayable)
    BY <2>3, RouteSteady, Zenon
  <2>5. \/ pc' = "done"
        \/ pc = "announce" /\ activity.object = "url" /\ pc' = "relay"
        \/ pc \in {"relay", "embedded"} /\ pc' = "account"
        \/ pc = "account" /\ pc' = "plan"
    BY <1>2 DEF AnnounceFromReceiver, CheckSender, RecordPublisherActivity
  <2>6. pc' # "announce" /\ (pc' # "done" => Relayable)
    BY <2>5 DEF PathInv, Relayable
  <2>7. PathInv'
    BY <2>4, <2>6 DEF PathInv
  <2> QED
    BY <2>1, <2>2, <2>7, Zenon DEF WorkInv
<1>3. CASE ExecuteRelayActivity
  <2>1. /\ pc = "plan" /\ Route(activity) = "relay" /\ jobs' = Plan(cache, activity) /\ snap' = {cache}
        /\ pc' = "done" /\ UNCHANGED <<policy, cache, activity, tasks, refused>>
    BY <1>3, Zenon DEF ExecuteRelayActivity
  <2>2. Relayable /\ Nothing
    BY <2>1 DEF WorkInv, PathInv
  <2>3. UNCHANGED <<policy, activity>>
    BY <2>1, Zenon
  <2>4. Relayable' /\ Fanouts(cache)' = Plan(cache, activity)
    BY <2>1, <2>2, <2>3, RouteSteady, Zenon DEF Fanouts
  <2>5. Made({})'
    BY <2>1, <2>2, Zenon DEF Made, Nothing, Served
  <2>6. {} \in SUBSET Fanouts(cache)' /\ jobs' = Fanouts(cache)' \ {}
    BY <2>1, <2>4, Zenon
  <2>7. WorkInv'
    BY <2>1, <2>4, <2>5, <2>6, Zenon DEF WorkInv
  <2>8. PathInv'
    BY <2>1 DEF PathInv
  <2> QED
    BY <2>1, <2>7, <2>8, Zenon
<1>4. CASE AnnounceToAll
  <2>1. /\ pc = "plan" /\ Route(activity) \in {"embedded", "announce"}
        /\ jobs' = {Late({activity.actor, Author})}
        /\ pc' = "done" /\ UNCHANGED <<policy, cache, activity, tasks, snap, refused>>
    BY <1>4, Zenon DEF AnnounceToAll
  <2>2. Relayable /\ Nothing
    BY <2>1 DEF WorkInv, PathInv
  <2>3. UNCHANGED <<policy, activity>>
    BY <2>1, Zenon
  <2>4. Relayable' /\ Route(activity)' # "relay" /\ Author' = Author
    BY <2>1, <2>2, <2>3, RouteSteady
  <2>5. jobs' = {Late({activity'.actor, Author'})}
    BY <2>1, <2>4, Zenon
  <2>6. WorkInv'
    BY <2>1, <2>2, <2>4, <2>5, Zenon DEF WorkInv, Nothing
  <2>7. PathInv'
    BY <2>1 DEF PathInv
  <2> QED
    BY <2>1, <2>6, <2>7, Zenon
<1>5. ASSUME NEW j \in jobs, EnqueueActivityExcept(j) PROVE FanOutInv'
  <2>1. UNCHANGED <<policy, activity, cache, pc>>
    BY <1>5, Zenon DEF EnqueueActivityExcept
  <2>2. PathInv'
    <3>1. UNCHANGED <<policy, activity>>
      BY <2>1, Zenon
    <3> QED
      BY <2>1, <3>1, RouteSteady, Zenon DEF PathInv
  <2>3. WorkInv'
    <3>1. CASE Nothing
      BY <3>1, Zenon DEF Nothing
    <3>2. CASE /\ pc = "done" /\ Relayable
               /\ Route(activity) # "relay" /\ jobs = {Late({activity.actor, Author})}
               /\ tasks = {} /\ refused = {} /\ snap = {}
      BY <1>5, <3>2, LateStep, Zenon
    <3>3. CASE /\ pc = "done" /\ Relayable
               /\ \E c \in Caches : \E D \in SUBSET Fanouts(c) :
                     snap = {c} /\ jobs = Fanouts(c) \ D /\ Made(D)
      BY <1>5, <3>3, FixedStep, Zenon
    <3> QED
      BY <3>1, <3>2, <3>3, Zenon DEF WorkInv
  <2> QED
    BY <2>1, <2>2, <2>3, Zenon
<1>6. CASE Reload \/ UNCHANGED fanOutVars
  <2>1. UNCHANGED <<policy, activity, pc, jobs, tasks, snap, refused>>
    BY <1>6, Zenon DEF Reload, fanOutVars
  <2>2. cache' \in Caches
    BY <1>6, ReloadType, Zenon DEF fanOutVars
  <2>3. PathInv'
    <3>1. UNCHANGED <<policy, activity>>
      BY <2>1, Zenon
    <3> QED
      BY <2>1, <3>1, RouteSteady, Zenon DEF PathInv
  <2> QED
    BY <2>1, <2>2, <2>3, WorkSteady, Zenon
<1> QED
  BY <1>1, <1>2, <1>3, <1>4, <1>5, <1>6, Zenon DEF FanOutNext

\* Every step keeps what the checks have found.
LEMMA CheckStep ==
    ASSUME FanOutInv, CheckInv, [FanOutNext]_fanOutVars
    PROVE  CheckInv'
<1>r. ASSUME UNCHANGED <<policy, activity>> PROVE Route(activity)' = Route(activity) /\ Author' = Author
  BY <1>r, RouteSteady, Zenon
<1>1. ASSUME NEW a \in Activity, DispatchActivity(a) PROVE CheckInv'
  <2>1. /\ pc = "idle" /\ activity' = a /\ pc' = Route(a) /\ known' = KnownSender(cache, a) /\ free' = FreeAuthor(cache, a)
        /\ UNCHANGED <<policy, cache, jobs, tasks, snap, refused>>
    BY <1>1, Zenon DEF DispatchActivity
  <2>2. Route(activity)' = Route(a) /\ Author' = AuthorOf(a)
    BY <2>1, Zenon DEF Route, Allows, Author, AuthorOf
  <2>3. Nothing'
    <3>1. Nothing
      BY <2>1 DEF FanOutInv, WorkInv
    <3> QED
      BY <2>1, <3>1, Zenon DEF Nothing
  <2>4. /\ activity'.actor \in Receivers(cache)' => activity'.actor \in known'
        /\ cache'.status[Author'] = "free" => Author' \in free'
    BY <2>1, <2>2, Zenon DEF KnownSender, FreeAuthor, Receivers
  <2>5. Route(a) \in {"relay", "embedded", "record", "announce", "done"}
    BY Zenon DEF Route
  <2>6. ~AuthorChecked' /\ (SenderChecked' => Route(activity)' # "announce")
    BY <2>1, <2>2, <2>3, <2>5 DEF AuthorChecked, SenderChecked
  <2> QED
    BY <2>4, <2>6, Zenon DEF CheckInv
<1>2. CASE AnnounceFromReceiver \/ CheckSender \/ RecordPublisherActivity
  <2>1. /\ pc \in {"announce", "relay", "embedded", "account", "record"}
        /\ UNCHANGED <<policy, cache, activity, jobs, tasks, snap, refused, known, free>>
    BY <1>2 DEF AnnounceFromReceiver, CheckSender, RecordPublisherActivity
  <2>2. Nothing /\ Nothing'
    <3>1. Nothing
      BY <2>1 DEF FanOutInv, WorkInv
    <3> QED
      BY <2>1, <3>1, Zenon DEF Nothing
  <2>3. \/ pc' = "done"
        \/ pc = "announce" /\ activity.actor \in Receivers(cache) /\ pc' = "relay"
        \/ pc \in {"relay", "embedded"} /\ cache.status[Author] = "free" /\ pc' = "account"
        \/ pc = "account" /\ pc' = "plan"
    BY <1>2 DEF AnnounceFromReceiver, CheckSender, RecordPublisherActivity
  <2>4. Route(activity)' = Route(activity) /\ Author' = Author /\ Receivers(cache)' = Receivers(cache)
    BY <2>1, <1>r, Zenon DEF Receivers
  <2>5. Route(activity) = "announce" /\ SenderChecked' => activity.actor \in known
    BY <2>1, <2>2, <2>3 DEF CheckInv, SenderChecked
  <2>6. AuthorChecked' => Author \in free
    BY <2>1, <2>2, <2>3 DEF CheckInv, AuthorChecked
  <2>7. pc # "idle"
    BY <2>1
  <2> QED
    BY <2>1, <2>4, <2>5, <2>6, <2>7, Zenon DEF CheckInv
<1>3. CASE ExecuteRelayActivity \/ AnnounceToAll \/ \E j \in jobs : EnqueueActivityExcept(j)
  <2>1. /\ pc = "plan" \/ jobs # {}
        /\ UNCHANGED <<policy, cache, activity, known, free>>
    BY <1>3, Zenon DEF ExecuteRelayActivity, AnnounceToAll, EnqueueActivityExcept
  <2>2. SenderChecked /\ AuthorChecked /\ pc # "idle"
    <3>1. CASE pc = "plan"
      BY <3>1 DEF SenderChecked, AuthorChecked
    <3>2. CASE jobs # {}
      BY <3>2 DEF SenderChecked, AuthorChecked, Nothing, FanOutInv, WorkInv
    <3> QED
      BY <2>1, <3>1, <3>2, Zenon
  <2>3. Route(activity)' = Route(activity) /\ Author' = Author /\ Receivers(cache)' = Receivers(cache)
    BY <2>1, <1>r, Zenon DEF Receivers
  <2> QED
    BY <2>1, <2>2, <2>3, Zenon DEF CheckInv
<1>4. CASE Reload
  <2>1. UNCHANGED <<policy, activity, pc, jobs, tasks, snap, refused>>
        /\ known' = known \cup KnownSender(cache', activity) /\ free' = free \cup FreeAuthor(cache', activity)
    BY <1>4, Zenon DEF Reload
  <2>2. Route(activity)' = Route(activity) /\ Author' = Author /\ Receivers(cache)' = Receivers(cache')
    BY <2>1, <1>r, Zenon DEF Receivers
  <2>3. (SenderChecked' <=> SenderChecked) /\ (AuthorChecked' <=> AuthorChecked)
    BY <2>1, Zenon DEF SenderChecked, AuthorChecked, Nothing
  <2>4. /\ activity.actor \in Receivers(cache') => activity.actor \in known'
        /\ cache'.status[Author] = "free" => Author \in free'
    BY <2>1, Zenon DEF KnownSender, FreeAuthor, Author
  <2> QED
    BY <2>1, <2>2, <2>3, <2>4, Zenon DEF CheckInv
<1>5. CASE UNCHANGED fanOutVars
  <2>1. UNCHANGED <<policy, cache, activity, pc, jobs, tasks, snap, refused, known, free>>
    BY <1>5, Zenon DEF fanOutVars
  <2>2. Route(activity)' = Route(activity) /\ Author' = Author /\ Receivers(cache)' = Receivers(cache)
    BY <2>1, <1>r, Zenon DEF Receivers
  <2> QED
    BY <2>1, <2>2, Zenon DEF CheckInv, SenderChecked, AuthorChecked, Nothing
<1> QED
  BY <1>1, <1>2, <1>3, <1>4, <1>5, Zenon DEF FanOutNext

-----------------------------------------------------------------------------
(* What the invariant says of the tasks                                    *)

\* Every task is one of a fan-out that was planned from one state.
LEMMA TasksOfOneState ==
    ASSUME FanOutInv, tasks # {}
    PROVE  /\ Relayable
           /\ \E c \in Caches : \A t \in tasks : \E j \in Fanouts(c) : \E e \in Chosen(j) : t = TaskOf(j, e)
<1>1. Relayable /\ \E c \in Caches : \E D \in SUBSET Fanouts(c) : Made(D)
  BY Zenon DEF FanOutInv, WorkInv, Nothing
<1>2. PICK c \in Caches : \E D \in SUBSET Fanouts(c) : Made(D)
  BY <1>1, Zenon
<1>3. PICK D \in SUBSET Fanouts(c) : Made(D)
  BY <1>2, Zenon
<1>4. \A t \in tasks : \E j \in Fanouts(c) : \E e \in Chosen(j) : t = TaskOf(j, e)
  BY <1>3, Zenon DEF Made
<1> QED
  BY <1>1, <1>4, Zenon

\* The three kinds of fan-outs: the signed original for the subscribers, the
\* Announce for the other followers, and one Announce for all.
OriginalJob(c, j) ==
    /\ PlannedAs(j, Subscribers(c), {activity.actor}, "original")
    /\ j.entries = Subscribers(c) /\ j.excluded = {activity.actor} /\ j.body = "original"
    /\ Route(activity) = "relay" /\ activity.ld
FollowerJob(c, j) ==
    /\ PlannedAs(j, Followers(c), {activity.actor} \cup Domains(Subscribers(c)), "announce")
    /\ j.entries = Followers(c) /\ j.excluded = {activity.actor} \cup Domains(Subscribers(c))
    /\ j.body = "announce"
    /\ Route(activity) = "relay" /\ activity.ld
OnlyJob(c, j) ==
    /\ Fanouts(c) = {j}
    /\ j.entries = SubscribersAndFollowers(c) /\ j.body = "announce"
    /\ {activity.actor, Author} \subseteq j.excluded

\* A fan-out of a relayed activity is of one of these kinds.
LEMMA JobKinds ==
    ASSUME NEW c, NEW j \in Fanouts(c)
    PROVE  OriginalJob(c, j) \/ FollowerJob(c, j) \/ OnlyJob(c, j)
<1>1. CASE Route(activity) = "relay" /\ activity.ld
  <2>1. CASE PlannedAs(j, Subscribers(c), {activity.actor}, "original")
    BY <1>1, <2>1, FixedFields DEF OriginalJob
  <2>2. CASE PlannedAs(j, Followers(c), {activity.actor} \cup Domains(Subscribers(c)), "announce")
    BY <1>1, <2>2, FixedFields DEF FollowerJob
  <2> QED
    BY <1>1, <2>1, <2>2, Zenon DEF Fanouts, Plan, PlannedAs
<1>2. CASE Route(activity) = "relay" /\ ~activity.ld
  <2>1. Author = activity.actor
    BY <1>2, Routes
  <2>2. Fanouts(c) = {j} /\ j = Fixed(SubscribersAndFollowers(c), {activity.actor}, "announce")
    BY <1>2, Zenon DEF Fanouts, Plan
  <2>3. j.entries = SubscribersAndFollowers(c) /\ j.excluded = {activity.actor} /\ j.body = "announce"
    <3>1. PlannedAs(j, SubscribersAndFollowers(c), {activity.actor}, "announce")
      BY <2>2, Zenon DEF PlannedAs
    <3> QED
      BY <3>1, FixedFields
  <2> QED
    BY <2>1, <2>2, <2>3, Zenon DEF OnlyJob
<1>3. CASE Route(activity) # "relay"
  <2>1. Fanouts(c) = {j} /\ j = Fixed(SubscribersAndFollowers(c), {activity.actor, Author}, "announce")
    BY <1>3, Zenon DEF Fanouts
  <2>2. j.entries = SubscribersAndFollowers(c) /\ j.excluded = {activity.actor, Author} /\ j.body = "announce"
    <3>1. PlannedAs(j, SubscribersAndFollowers(c), {activity.actor, Author}, "announce")
      BY <2>1, Zenon DEF PlannedAs
    <3> QED
      BY <3>1, FixedFields
  <2> QED
    BY <2>1, <2>2, Zenon DEF OnlyJob
<1> QED
  BY <1>1, <1>2, <1>3, Zenon

\* No two targets of the fan-outs are in one domain.
LEMMA FanoutsApart ==
    ASSUME NEW c, NEW i \in Fanouts(c), NEW j \in Fanouts(c),
           NEW d \in Chosen(i), NEW e \in Chosen(j), SameDomain(d, e)
    PROVE  i = j /\ d = e
<1>1. Listed(i.entries)
  <2>1. i.entries \in {Subscribers(c), Followers(c), SubscribersAndFollowers(c)}
    BY JobKinds, Zenon DEF OriginalJob, FollowerJob, OnlyJob
  <2> QED
    BY <2>1, ListsAreListed, Zenon
<1>2. /\ d \in i.entries /\ Domain[d.name] \notin i.excluded
      /\ e \in j.entries /\ Domain[e.name] \notin j.excluded
  BY Zenon DEF Chosen, Targets, Eligible
<1>3. i = j
  <2>1. CASE Fanouts(c) = {i} \/ Fanouts(c) = {j}
    BY <2>1, Zenon
  <2>2. ASSUME i.entries = Subscribers(c), j.excluded = {activity.actor} \cup Domains(Subscribers(c)) PROVE FALSE
    BY <1>2, <2>2, Zenon DEF Domains, SameDomain
  <2>3. ASSUME j.entries = Subscribers(c), i.excluded = {activity.actor} \cup Domains(Subscribers(c)) PROVE FALSE
    BY <1>2, <2>3, Zenon DEF Domains, SameDomain
  <2> QED
    <3>1. OriginalJob(c, i) \/ FollowerJob(c, i) \/ OnlyJob(c, i)
      BY JobKinds, Zenon
    <3>2. OriginalJob(c, j) \/ FollowerJob(c, j) \/ OnlyJob(c, j)
      BY JobKinds, Zenon
    <3>3. CASE OnlyJob(c, i) \/ OnlyJob(c, j)
      BY <2>1, <3>3, Zenon DEF OnlyJob
    <3>4. CASE (OriginalJob(c, i) /\ OriginalJob(c, j)) \/ (FollowerJob(c, i) /\ FollowerJob(c, j))
      BY <3>4, Zenon DEF OriginalJob, FollowerJob, PlannedAs
    <3>5. CASE OriginalJob(c, i) /\ FollowerJob(c, j)
      BY <2>2, <3>5, Zenon DEF OriginalJob, FollowerJob
    <3>6. CASE FollowerJob(c, i) /\ OriginalJob(c, j)
      BY <2>3, <3>6, Zenon DEF OriginalJob, FollowerJob
    <3> QED
      BY <3>1, <3>2, <3>3, <3>4, <3>5, <3>6, Zenon
<1> QED
  BY <1>1, <1>3, OneTargetPerDomain, Zenon DEF Chosen

\* Tasks go to different domains.
LEMMA InvOnce ==
    ASSUME FanOutInv
    PROVE  OncePerDomain
<1>1. SUFFICES ASSUME NEW s \in tasks, NEW t \in tasks, Domain[s.to.name] = Domain[t.to.name] PROVE s = t
  BY Zenon DEF OncePerDomain
<1>2. PICK c \in Caches : \A x \in tasks : \E j \in Fanouts(c) : \E e \in Chosen(j) : x = TaskOf(j, e)
  <2>1. tasks # {}
    BY Zenon
  <2> QED
    BY <2>1, TasksOfOneState, Zenon
<1>3. PICK i \in Fanouts(c) : \E d \in Chosen(i) : s = TaskOf(i, d)
  BY <1>2, Zenon
<1>4. PICK d \in Chosen(i) : s = TaskOf(i, d)
  BY <1>3, Zenon
<1>5. PICK j \in Fanouts(c) : \E e \in Chosen(j) : t = TaskOf(j, e)
  BY <1>2, Zenon
<1>6. PICK e \in Chosen(j) : t = TaskOf(j, e)
  BY <1>5, Zenon
<1>7. SameDomain(d, e)
  <2>1. s.to = d /\ t.to = e
    BY <1>4, <1>6, TaskFields, Zenon
  <2> QED
    BY <1>1, <2>1, Zenon DEF SameDomain
<1>8. i = j /\ d = e
  BY <1>7, FanoutsApart, Zenon
<1> QED
  BY <1>4, <1>6, <1>8, Zenon

\* None goes to the sender or to the author.
LEMMA InvNoReflection ==
    ASSUME FanOutInv
    PROVE  NoReflection
<1>1. SUFFICES ASSUME NEW t \in tasks PROVE Domain[t.to.name] \notin {activity.actor, Author}
  BY Zenon DEF NoReflection
<1>2. PICK c \in Caches : \E j \in Fanouts(c) : \E e \in Chosen(j) : t = TaskOf(j, e)
  <2>1. tasks # {}
    BY Zenon
  <2> QED
    BY <2>1, TasksOfOneState, Zenon
<1>3. PICK j \in Fanouts(c) : \E e \in Chosen(j) : t = TaskOf(j, e)
  BY <1>2, Zenon
<1>4. PICK e \in Chosen(j) : t = TaskOf(j, e)
  BY <1>3, Zenon
<1>5. Domain[t.to.name] \notin j.excluded
  BY <1>4, TaskFields, ZenonT(60) DEF Chosen, Targets, Eligible
<1>6. {activity.actor, Author} \subseteq j.excluded
  <2>1. CASE {activity.actor, Author} \subseteq j.excluded
    BY <2>1
  <2>2. CASE Route(activity) = "relay" /\ {activity.actor} \subseteq j.excluded
    <3>1. Author = activity.actor
      BY <2>2, Routes
    <3> QED
      BY <2>2, <3>1, Zenon
  <2>3. \/ {activity.actor, Author} \subseteq j.excluded
        \/ Route(activity) = "relay" /\ {activity.actor} \subseteq j.excluded
    <3>1. CASE OriginalJob(c, j)
      BY <3>1, Zenon DEF OriginalJob
    <3>2. CASE FollowerJob(c, j)
      BY <3>2, Zenon DEF FollowerJob
    <3>3. CASE OnlyJob(c, j)
      BY <3>3, Zenon DEF OnlyJob
    <3> QED
      BY <3>1, <3>2, <3>3, JobKinds, Zenon
  <2> QED
    BY <2>1, <2>2, <2>3, Zenon
<1> QED
  BY <1>5, <1>6, Zenon

\* What is relayed may be.
LEMMA InvAudience ==
    ASSUME FanOutInv, CheckInv
    PROVE  AudienceRespected
<1>1. SUFFICES ASSUME tasks # {}
               PROVE  /\ \/ activity.public = "to"
                         \/ activity.public = "cc" /\ policy = "public_and_unlisted"
                         \/ activity.type = "Announce" /\ activity.actor \in known
                      /\ Author \in free
                      /\ (\E t \in tasks : t.body = "original") => activity.ld
  BY Zenon DEF AudienceRespected
<1>2. Relayable
  BY <1>1, TasksOfOneState, Zenon
<1>3. PICK c \in Caches : \A x \in tasks : \E j \in Fanouts(c) : \E e \in Chosen(j) : x = TaskOf(j, e)
  BY <1>1, TasksOfOneState, Zenon
<1>4. ASSUME NEW t \in tasks, t.body = "original" PROVE activity.ld
  <2>1. PICK j \in Fanouts(c) : \E e \in Chosen(j) : t = TaskOf(j, e)
    BY <1>3, Zenon
  <2>2. j.body = "original"
    <3>1. t.body = j.body
      BY <2>1, TaskFields, ZenonT(60)
    <3> QED
      BY <1>4, <3>1, Zenon
  <2>3. "original" # "announce"
    OBVIOUS
  <2> QED
    BY <2>2, <2>3, JobKinds, Zenon DEF OriginalJob, FollowerJob, OnlyJob
<1>5. SenderChecked /\ AuthorChecked
  BY <1>1, Zenon DEF SenderChecked, AuthorChecked, Nothing
<1>6. \/ activity.public = "to"
      \/ activity.public = "cc" /\ policy = "public_and_unlisted"
      \/ activity.type = "Announce" /\ activity.actor \in known
  BY <1>2, <1>5, Routes, Zenon DEF Relayable, Allows, CheckInv
<1> QED
  BY <1>4, <1>5, <1>6, Zenon DEF CheckInv

-----------------------------------------------------------------------------
(* Who is served                                                           *)

GoodSubscribers(c) == {Domain[k] : k \in {n \in Key : c.subs[n] = "good"}}
GoodFollowers(c) == {Domain[k] : k \in {n \in Key : c.fols[n] = "good"}}

\* A list holds the keys with a record, and their records.
LEMMA EntriesOf ==
    ASSUME NEW style, NEW records
    PROVE  /\ \A e \in Entries(style, records) :
                e.name \in Key /\ e.inbox = records[e.name] /\ e.inbox # "none"
           /\ \A k \in Key : records[k] # "none" => \E e \in Entries(style, records) : e.name = k
<1>1. \A e \in Entries(style, records) :
        e.name \in Key /\ e.inbox = records[e.name] /\ e.inbox # "none"
  BY DEF Entries
<1>2. ASSUME NEW k \in Key, records[k] # "none" PROVE \E e \in Entries(style, records) : e.name = k
  <2> DEFINE e == [name |-> k, style |-> style, inbox |-> records[k]]
  <2>1. e.name = k
    OBVIOUS
  <2>2. e \in Entries(style, records)
    BY <1>2, Zenon DEF Entries
  <2> QED
    BY <2>1, <2>2, Zenon
<1> QED
  BY <1>1, <1>2, Zenon

\* The domains of the lists of a state.
LEMMA ListDomains ==
    ASSUME NEW c \in Caches, NEW excluded
    PROVE  /\ Domains({e \in Subscribers(c) : Eligible(e, excluded)}) = GoodSubscribers(c) \ excluded
           /\ Domains({e \in Followers(c) : Eligible(e, excluded)}) = GoodFollowers(c) \ excluded
           /\ Domains(Subscribers(c)) = GoodSubscribers(c) \cup Broken(c)
           /\ Usable(c) = GoodSubscribers(c) \cup GoodFollowers(c)
<1>1. \A k \in Key : c.subs[k] \in {"none", "good", "bad"} /\ c.fols[k] \in {"none", "good"}
  BY DEF Caches, Record
<1>2. /\ \A e \in Subscribers(c) : e.name \in Key /\ e.inbox = c.subs[e.name] /\ e.inbox # "none"
      /\ \A k \in Key : c.subs[k] # "none" => \E e \in Subscribers(c) : e.name = k
  BY EntriesOf, ZenonT(60) DEF Subscribers
<1>3. /\ \A e \in Followers(c) : e.name \in Key /\ e.inbox = c.fols[e.name] /\ e.inbox # "none"
      /\ \A k \in Key : c.fols[k] # "none" => \E e \in Followers(c) : e.name = k
  BY EntriesOf, ZenonT(60) DEF Followers
<1>4. "none" # "good" /\ "none" # "bad" /\ "good" # "bad"
  OBVIOUS
<1>5. Domains({e \in Subscribers(c) : Eligible(e, excluded)}) = GoodSubscribers(c) \ excluded
  <2>1. ASSUME NEW e \in Subscribers(c), Eligible(e, excluded)
        PROVE  Domain[e.name] \in GoodSubscribers(c) \ excluded
    BY <1>1, <1>2, <2>1, ZenonT(60) DEF Eligible, GoodSubscribers
  <2>2. ASSUME NEW k \in Key, c.subs[k] = "good", Domain[k] \notin excluded
        PROVE  \E e \in Subscribers(c) : Eligible(e, excluded) /\ Domain[e.name] = Domain[k]
    <3>1. PICK e \in Subscribers(c) : e.name = k
      BY <1>2, <1>4, <2>2, Zenon
    <3>2. e.inbox = "good"
      BY <1>2, <2>2, <3>1, Zenon
    <3> QED
      BY <1>4, <2>2, <3>1, <3>2, Zenon DEF Eligible
  <2> DEFINE L == {e \in Subscribers(c) : Eligible(e, excluded)}
  <2>3. \A e \in L : Domain[e.name] \in GoodSubscribers(c) \ excluded
    BY <2>1, Zenon
  <2>4. \A x \in GoodSubscribers(c) \ excluded : \E e \in L : x = Domain[e.name]
    <3>1. TAKE x \in GoodSubscribers(c) \ excluded
    <3>2. PICK k \in Key : c.subs[k] = "good" /\ x = Domain[k]
      BY Zenon DEF GoodSubscribers
    <3>3. PICK e \in Subscribers(c) : Eligible(e, excluded) /\ Domain[e.name] = Domain[k]
      BY <2>2, <3>2, Zenon
    <3> QED
      BY <3>2, <3>3, Zenon
  <2> HIDE DEF L
  <2>5. Domains(L) = GoodSubscribers(c) \ excluded
    BY <2>3, <2>4, Zenon DEF Domains
  <2> QED
    BY <2>5, Zenon DEF L
<1>6. Domains({e \in Followers(c) : Eligible(e, excluded)}) = GoodFollowers(c) \ excluded
  <2>1. ASSUME NEW e \in Followers(c), Eligible(e, excluded)
        PROVE  Domain[e.name] \in GoodFollowers(c) \ excluded
    BY <1>1, <1>3, <2>1, Zenon DEF Eligible, GoodFollowers
  <2>2. ASSUME NEW k \in Key, c.fols[k] = "good", Domain[k] \notin excluded
        PROVE  \E e \in Followers(c) : Eligible(e, excluded) /\ Domain[e.name] = Domain[k]
    <3>1. PICK e \in Followers(c) : e.name = k
      BY <1>3, <1>4, <2>2, Zenon
    <3>2. e.inbox = "good"
      BY <1>3, <2>2, <3>1, Zenon
    <3> QED
      BY <1>4, <2>2, <3>1, <3>2, Zenon DEF Eligible
  <2> DEFINE L == {e \in Followers(c) : Eligible(e, excluded)}
  <2>3. \A e \in L : Domain[e.name] \in GoodFollowers(c) \ excluded
    BY <2>1, Zenon
  <2>4. \A x \in GoodFollowers(c) \ excluded : \E e \in L : x = Domain[e.name]
    <3>1. TAKE x \in GoodFollowers(c) \ excluded
    <3>2. PICK k \in Key : c.fols[k] = "good" /\ x = Domain[k]
      BY Zenon DEF GoodFollowers
    <3>3. PICK e \in Followers(c) : Eligible(e, excluded) /\ Domain[e.name] = Domain[k]
      BY <2>2, <3>2, Zenon
    <3> QED
      BY <3>2, <3>3, Zenon
  <2> HIDE DEF L
  <2>5. Domains(L) = GoodFollowers(c) \ excluded
    BY <2>3, <2>4, Zenon DEF Domains
  <2> QED
    BY <2>5, Zenon DEF L
<1>7. Domains(Subscribers(c)) = GoodSubscribers(c) \cup Broken(c)
  <2>1. ASSUME NEW e \in Subscribers(c) PROVE Domain[e.name] \in GoodSubscribers(c) \cup Broken(c)
    <3>1. e.name \in Key /\ (c.subs[e.name] = "good" \/ c.subs[e.name] = "bad")
      BY <1>1, <1>2, Zenon
    <3> QED
      BY <3>1, Zenon DEF GoodSubscribers, Broken
  <2>2. ASSUME NEW k \in Key, c.subs[k] \in {"good", "bad"} PROVE Domain[k] \in Domains(Subscribers(c))
    <3>1. PICK e \in Subscribers(c) : e.name = k
      BY <1>2, <1>4, <2>2, Zenon
    <3> QED
      BY <3>1, Zenon DEF Domains
  <2> QED
    BY <2>1, <2>2, Zenon DEF Domains, GoodSubscribers, Broken
<1>8. Usable(c) = GoodSubscribers(c) \cup GoodFollowers(c)
  BY Zenon DEF Usable, GoodSubscribers, GoodFollowers
<1> QED
  BY <1>5, <1>6, <1>7, <1>8, Zenon

\* The domains that a fan-out chooses.
LEMMA ChosenDomains ==
    ASSUME NEW c \in Caches, NEW excluded, NEW body, NEW j
    PROVE  /\ PlannedAs(j, Subscribers(c), excluded, body) => Domains(Chosen(j)) = GoodSubscribers(c) \ excluded
           /\ PlannedAs(j, Followers(c), excluded, body) => Domains(Chosen(j)) = GoodFollowers(c) \ excluded
           /\ PlannedAs(j, SubscribersAndFollowers(c), excluded, body) => Domains(Chosen(j)) = Usable(c) \ excluded
<1>1. ASSUME NEW entries, Listed(entries), PlannedAs(j, entries, excluded, body)
      PROVE  Domains(Chosen(j)) = Domains({e \in entries : Eligible(e, excluded)})
  <2>1. j.entries = entries /\ j.excluded = excluded
    BY <1>1, FixedFields
  <2>2. Chosen(j) = Targets(entries, excluded)
    BY <2>1, Zenon DEF Chosen
  <2> QED
    BY <1>1, <2>2, DomainsCovered, Zenon
<1>2. Domains({e \in SubscribersAndFollowers(c) : Eligible(e, excluded)}) =
          Domains({e \in Subscribers(c) : Eligible(e, excluded)})
            \cup Domains({e \in Followers(c) : Eligible(e, excluded)})
  BY Zenon DEF SubscribersAndFollowers, Domains
<1>3. Domains({e \in SubscribersAndFollowers(c) : Eligible(e, excluded)}) = Usable(c) \ excluded
  <2>1. /\ Domains({e \in Subscribers(c) : Eligible(e, excluded)}) = GoodSubscribers(c) \ excluded
        /\ Domains({e \in Followers(c) : Eligible(e, excluded)}) = GoodFollowers(c) \ excluded
        /\ Usable(c) = GoodSubscribers(c) \cup GoodFollowers(c)
    BY ListDomains, Zenon
  <2> QED
    BY <1>2, <2>1, Zenon
<1> QED
  BY <1>1, <1>3, ListsAreListed, ListDomains, ZenonT(60)

\* The domains of one fan-out, and of two.
LEMMA FanoutDomains ==
    ASSUME NEW i, NEW j
    PROVE  /\ UNION {Domains(Chosen(k)) : k \in {i}} = Domains(Chosen(i))
           /\ UNION {Domains(Chosen(k)) : k \in {i, j}} = Domains(Chosen(i)) \cup Domains(Chosen(j))
BY Zenon

\* When all the fan-outs were made, every receiver was served or refused.
LEMMA InvServed ==
    ASSUME FanOutInv
    PROVE  ReceiversServed
<1> DEFINE all(c) ==
        IF activity.ld /\ Route(activity) = "relay"
        THEN IF activity.object = "anonymous"
             THEN GoodSubscribers(c)
             ELSE Usable(c) \ (Broken(c) \ GoodSubscribers(c))
        ELSE IF activity.object = "anonymous" THEN {} ELSE Usable(c)
<1>1. SUFFICES ASSUME Finished, NEW c \in snap
               PROVE  Served \cup refused = all(c) \ {activity.actor, Author}
  BY Zenon DEF ReceiversServed, GoodSubscribers
<1>2. c \in Caches /\ Relayable /\ Served \cup refused = UNION {Domains(Chosen(j)) : j \in Fanouts(c)}
  <2>1. Relayable /\ \E b \in Caches : \E D \in SUBSET Fanouts(b) :
                snap = {b} /\ jobs = Fanouts(b) \ D /\ Made(D)
    BY <1>1, Zenon DEF FanOutInv, WorkInv, Nothing
  <2>2. PICK D \in SUBSET Fanouts(c) : c \in Caches /\ jobs = Fanouts(c) \ D /\ Made(D)
    BY <1>1, <2>1, Zenon
  <2>3. D = Fanouts(c)
    BY <1>1, <2>2, Zenon DEF Finished
  <2> QED
    BY <2>1, <2>2, <2>3, Zenon DEF Made
<1>3. CASE Route(activity) = "relay" /\ activity.ld
  <2>1. Author = activity.actor
    BY <1>3, Routes
  <2>2. PICK i : PlannedAs(i, Subscribers(c), {activity.actor}, "original")
    BY ZenonT(60) DEF PlannedAs
  <2>3. Domains(Chosen(i)) = GoodSubscribers(c) \ {activity.actor}
    BY <1>2, <2>2, ChosenDomains
  <2>4. CASE activity.object = "anonymous"
    <3>1. Fanouts(c) = {i}
      BY <1>3, <2>2, <2>4, Zenon DEF Fanouts, Plan, PlannedAs
    <3>2. Served \cup refused = GoodSubscribers(c) \ {activity.actor}
      BY <1>2, <2>3, <3>1, FanoutDomains, Zenon
    <3> QED
      BY <1>3, <2>1, <2>4, <3>2, Zenon
  <2>5. CASE activity.object # "anonymous"
    <3>0. PICK j : PlannedAs(j, Followers(c), {activity.actor} \cup Domains(Subscribers(c)), "announce")
      BY Zenon DEF PlannedAs
    <3>1. Fanouts(c) = {i, j}
      BY <1>3, <2>2, <2>5, <3>0, ZenonT(60) DEF Fanouts, Plan, PlannedAs
    <3>2. Domains(Chosen(j)) = GoodFollowers(c) \ ({activity.actor} \cup Domains(Subscribers(c)))
      BY <1>2, <3>0, ChosenDomains
    <3>3. Served \cup refused = Domains(Chosen(i)) \cup Domains(Chosen(j))
      BY <1>2, <3>1, FanoutDomains, Zenon
    <3>4. /\ Domains(Subscribers(c)) = GoodSubscribers(c) \cup Broken(c)
          /\ Usable(c) = GoodSubscribers(c) \cup GoodFollowers(c)
      BY <1>2, ListDomains, Zenon
    <3>5. Served \cup refused = (Usable(c) \ (Broken(c) \ GoodSubscribers(c))) \ {activity.actor}
      BY <2>3, <3>2, <3>3, <3>4, Zenon
    <3> QED
      BY <1>3, <2>1, <2>5, <3>5, Zenon
  <2> QED
    BY <2>4, <2>5, Zenon
<1>4. CASE Route(activity) = "relay" /\ ~activity.ld
  <2>1. Author = activity.actor
    BY <1>4, Routes
  <2>2. CASE activity.object = "anonymous"
    <3>1. Fanouts(c) = {}
      BY <1>4, <2>2, Zenon DEF Fanouts, Plan
    <3> QED
      BY <1>2, <1>4, <2>2, <3>1, Zenon
  <2>3. CASE activity.object # "anonymous"
    <3>1. PICK i : PlannedAs(i, SubscribersAndFollowers(c), {activity.actor}, "announce")
      BY Zenon DEF PlannedAs
    <3>2. Fanouts(c) = {i}
      BY <1>4, <2>3, <3>1, Zenon DEF Fanouts, Plan, PlannedAs
    <3>3. Domains(Chosen(i)) = Usable(c) \ {activity.actor}
      BY <1>2, <3>1, ChosenDomains
    <3>4. Served \cup refused = Usable(c) \ {activity.actor}
      BY <1>2, <3>2, <3>3, FanoutDomains, Zenon
    <3> QED
      BY <1>4, <2>1, <2>3, <3>4, Zenon
  <2> QED
    BY <2>2, <2>3, Zenon
<1>5. CASE Route(activity) # "relay"
  <2>1. activity.object # "anonymous"
    BY <1>2, <1>5, Routes DEF Relayable
  <2>2. PICK i : PlannedAs(i, SubscribersAndFollowers(c), {activity.actor, Author}, "announce")
    BY Zenon DEF PlannedAs
  <2>3. Fanouts(c) = {i}
    BY <1>5, <2>2, Zenon DEF Fanouts, PlannedAs
  <2>4. Domains(Chosen(i)) = Usable(c) \ {activity.actor, Author}
    BY <1>2, <2>2, ChosenDomains
  <2>5. Served \cup refused = Usable(c) \ {activity.actor, Author}
    BY <1>2, <2>3, <2>4, FanoutDomains, Zenon
  <2> QED
    BY <1>5, <2>1, <2>5, Zenon
<1> QED
  BY <1>3, <1>4, <1>5, Zenon

\* The invariant holds at first.
LEMMA FanOutStart ==
    ASSUME FanOutInit
    PROVE  FanOutInv /\ CheckInv
BY DEF FanOutInit, FanOutInv, PathInv, WorkInv, Nothing, CheckInv, SenderChecked, AuthorChecked

\* The invariant holds in every behaviour of a fan-out.
LEMMA FanOutAlways == FanOutSpec => [](FanOutInv /\ CheckInv)
<1>1. FanOutInit => FanOutInv /\ CheckInv
  BY FanOutStart, Zenon
<1>2. FanOutInv /\ CheckInv /\ [FanOutNext]_fanOutVars => FanOutInv' /\ CheckInv'
  BY FanOutStep, CheckStep, Zenon
<1> QED
  BY <1>1, <1>2, PTL DEF FanOutSpec

\* For all registrations and address policies, a server gets an activity once
\* (executeRelayActivity, enqueueActivityExcept).
THEOREM SentOncePerDomain == FanOutSpec => []OncePerDomain
<1>1. FanOutInv => OncePerDomain
  BY InvOnce, Zenon
<1> QED
  BY <1>1, FanOutAlways, PTL

\* Nothing is sent back to its sender or its author (enqueueActivityExcept).
THEOREM NothingReflected == FanOutSpec => []NoReflection
<1>1. FanOutInv => NoReflection
  BY InvNoReflection, Zenon
<1> QED
  BY <1>1, FanOutAlways, PTL

\* Whatever changes of the cache come in between, nothing is relayed that the
\* address policy does not allow and no receiver announced, nothing of an author
\* who was limited or blocked all the time, and no unsigned body as it is
\* (handleInbox, executeRelayActivity).
THEOREM AudienceIsRespected == FanOutSpec => []AudienceRespected
<1>1. FanOutInv /\ CheckInv => AudienceRespected
  BY InvAudience, Zenon
<1> QED
  BY <1>1, FanOutAlways, PTL

\* When the fan-outs of an activity are made, every server with a usable record
\* in the state they were planned from was served or refused
\* (executeRelayActivity, enqueueActivityExcept).
THEOREM ReceiversAreServed == FanOutSpec => []ReceiversServed
<1>1. FanOutInv => ReceiversServed
  BY InvServed, Zenon
<1> QED
  BY <1>1, FanOutAlways, PTL
==============================================================================
