--------------------------- MODULE DirectoryProofs ---------------------------
(***************************************************************************)
(* First part: the safety properties of DirectoryLifecycle for any number  *)
(* of API replicas and commands, and for any number of faults.             *)
(*                                                                         *)
(* The argument: while no lease expires under a live owner, whoever is     *)
(* past Acquire owns the lease (LeaseInv).  The file is disabled by an     *)
(* owner, so that it does not change while another owner works (FileInv).  *)
(* Hence nobody but the unregister command changes the directory after it  *)
(* was confirmed (RemoteInv), and what the directory lists is in the       *)
(* record or about to be written to it (PendingInv).                       *)
(*                                                                         *)
(* Second part: the editor of the configuration file (ConfigEditor), for   *)
(* any number of editors and entries and for every value of the bounds.    *)
(* Its properties rest on LockInv (the lock excludes, and whoever renames  *)
(* read the file that has the name), KeptInv (what is disabled stays       *)
(* disabled, also for an editor that has renamed and not yet synced) and   *)
(* BackupInv (as long as no backup is on the disk, nothing has changed and *)
(* nobody is about to change anything).  LockInv makes a rename an atomic  *)
(* edit, so that the editors implement AtomicFile.                         *)
(***************************************************************************)
EXTENDS DirectoryLifecycle, ConfigEditor, TLAPS

\* The types the proofs need; the number of attempts plays no part.
Types ==
    /\ enabled \in BOOLEAN /\ remote \in BOOLEAN
    /\ confirmed \in BOOLEAN /\ overtaken \in BOOLEAN /\ strayed \in BOOLEAN
    /\ lease \in Actor \cup {NoOne, Dead}
    /\ store \in State
    /\ late \subseteq Kind
    /\ pc \in [Actor -> Pc]
    /\ local \in [Actor -> State]
    /\ request \in [Actor -> Request]
    /\ answer \in [Actor -> Answer]
    /\ crashes \in Nat /\ expiries \in Nat /\ losses \in Nat

\* What the three kinds of actors do and ask for.
RoleInv ==
    \A a \in Actor :
        /\ pc[a] \in {"disable", "suppress"} => a \in Unregister
        /\ pc[a] = "recheck" => a \in Scheduler
        /\ request[a].kind = "unregister" => a \in Unregister
        /\ pc[a] # "idle" /\ a \in Unregister => request[a].kind = "unregister"
        /\ pc[a] # "idle" /\ a \notin Scheduler => request[a].phase = "first"
        /\ pc[a] = "wait" /\ answer[a] = "unknown" => request[a].kind = "heartbeat"

\* Whoever is past Acquire owns the lease, and what it loaded is current.
LeaseInv ==
    /\ OwnerSeesCurrentState
    /\ expiries = 0 => \A a \in Actor : pc[a] \notin {"idle", "acquire"} => lease = a

\* What a disabled entry says about the actors.
FileInv ==
    /\ expiries = 0 /\ ~enabled =>
          /\ \A s \in Scheduler : pc[s] \notin {"send", "wait", "save"}
          /\ ~strayed => \A c \in Command : pc[c] \notin {"wait", "save"}
    /\ \A u \in Unregister : pc[u] \in {"suppress", "send", "wait", "save"} => ~enabled
    /\ confirmed => ~enabled

\* Between the directory's confirmation and its record.
RemoteInv ==
    /\ UnregisterIsFinal
    /\ expiries = 0 /\ ~overtaken =>
          \A u \in Unregister :
             pc[u] = "save" \/ (pc[u] = "wait" /\ answer[u] = "ok") => ~remote

NoFaults == expiries = 0 /\ crashes = 0 /\ losses = 0

\* Between a registration and its record.
PendingInv ==
    /\ \A s \in Scheduler :
          /\ pc[s] \in {"send", "wait"}
          /\ request[s].kind = "heartbeat" \/ request[s].phase # "first"
          => local[s].registered
    /\ NoFaults => /\ late = {} /\ ~overtaken
                   /\ remote => \/ store.registered
                                \/ \E a \in Scheduler \cup Command :
                                      pc[a] \in {"wait", "save"} /\ answer[a] = "ok"

\* The inductive invariant.
Inv == Types /\ RoleInv /\ LeaseInv /\ FileInv /\ RemoteInv /\ PendingInv

-----------------------------------------------------------------------------
(* Steps                                                                   *)

\* The records of the model and their fields.
LEMMA Values ==
    /\ NoState \in State
    /\ \A k \in Kind, p \in Phase : [kind |-> k, phase |-> p] \in Request
    /\ \A k \in Kind : Fresh(k) \in Request /\ Fresh(k).kind = k /\ Fresh(k).phase = "first"
    /\ {"register", "heartbeat", "unregister"} = Kind
    /\ \A r \in Request : r.kind \in Kind /\ r.phase \in Phase
    /\ \A s \in State, o \in Outcome : [s EXCEPT !.outcome = o] \in State
    /\ \A b \in BOOLEAN, o \in Outcome : [registered |-> b, outcome |-> o] \in State
  BY Zenon DEF NoState, State, Outcome, Request, Kind, Phase, Fresh

\* The types hold at the start ...
LEMMA InitTypes == Init => Types
  <1> SUFFICES ASSUME Init PROVE Types
    OBVIOUS
  <1>1. request \in [Actor -> Request] /\ local \in [Actor -> State] /\ store \in State
    BY Values, Zenon DEF Init, Kind
  <1> QED
    BY <1>1, ZenonT(30) DEF Init, Types, Answer, Pc

\* ... and after every step.
LEMMA TypesStep == ASSUME Types, [Next]_vars PROVE Types'
  <1> USE Values DEF Types
  <1>1. ASSUME NEW a \in Actor, Start(a) PROVE Types'
    BY <1>1 DEF Start, Goto, Pc, Kind, bounds, history
  <1>2. ASSUME NEW a \in Actor, Acquire(a) PROVE Types'
    BY <1>2, SMTT(30) DEF Acquire, End, Goto, Pc, Answer, Kind, Lose, history
  <1>3. ASSUME NEW a \in Actor, Load(a) PROVE Types'
    BY <1>3, LifecycleAssumption DEF Load, Goto, Pc, Lose, history, Actor
  <1>4. ASSUME NEW a \in Actor, RecheckDurableConfiguration(a) PROVE Types'
    BY <1>4 DEF RecheckDurableConfiguration, Due, Goto, Pc, Answer, Kind, bounds, history
  <1>5. ASSUME NEW a \in Actor, Disable(a) PROVE Types'
    <2>0. pc' = [pc EXCEPT ![a] = "suppress"] \/ pc' = [pc EXCEPT ![a] = "release"]
      BY <1>5, Zenon DEF Disable, Goto
    <2>1. pc' \in [Actor -> Pc]
      BY <2>0 DEF Pc
    <2>2. enabled' \in BOOLEAN
      BY <1>5, Zenon DEF Disable
    <2> QED
      BY <1>5, <2>1, <2>2, Zenon DEF Disable, bounds, history
  <1>6. ASSUME NEW a \in Actor, Suppress(a) PROVE Types'
    <2> DEFINE state == [local[a] EXCEPT !.outcome = "disabled"]
    <2>1. state \in State
      BY ZenonT(30) DEF Outcome
    <2>2. /\ (SaveOwned(a, state) /\ UNCHANGED losses) \/ SaveFails(a, state)
          /\ \E to \in Pc : Goto(a, to)
      BY <1>6, Zenon DEF Suppress, Pc
    <2> HIDE DEF state
    <2> QED
      BY <1>6, <2>1, <2>2 DEF Suppress, SaveOwned, SaveFails, Goto, Lose, history
  <1>7. ASSUME NEW a \in Actor, Send(a) PROVE Types'
    BY <1>7, Zenon DEF Send, Goto, Pc, Answer, bounds
  <1>8. ASSUME NEW a \in Actor, HandleAnswer(a) PROVE Types'
    <2>1. \/ \E k \in Kind, p \in Phase : Ask(a, k, p)
          \/ UNCHANGED request /\ \E to \in Pc : Goto(a, to)
      BY <1>8, ZenonT(60) DEF HandleAnswer, Kind, Phase, Pc
    <2>2. request' \in [Actor -> Request] /\ pc' \in [Actor -> Pc]
      BY <2>1 DEF Ask, Goto, Pc
    <2> QED
      BY <1>8, <2>2, Zenon DEF HandleAnswer, bounds, history
  <1>9. ASSUME NEW a \in Actor, NoticeLoss(a) PROVE Types'
    BY <1>9 DEF NoticeLoss, LateWith, Lose, Goto, history, Pc
  <1>10. ASSUME NEW a \in Actor, SaveFinal(a) PROVE Types'
    <2>1. Final(a) \in State
      BY ZenonT(30) DEF Final, Outcome
    <2> QED
      BY <1>10, <2>1 DEF SaveFinal, SaveOwned, SaveFails, Lose, Goto, Pc
  <1>11. ASSUME NEW a \in Actor, Release(a) PROVE Types'
    BY <1>11, Zenon DEF Release, End, Goto, Pc, Answer, Kind, bounds, history
  <1>12. ASSUME NEW a \in Actor, DirectoryAnswers(a) PROVE Types'
    <2>1. remote' \in BOOLEAN
      BY <1>12, ZenonT(30) DEF DirectoryAnswers, Effect, Kind
    <2>2. answer' \in [Actor -> Answer] /\ losses' \in Nat
      BY <1>12 DEF DirectoryAnswers, Answer, Lose
    <2> QED
      BY <1>12, <2>1, <2>2, Zenon DEF DirectoryAnswers, history
  <1>13. ASSUME NEW a \in Actor, GiveUp(a) PROVE Types'
    BY <1>13 DEF GiveUp, LateWith, Answer, Lose, history
  <1>14. ASSUME NEW a \in Actor, Crash(a) PROVE Types'
    BY <1>14 DEF Crash, End, Goto, Pc, Answer, Kind, LateWith, history
  <1>15. ASSUME NEW kind \in Kind, DirectoryGetsLate(kind) PROVE Types'
    BY <1>15, ZenonT(30) DEF DirectoryGetsLate, Effect, Kind, actorVars, bounds
  <1>16. CASE ExpireLease
    BY <1>16 DEF ExpireLease, actorVars, history
  <1>17. CASE Enable
    BY <1>17, ZenonT(30) DEF Enable, actorVars
  <1>18. CASE UNCHANGED vars
    BY <1>18, SMTT(30) DEF vars, actorVars, bounds, history
  <1> QED
    BY <1>1, <1>2, <1>3, <1>4, <1>5, <1>6, <1>7, <1>8, <1>9, <1>10, <1>11, <1>12, <1>13,
       <1>14, <1>15, <1>16, <1>17, <1>18, ZenonT(30) DEF Next, Run, Directory
\* Load, Start and HandleAnswer send every actor its own way.
LEMMA RoleStep == ASSUME Types, RoleInv, [Next]_vars PROVE RoleInv'
  <1> USE Values, LifecycleAssumption DEF Types, RoleInv, Actor, Kind
  <1>1. ASSUME NEW a \in Actor, Start(a) PROVE RoleInv'
    BY <1>1 DEF Start, Goto, bounds, history
  <1>2. ASSUME NEW a \in Actor, Acquire(a) PROVE RoleInv'
    BY <1>2 DEF Acquire, End, Goto, Lose, history
  <1>3. ASSUME NEW a \in Actor, Load(a) PROVE RoleInv'
    BY <1>3 DEF Load, Goto, Lose, history
  <1>4. ASSUME NEW a \in Actor, RecheckDurableConfiguration(a) PROVE RoleInv'
    BY <1>4 DEF RecheckDurableConfiguration, Due, Goto, bounds, history
  <1>5. ASSUME NEW a \in Actor, Disable(a) PROVE RoleInv'
    BY <1>5, ZenonT(60) DEF Disable, Goto, bounds, history
  <1>6. ASSUME NEW a \in Actor, Suppress(a) PROVE RoleInv'
    BY <1>6 DEF Suppress, SaveOwned, SaveFails, Goto, Lose, history
  <1>7. ASSUME NEW a \in Actor, Send(a) PROVE RoleInv'
    BY <1>7 DEF Send, Goto, bounds
  <1>8. ASSUME NEW a \in Actor, HandleAnswer(a) PROVE RoleInv'
    BY <1>8 DEF HandleAnswer, Ask, Goto, bounds, history
  <1>9. ASSUME NEW a \in Actor, NoticeLoss(a) PROVE RoleInv'
    BY <1>9, ZenonT(60) DEF NoticeLoss, Lose, Goto, history
  <1>10. ASSUME NEW a \in Actor, SaveFinal(a) PROVE RoleInv'
    BY <1>10, Zenon DEF SaveFinal, SaveOwned, SaveFails, Lose, Goto
  <1>11. ASSUME NEW a \in Actor, Release(a) PROVE RoleInv'
    BY <1>11, Zenon DEF Release, End, Goto, bounds, history
  <1>12. ASSUME NEW a \in Actor, DirectoryAnswers(a) PROVE RoleInv'
    BY <1>12 DEF DirectoryAnswers, Lose, history
  <1>13. ASSUME NEW a \in Actor, GiveUp(a) PROVE RoleInv'
    BY <1>13 DEF GiveUp, Lose, history
  <1>14. ASSUME NEW a \in Actor, Crash(a) PROVE RoleInv'
    BY <1>14, Zenon DEF Crash, End, Goto, history
  <1>15. ASSUME NEW kind \in Kind, DirectoryGetsLate(kind) PROVE RoleInv'
    BY <1>15, Zenon DEF DirectoryGetsLate, actorVars, bounds
  <1>16. CASE ExpireLease
    BY <1>16, Zenon DEF ExpireLease, actorVars, history
  <1>17. CASE Enable
    BY <1>17, Zenon DEF Enable, actorVars
  <1>18. CASE UNCHANGED vars
    BY <1>18, Zenon DEF vars, actorVars, bounds, history
  <1> QED
    BY <1>1, <1>2, <1>3, <1>4, <1>5, <1>6, <1>7, <1>8, <1>9, <1>10, <1>11, <1>12, <1>13,
       <1>14, <1>15, <1>16, <1>17, <1>18, ZenonT(60) DEF Next, Run, Directory

\* Acquire takes a free lease only, SaveOwned writes for the owner only, and
\* Release deletes the own lease only.
LEMMA LeaseStep == ASSUME Types, RoleInv, LeaseInv, [Next]_vars PROVE LeaseInv'
  <1> USE LifecycleAssumption DEF Types, LeaseInv, OwnerSeesCurrentState, Loaded
  <1>1. ASSUME NEW a \in Actor, Start(a) PROVE LeaseInv'
    BY <1>1, Zenon DEF Start, Goto, bounds, history
  <1>2. ASSUME NEW a \in Actor, Acquire(a) PROVE LeaseInv'
    BY <1>2, ZenonT(60) DEF Acquire, End, Goto, Lose, history
  <1>3. ASSUME NEW a \in Actor, Load(a) PROVE LeaseInv'
    BY <1>3, ZenonT(60) DEF Load, Goto, Lose, history
  <1>4. ASSUME NEW a \in Actor, RecheckDurableConfiguration(a) PROVE LeaseInv'
    BY <1>4, Zenon DEF RecheckDurableConfiguration, Due, Goto, bounds, history
  <1>5. ASSUME NEW a \in Actor, Disable(a) PROVE LeaseInv'
    BY <1>5, Zenon DEF Disable, Goto, bounds, history
  <1>6. ASSUME NEW a \in Actor, Suppress(a) PROVE LeaseInv'
    BY <1>6, Zenon DEF Suppress, SaveOwned, SaveFails, Goto, Lose, history
  <1>7. ASSUME NEW a \in Actor, Send(a) PROVE LeaseInv'
    BY <1>7, Zenon DEF Send, Goto, bounds
  <1>8. ASSUME NEW a \in Actor, HandleAnswer(a) PROVE LeaseInv'
    BY <1>8, Zenon DEF HandleAnswer, Ask, Goto, bounds, history
  <1>9. ASSUME NEW a \in Actor, NoticeLoss(a) PROVE LeaseInv'
    BY <1>9, Zenon DEF NoticeLoss, Lose, Goto, history
  <1>10. ASSUME NEW a \in Actor, SaveFinal(a) PROVE LeaseInv'
    BY <1>10, Zenon DEF SaveFinal, SaveOwned, SaveFails, Lose, Goto
  <1>11. ASSUME NEW a \in Actor, Release(a) PROVE LeaseInv'
    BY <1>11, Zenon DEF Release, End, Goto, bounds, history
  <1>12. ASSUME NEW a \in Actor, DirectoryAnswers(a) PROVE LeaseInv'
    BY <1>12, Zenon DEF DirectoryAnswers, Lose, history
  <1>13. ASSUME NEW a \in Actor, GiveUp(a) PROVE LeaseInv'
    BY <1>13, Zenon DEF GiveUp, Lose, history
  <1>14. ASSUME NEW a \in Actor, Crash(a) PROVE LeaseInv'
    BY <1>14, Zenon DEF Crash, End, Goto, history
  <1>15. ASSUME NEW kind \in Kind, DirectoryGetsLate(kind) PROVE LeaseInv'
    BY <1>15, Zenon DEF DirectoryGetsLate, actorVars, bounds
  <1>16. CASE ExpireLease
    BY <1>16 DEF ExpireLease, actorVars, history
  <1>17. CASE Enable
    BY <1>17, Zenon DEF Enable, actorVars
  <1>18. CASE UNCHANGED vars
    BY <1>18, SMTT(30) DEF vars, actorVars, bounds, history
  <1> QED
    BY <1>1, <1>2, <1>3, <1>4, <1>5, <1>6, <1>7, <1>8, <1>9, <1>10, <1>11, <1>12, <1>13,
       <1>14, <1>15, <1>16, <1>17, <1>18, Zenon DEF Next, Run, Directory

\* Disable is a step of the owner, so that no scheduler is past its recheck and no
\* command waits for an answer; what is sent later is a command that strayed.
LEMMA FileStep == ASSUME Types, RoleInv, LeaseInv, FileInv, [Next]_vars PROVE FileInv'
  <1> USE LifecycleAssumption DEF Types, RoleInv, LeaseInv, FileInv, Actor
  <1>1. ASSUME NEW a \in Actor, Start(a) PROVE FileInv'
    BY <1>1, Zenon DEF Start, Goto, bounds, history
  <1>2. ASSUME NEW a \in Actor, Acquire(a) PROVE FileInv'
    BY <1>2 DEF Acquire, End, Goto, Lose, history
  <1>3. ASSUME NEW a \in Actor, Load(a) PROVE FileInv'
    BY <1>3 DEF Load, Goto, Lose, history
  <1>4. ASSUME NEW a \in Actor, RecheckDurableConfiguration(a) PROVE FileInv'
    BY <1>4 DEF RecheckDurableConfiguration, Due, Goto, bounds, history
  <1>5. ASSUME NEW a \in Actor, Disable(a) PROVE FileInv'
    <2>1. /\ \A b \in Actor \ {a} : pc'[b] = pc[b]
          /\ pc[a] = "disable" /\ pc'[a] \in {"suppress", "release"} /\ (pc'[a] = "suppress" => ~enabled')
      BY <1>5, Zenon DEF Disable, Goto
    <2>2. expiries' = expiries /\ strayed' = strayed /\ confirmed' = confirmed
      BY <1>5, Zenon DEF Disable, bounds, history
    <2>e. ~enabled => ~enabled'
      BY <1>5 DEF Disable
    <2>3. a \in Unregister /\ (expiries = 0 => \A b \in Actor \ {a} : pc[b] \in {"idle", "acquire"})
      BY <2>1, Zenon
    <2> QED
      BY <2>1, <2>2, <2>e, <2>3, ZenonT(60)
  <1>6. ASSUME NEW a \in Actor, Suppress(a) PROVE FileInv'
    BY <1>6, ZenonT(60) DEF Suppress, SaveOwned, SaveFails, Goto, Lose, history
  <1>7. ASSUME NEW a \in Actor, Send(a) PROVE FileInv'
    BY <1>7, ZenonT(30) DEF Send, Goto, bounds
  <1>8. ASSUME NEW a \in Actor, HandleAnswer(a) PROVE FileInv'
    BY <1>8, ZenonT(60) DEF HandleAnswer, Ask, Goto, bounds, history
  <1>9. ASSUME NEW a \in Actor, NoticeLoss(a) PROVE FileInv'
    BY <1>9, Zenon DEF NoticeLoss, Lose, Goto, history
  <1>10. ASSUME NEW a \in Actor, SaveFinal(a) PROVE FileInv'
    BY <1>10, Zenon DEF SaveFinal, SaveOwned, SaveFails, Lose, Goto
  <1>11. ASSUME NEW a \in Actor, Release(a) PROVE FileInv'
    BY <1>11, Zenon DEF Release, End, Goto, bounds, history
  <1>12. ASSUME NEW a \in Actor, DirectoryAnswers(a) PROVE FileInv'
    BY <1>12, Zenon DEF DirectoryAnswers, Lose, history
  <1>13. ASSUME NEW a \in Actor, GiveUp(a) PROVE FileInv'
    BY <1>13, Zenon DEF GiveUp, Lose, history
  <1>14. ASSUME NEW a \in Actor, Crash(a) PROVE FileInv'
    BY <1>14, Zenon DEF Crash, End, Goto, history
  <1>15. ASSUME NEW kind \in Kind, DirectoryGetsLate(kind) PROVE FileInv'
    BY <1>15, Zenon DEF DirectoryGetsLate, actorVars, bounds
  <1>16. CASE ExpireLease
    BY <1>16 DEF ExpireLease, actorVars, history
  <1>17. CASE Enable
    BY <1>17, Zenon DEF Enable, actorVars
  <1>18. CASE UNCHANGED vars
    BY <1>18, SMTT(30) DEF vars, actorVars, bounds, history
  <1> QED
    BY <1>1, <1>2, <1>3, <1>4, <1>5, <1>6, <1>7, <1>8, <1>9, <1>10, <1>11, <1>12, <1>13,
       <1>14, <1>15, <1>16, <1>17, <1>18, ZenonT(30) DEF Next, Run, Directory

\* While the entry is disabled only unregister requests reach the directory.
LEMMA RemoteStep ==
  ASSUME Types, RoleInv, LeaseInv, FileInv, RemoteInv, [Next]_vars PROVE RemoteInv'
  <1> USE LifecycleAssumption
      DEF Types, RoleInv, LeaseInv, FileInv, RemoteInv, UnregisterIsFinal, Actor
  <1>1. ASSUME NEW a \in Actor, Start(a) PROVE RemoteInv'
    BY <1>1, Zenon DEF Start, Goto, bounds, history
  <1>2. ASSUME NEW a \in Actor, Acquire(a) PROVE RemoteInv'
    BY <1>2 DEF Acquire, End, Goto, Lose, history
  <1>3. ASSUME NEW a \in Actor, Load(a) PROVE RemoteInv'
    BY <1>3 DEF Load, Goto, Lose, history
  <1>4. ASSUME NEW a \in Actor, RecheckDurableConfiguration(a) PROVE RemoteInv'
    BY <1>4 DEF RecheckDurableConfiguration, Due, Goto, bounds, history
  <1>5. ASSUME NEW a \in Actor, Disable(a) PROVE RemoteInv'
    BY <1>5 DEF Disable, Goto, bounds, history
  <1>6. ASSUME NEW a \in Actor, Suppress(a) PROVE RemoteInv'
    BY <1>6 DEF Suppress, SaveOwned, SaveFails, Goto, Lose, history
  <1>7. ASSUME NEW a \in Actor, Send(a) PROVE RemoteInv'
    BY <1>7, Zenon DEF Send, Goto, bounds
  <1>8. ASSUME NEW a \in Actor, HandleAnswer(a) PROVE RemoteInv'
    BY <1>8 DEF HandleAnswer, Ask, Goto, bounds, history
  <1>9. ASSUME NEW a \in Actor, NoticeLoss(a) PROVE RemoteInv'
    BY <1>9, Zenon DEF NoticeLoss, Lose, Goto, history
  <1>10. ASSUME NEW a \in Actor, SaveFinal(a) PROVE RemoteInv'
    BY <1>10, Zenon DEF SaveFinal, SaveOwned, SaveFails, Lose, Goto
  <1>11. ASSUME NEW a \in Actor, Release(a) PROVE RemoteInv'
    BY <1>11, Zenon DEF Release, End, Goto, bounds, history
  <1>12. ASSUME NEW a \in Actor, DirectoryAnswers(a) PROVE RemoteInv'
    <2>1. a \in Unregister => remote' \in {FALSE, remote} /\ (answer'[a] = "ok" => ~remote')
      BY <1>12, ZenonT(30) DEF DirectoryAnswers, Effect
    <2>2. expiries = 0 => \A u \in Unregister : u # a => pc[u] \notin {"wait", "save"}
      BY <1>12, Zenon DEF DirectoryAnswers
    <2>3. expiries = 0 /\ ~enabled /\ ~strayed => a \in Unregister
      BY <1>12, Zenon DEF DirectoryAnswers
    <2>4. UNCHANGED <<enabled, pc, expiries, confirmed, overtaken, strayed>>
      BY <1>12, Zenon DEF DirectoryAnswers, history
    <2>5. UnregisterIsFinal'
      BY <2>1, <2>3, <2>4, ZenonT(30)
    <2>6. ASSUME expiries = 0, ~overtaken, NEW u \in Unregister,
                 pc[u] = "save" \/ (pc[u] = "wait" /\ answer'[u] = "ok")
          PROVE  ~remote'
      BY <1>12, <2>1, <2>2, <2>6, ZenonT(60) DEF DirectoryAnswers
    <2> QED
      BY <2>4, <2>5, <2>6, Zenon
  <1>13. ASSUME NEW a \in Actor, GiveUp(a) PROVE RemoteInv'
    BY <1>13, Zenon DEF GiveUp, Lose, history
  <1>14. ASSUME NEW a \in Actor, Crash(a) PROVE RemoteInv'
    BY <1>14, Zenon DEF Crash, End, Goto, history
  <1>15. ASSUME NEW kind \in Kind, DirectoryGetsLate(kind) PROVE RemoteInv'
    BY <1>15, ZenonT(30) DEF DirectoryGetsLate, Effect, Kind, actorVars, bounds
  <1>16. CASE ExpireLease
    BY <1>16 DEF ExpireLease, actorVars, history
  <1>17. CASE Enable
    BY <1>17, Zenon DEF Enable, actorVars
  <1>18. CASE UNCHANGED vars
    BY <1>18, Zenon DEF vars, actorVars, bounds, history
  <1> QED
    BY <1>1, <1>2, <1>3, <1>4, <1>5, <1>6, <1>7, <1>8, <1>9, <1>10, <1>11, <1>12, <1>13,
       <1>14, <1>15, <1>16, <1>17, <1>18, ZenonT(30) DEF Next, Run, Directory

\* A registration that took effect is in the record, or its sender has the answer
\* and will save it.
LEMMA PendingStep == ASSUME Inv, [Next]_vars PROVE PendingInv'
  <1> USE LifecycleAssumption
      DEF Inv, Types, RoleInv, LeaseInv, FileInv, RemoteInv, PendingInv, NoFaults,
          OwnerSeesCurrentState, Loaded, Actor
  <1>1. ASSUME NEW a \in Actor, Start(a) PROVE PendingInv'
    BY <1>1 DEF Start, Goto, bounds, history
  <1>2. ASSUME NEW a \in Actor, Acquire(a) PROVE PendingInv'
    BY <1>2 DEF Acquire, End, Goto, Lose, history
  <1>3. ASSUME NEW a \in Actor, Load(a) PROVE PendingInv'
    BY <1>3 DEF Load, Goto, Lose, history
  <1>4. ASSUME NEW a \in Actor, RecheckDurableConfiguration(a) PROVE PendingInv'
    BY <1>4 DEF RecheckDurableConfiguration, Due, Fresh, Goto, bounds, history
  <1>5. ASSUME NEW a \in Actor, Disable(a) PROVE PendingInv'
    BY <1>5 DEF Disable, Goto, bounds, history
  <1>6. ASSUME NEW a \in Actor, Suppress(a) PROVE PendingInv'
    <2> DEFINE state == [local[a] EXCEPT !.outcome = "disabled"]
    <2>1. state.registered = local[a].registered
      BY DEF State
    <2>2. NoFaults' => lease = a /\ pc[a] = "suppress"
      BY <1>6, Zenon DEF Suppress, Lose, history
    <2>3. /\ store' \in {store, state}
          /\ \A b \in Actor : b # a => UNCHANGED <<pc[b], local[b], request[b], answer[b]>>
          /\ UNCHANGED <<request, remote, late, overtaken, answer>>
          /\ a \notin Scheduler
      BY <1>6 DEF Suppress, SaveOwned, SaveFails, Goto, history
    <2>4. NoFaults' /\ store.registered => store'.registered
      BY <2>1, <2>2, <2>3, ZenonT(30)
    <2>5. NoFaults' => NoFaults
      BY <1>6 DEF Suppress, Lose, SaveFails
    <2> HIDE DEF state
    <2> QED
      BY <2>2, <2>3, <2>4, <2>5, ZenonT(60)
  <1>7. ASSUME NEW a \in Actor, Send(a) PROVE PendingInv'
    BY <1>7, Zenon DEF Send, Goto, bounds
  <1>8. ASSUME NEW a \in Actor, HandleAnswer(a) PROVE PendingInv'
    <2>1. UNCHANGED <<store, remote, late, overtaken, local, answer, expiries, crashes, losses>>
      BY <1>8, Zenon DEF HandleAnswer, bounds, history
    <2>2. \A b \in Actor : b # a => UNCHANGED <<pc[b], request[b]>>
      BY <1>8 DEF HandleAnswer, Ask, Goto
    <2>3. /\ a \in Scheduler /\ pc'[a] \in {"send", "wait"}
          /\ request'[a].kind = "heartbeat" \/ request'[a].phase # "first"
          => local[a].registered
      BY <1>8, Zenon DEF HandleAnswer, Ask, Goto, MayRetry
    <2>4. answer[a] = "ok" =>
             \/ pc'[a] = "save"
             \/ a \in Scheduler /\ pc'[a] = "send" /\ request'[a].phase # "first"
      BY <1>8 DEF HandleAnswer, Ask, Goto
    <2>5. NoFaults => lease = a /\ store = local[a]
      BY <1>8, Zenon DEF HandleAnswer
    <2> QED
      BY <2>1, <2>2, <2>3, <2>4, <2>5
  <1>9. ASSUME NEW a \in Actor, NoticeLoss(a) PROVE PendingInv'
    BY <1>9 DEF NoticeLoss, Lose, Goto, history
  <1>10. ASSUME NEW a \in Actor, SaveFinal(a) PROVE PendingInv'
    <2>1. NoFaults' => NoFaults /\ lease = a /\ store = local[a] /\ store' = Final(a)
      BY <1>10 DEF SaveFinal, SaveOwned, SaveFails, Lose
    <2>2. /\ \A b \in Actor : b # a => UNCHANGED <<pc[b], local[b]>>
          /\ UNCHANGED <<remote, late, overtaken, request, answer>>
          /\ pc[a] = "save" /\ pc'[a] = "release"
      BY <1>10, ZenonT(60) DEF SaveFinal, SaveOwned, SaveFails, Goto
    <2>3. CASE a \in Unregister
      BY <2>1, <2>2, <2>3, Zenon
    <2>4. CASE a \notin Unregister
      <3>1. answer[a] = "ok" => Final(a).registered
        BY <2>4, Zenon DEF Final
      <3>2. answer[a] # "ok" => Final(a).registered = local[a].registered
        BY <2>4 DEF Final, State
      <3> QED
        BY <2>1, <2>2, <3>1, <3>2
    <2> QED
      BY <2>3, <2>4
  <1>11. ASSUME NEW a \in Actor, Release(a) PROVE PendingInv'
    BY <1>11, Zenon DEF Release, End, Goto, bounds, history
  <1>12. ASSUME NEW a \in Actor, DirectoryAnswers(a) PROVE PendingInv'
    <2>1. NoFaults' => NoFaults
      BY <1>12 DEF DirectoryAnswers, Lose
    <2>3. NoFaults' => \/ UNCHANGED remote
                       \/ Effect(request[a].kind) /\ answer'[a] = "ok"
      BY <1>12 DEF DirectoryAnswers, Lose
    <2>4. Effect(request[a].kind) => remote' = remote \/ ~remote' \/ request[a].kind = "register"
      BY Values, ZenonT(30) DEF Effect, Kind
    <2>5. NoFaults' /\ remote' => remote \/ (a \notin Unregister /\ answer'[a] = "ok")
      BY <1>12, <2>3, <2>4, ZenonT(30) DEF DirectoryAnswers
    <2>2. /\ \A b \in Actor : b # a => answer'[b] = answer[b]
          /\ UNCHANGED <<store, late, pc, local, request, overtaken>>
          /\ pc[a] = "wait" /\ answer[a] = "waiting"
      BY <1>12, ZenonT(60) DEF DirectoryAnswers, history
    <2> QED
      BY <2>1, <2>2, <2>5, Zenon
  <1>13. ASSUME NEW a \in Actor, GiveUp(a) PROVE PendingInv'
    BY <1>13 DEF GiveUp, Lose, history
  <1>14. ASSUME NEW a \in Actor, Crash(a) PROVE PendingInv'
    BY <1>14 DEF Crash, End, Goto, history
  <1>15. ASSUME NEW kind \in Kind, DirectoryGetsLate(kind) PROVE PendingInv'
    BY <1>15, Zenon DEF DirectoryGetsLate, actorVars, bounds
  <1>16. CASE ExpireLease
    BY <1>16 DEF ExpireLease, actorVars, history
  <1>17. CASE Enable
    BY <1>17, Zenon DEF Enable, actorVars
  <1>18. CASE UNCHANGED vars
    BY <1>18, Zenon DEF vars, actorVars, bounds, history
  <1> QED
    BY <1>1, <1>2, <1>3, <1>4, <1>5, <1>6, <1>7, <1>8, <1>9, <1>10, <1>11, <1>12, <1>13,
       <1>14, <1>15, <1>16, <1>17, <1>18, ZenonT(30) DEF Next, Run, Directory

-----------------------------------------------------------------------------
(* Theorems                                                                *)

\* The invariants together are inductive.
LEMMA Inductive == Spec => []Inv
  <1>1. Init => Inv
    <2> SUFFICES ASSUME Init PROVE Inv
      OBVIOUS
    <2>1. RoleInv
      BY Values, Zenon DEF Init, RoleInv, Kind
    <2>2. LeaseInv /\ FileInv
      BY Zenon DEF Init, LeaseInv, FileInv, OwnerSeesCurrentState, Loaded, Actor
    <2>3. RemoteInv /\ PendingInv
      BY Zenon DEF Init, RemoteInv, PendingInv, UnregisterIsFinal, NoFaults, Actor
    <2> QED
      BY InitTypes, <2>1, <2>2, <2>3, Zenon DEF Inv
  <1>2. Inv /\ [Next]_vars => Inv'
    BY TypesStep, RoleStep, LeaseStep, FileStep, RemoteStep, PendingStep, Zenon DEF Inv
  <1> QED
    BY <1>1, <1>2, PTL DEF Spec

\* The owner of the lease works on the record that is in Redis, for any number of
\* replicas and commands, expired leases, dead processes and lost answers
\* (SaveOwned, RedisStore).
THEOREM OwnerCurrent == Spec => []OwnerSeesCurrentState
  <1>1. Inv => OwnerSeesCurrentState
    BY Zenon DEF Inv, LeaseInv
  <1> QED
    BY <1>1, Inductive, PTL

\* No scheduler talks to the directory for a disabled entry while leases are
\* renewed in time (runDirectory).
THEOREM SchedulersQuiet == Spec => []SchedulerQuietWhenDisabled
  <1>1. Inv => SchedulerQuietWhenDisabled
    BY Zenon DEF Inv, FileInv, SchedulerQuietWhenDisabled
  <1> QED
    BY <1>1, Inductive, PTL

\* A confirmed unregister command is not undone by any scheduler, for any number of
\* them (unregisterCommand).
THEOREM UnregisterFinal == Spec => []UnregisterIsFinal
  <1>1. Inv => UnregisterIsFinal
    BY Zenon DEF Inv, RemoteInv
  <1> QED
    BY <1>1, Inductive, PTL

\* Without faults, a relay that the directory lists for a disabled entry is recorded
\* as registered (localDirectoryState).
THEOREM PendingSeen == Spec => []PendingIsVisible
  <1>1. Inv => PendingIsVisible
    BY Zenon DEF Inv, Types, FileInv, PendingInv, PendingIsVisible, NoFaults
  <1> QED
    BY <1>1, Inductive, PTL

-----------------------------------------------------------------------------
(* The configuration file.  It shares no variable with the first part.     *)

\* Files, with no bound on their identities, and the two names of a directory.
AnyFile == [ino : Nat, entries : [Entry -> Setting]]
Names == [path : AnyFile, backup : AnyFile \cup {NoFile}]
Disk == [path : SUBSET AnyFile, backup : SUBSET (AnyFile \cup {NoFile})]

\* What the steps below need of the types.
Shape ==
    /\ dir \in Names /\ disk \in Disk /\ dir.path \in disk.path /\ dir.backup \in disk.backup
    /\ DOMAIN place = Editor /\ DOMAIN call = Editor /\ DOMAIN opened = Editor /\ DOMAIN reported = Entry
    /\ \A p \in Editor : opened[p] \in AnyFile \cup {NoFile}
    /\ \A p \in Editor : place[p] # "idle" => call[p] \in Call
    /\ \A p \in Editor : place[p] \notin {"idle", "open"} => opened[p] \in AnyFile
    /\ inodes \in Nat /\ powerLosses \in Nat /\ replaced \in BOOLEAN

\* The entry is enabled.
On(file, e) == file.entries[e] = "on"

\* At most one editor holds the lock of a file, and it renames over the file it
\* locked, unless the operator replaced that one.
Holds(p) == place[p] \notin {"idle", "open", "lock"}
LockInv ==
    /\ \A p, q \in Editor : p # q /\ Holds(p) /\ Holds(q) => opened[p] # opened[q]
    /\ \A p \in Editor : place[p] = "rename" /\ ~replaced => dir.path = opened[p]

\* A disabled entry is so in the file that has the name, and on the disk once the
\* editor has synced; a power loss can undo only what was not yet synced.
Kept(e) ==
    /\ reported[e] # "no" /\ powerLosses = 0 => ~On(dir.path, e)
    /\ reported[e] = "written" => \A f \in disk.path : ~On(f, e)
    /\ \A p \in Editor :
          place[p] = "sync" /\ call[p] = [action |-> "disable", entry |-> e] /\ reported[e] # "no"
             => ~On(dir.path, e)
KeptInv == ~replaced => \A e \in Entry : Kept(e)

\* Without a backup on the disk nothing has been changed yet, ...
NoBackupInv ==
    /\ NoFile \in disk.backup => \A e \in Entry : (\A f \in disk.path : On(f, e)) /\ reported[e] = "no"
    /\ \A f \in disk.backup \ {NoFile} : \E e \in Entry : On(f, e)

\* ... no editor is about to do so, or has read a changed file.
Place(p) ==
    /\ NoFile \in disk.backup =>
          /\ opened[p] # NoFile => \A e \in Entry : On(opened[p], e)
          /\ place[p] # "idle" => call[p].action = "disable"
          /\ place[p] \notin {"check", "rename", "sync"}
    /\ place[p] = "syncBackup" => dir.backup # NoFile
    /\ place[p] \notin {"idle", "open"} => opened[p] # NoFile
    /\ place[p] \in {"backup", "syncBackup", "check", "rename"} => Before(p) # "gone"

BackupInv == NoBackupInv /\ \A p \in Editor : Place(p)

-----------------------------------------------------------------------------
(* What a step does to the names                                           *)

\* Rename (os.Rename over the path) enables no entry and keeps the backup.
LEMMA RenameNames ==
    ASSUME Shape, NEW p \in Editor, Rename(p)
    PROVE  /\ dir' \in Names /\ dir'.backup = dir.backup
           /\ disk' \in Disk /\ disk'.backup = disk.backup /\ disk'.path = disk.path \cup {dir'.path}
           /\ \A e \in Entry : On(dir'.path, e) => On(opened[p], e) /\ e # Edit(p)
<1>1. opened[p] \in AnyFile /\ call[p] \in Call
  BY Zenon DEF Shape, Rename
<1>2. /\ Replacement(p) \in AnyFile
      /\ \A e \in Entry : On(Replacement(p), e) => On(opened[p], e) /\ e # Edit(p)
  BY <1>1 DEF Shape, Replacement, AnyFile, Setting, Edit, On, Call
<1>3. /\ dir' = [dir EXCEPT !.path = Replacement(p)] /\ dir \in Names
      /\ disk' = [disk EXCEPT !.path = @ \cup {Replacement(p)}] /\ disk \in Disk
  BY Zenon DEF Rename, Replace, Shape
<1>4. dir' \in Names /\ dir'.backup = dir.backup /\ dir'.path = Replacement(p)
  BY <1>2, <1>3 DEF Names
<1>5. disk' \in Disk /\ disk'.backup = disk.backup /\ disk'.path = disk.path \cup {Replacement(p)}
  BY <1>2, <1>3 DEF Disk
<1>6. QED
  BY <1>2, <1>4, <1>5, Zenon

\* Backup either keeps the backup there is, or makes one of the file as read.
LEMMA BackupNames ==
    ASSUME Shape, NEW p \in Editor, Backup(p)
    PROVE  \/ /\ preserveBackup(p) /\ dir.backup # NoFile /\ UNCHANGED <<dir, disk>>
              /\ place' = [place EXCEPT ![p] = "check"]
           \/ /\ ~(preserveBackup(p) /\ dir.backup # NoFile)
              /\ dir' \in Names /\ dir'.path = dir.path /\ dir'.backup # NoFile
              /\ disk' \in Disk /\ disk'.path = disk.path /\ disk'.backup = disk.backup \cup {dir'.backup}
              /\ \A e \in Entry : On(dir'.backup, e) <=> On(opened[p], e)
              /\ place' = [place EXCEPT ![p] = "syncBackup"]
<1> DEFINE copy == [opened[p] EXCEPT !.ino = inodes + 1]
<1>1. opened[p] \in AnyFile /\ dir \in Names /\ disk \in Disk /\ inodes \in Nat
  BY Zenon DEF Shape, Backup
<1>2. copy \in AnyFile /\ copy.entries = opened[p].entries
  BY <1>1 DEF AnyFile
<1>3. copy # NoFile /\ \A e \in Entry : On(copy, e) <=> On(opened[p], e)
  BY NoFileAssumption, <1>2, Zenon DEF AnyFile, On
<1> HIDE DEF copy
<1>4. [dir EXCEPT !.backup = copy] \in Names /\ [dir EXCEPT !.backup = copy].path = dir.path
      /\ [dir EXCEPT !.backup = copy].backup = copy
  BY <1>1, <1>2 DEF Names
<1>d. /\ [disk EXCEPT !.backup = @ \cup {copy}] \in Disk
      /\ [disk EXCEPT !.backup = @ \cup {copy}].path = disk.path
      /\ [disk EXCEPT !.backup = @ \cup {copy}].backup = disk.backup \cup {copy}
  BY <1>1, <1>2 DEF Disk
<1>5. CASE preserveBackup(p) /\ dir.backup # NoFile
  BY <1>5, Zenon DEF Backup, Proceed, names
<1>6. CASE ~(preserveBackup(p) /\ dir.backup # NoFile)
  <2>1. /\ dir' = [dir EXCEPT !.backup = copy] /\ place' = [place EXCEPT ![p] = "syncBackup"]
        /\ disk' = [disk EXCEPT !.backup = @ \cup {copy}]
    BY <1>6, Zenon DEF Backup, Proceed, copy
  <2>2. QED
    BY <1>3, <1>4, <1>d, <1>6, <2>1, Zenon
<1>7. QED
  BY <1>5, <1>6, Zenon

\* A replacement by the operator enables all entries.
LEMMA HostNames ==
    ASSUME Shape, HostReplace
    PROVE  /\ dir' \in Names /\ dir'.backup = dir.backup /\ \A e \in Entry : On(dir'.path, e)
           /\ disk' \in Disk /\ disk'.backup = disk.backup /\ disk'.path = {dir'.path}
<1> DEFINE file == [ino |-> inodes + 1, entries |-> [e \in Entry |-> "on"]]
<1>1. file \in AnyFile /\ \A e \in Entry : On(file, e)
  BY DEF Shape, AnyFile, Setting, On
<1>2. dir' = [dir EXCEPT !.path = file] /\ disk' = [disk EXCEPT !.path = {file}] /\ dir \in Names /\ disk \in Disk
  BY Zenon DEF HostReplace, Shape
<1> HIDE DEF file
<1>3. /\ dir' \in Names /\ dir'.backup = dir.backup /\ dir'.path = file
      /\ disk' \in Disk /\ disk'.backup = disk.backup /\ disk'.path = {file}
  BY <1>1, <1>2 DEF Names, Disk
<1>4. QED
  BY <1>1, <1>3, Zenon

\* Synced leaves each name with one file.
LEMMA SyncedNames ==
    ASSUME NEW d \in Names
    PROVE  Synced(d) \in Disk /\ Synced(d).path = {d.path} /\ Synced(d).backup = {d.backup}
  BY DEF Synced, Names, Disk

\* A power loss leaves each name with a file that it had at the last sync or since.
LEMMA LossNames ==
    ASSUME Shape, PowerLoss
    PROVE  /\ dir' \in Names /\ disk' = Synced(dir')
           /\ dir'.path \in disk.path /\ dir'.backup \in disk.backup
<1>1. PICK path \in disk.path, backup \in disk.backup : dir' = [path |-> path, backup |-> backup]
  BY Zenon DEF PowerLoss
<1>2. disk' = Synced(dir') /\ disk \in Disk
  BY Zenon DEF PowerLoss, Shape
<1>3. QED
  BY <1>1, <1>2 DEF Disk, Names

-----------------------------------------------------------------------------
(* The invariants are kept                                                 *)

\* Every step keeps the types.
LEMMA ShapeStep ==
    ASSUME Shape, [EditorNext]_editorVars
    PROVE  Shape'
<1> USE DEF names, editors, editorHistory, editorBounds, Proceed, Return
<1>1. ASSUME NEW p \in Editor, Begin(p) PROVE Shape'
  BY <1>1, Zenon DEF Begin, Shape
<1>2. ASSUME NEW p \in Editor, Open(p) PROVE Shape'
  <2>1. dir.path \in AnyFile
    BY DEF Shape, Names
  <2>2. QED
    BY <1>2, <2>1, Zenon DEF Open, Shape
<1>3. ASSUME NEW p \in Editor, LockSnapshot(p) PROVE Shape'
  BY <1>3, Zenon DEF LockSnapshot, Shape
<1>4. ASSUME NEW p \in Editor, Backup(p) PROVE Shape'
  <2>1. dir' \in Names /\ disk' \in Disk /\ dir'.path \in disk'.path /\ dir'.backup \in disk'.backup
    BY <1>4, BackupNames, Zenon DEF Shape
  <2>2. inodes' \in Nat
    BY <1>4 DEF Backup, Shape
  <2>3. QED
    BY <1>4, <2>1, <2>2, Zenon DEF Backup, Shape
<1>5. ASSUME NEW p \in Editor, SyncBackup(p) PROVE Shape'
  <2>1. disk' \in Disk /\ dir'.path \in disk'.path /\ dir'.backup \in disk'.backup
    BY <1>5, SyncedNames, Zenon DEF SyncBackup, Shape
  <2>2. QED
    BY <1>5, <2>1, Zenon DEF SyncBackup, Shape
<1>6. ASSUME NEW p \in Editor, Check(p) PROVE Shape'
  BY <1>6, Zenon DEF Check, Shape
<1>7. ASSUME NEW p \in Editor, Rename(p) PROVE Shape'
  <2>1. dir' \in Names /\ disk' \in Disk /\ dir'.path \in disk'.path /\ dir'.backup \in disk'.backup
    BY <1>7, RenameNames, Zenon DEF Shape
  <2>2. inodes' \in Nat
    BY <1>7 DEF Rename, Replace, Shape
  <2>3. QED
    BY <1>7, <2>1, <2>2, Zenon DEF Rename, Replace, Shape
<1>8. ASSUME NEW p \in Editor, Sync(p) PROVE Shape'
  <2>1. disk' \in Disk /\ dir'.path \in disk'.path /\ dir'.backup \in disk'.backup
    BY <1>8, SyncedNames, Zenon DEF Sync, Shape
  <2>2. QED
    BY <1>8, <2>1, Zenon DEF Sync, Succeed, Shape
<1>9. ASSUME NEW p \in Editor, Kill(p) PROVE Shape'
  BY <1>9, Zenon DEF Kill, Shape
<1>10. CASE PowerLoss
  <2>1. powerLosses' \in Nat
    BY <1>10 DEF PowerLoss, Shape
  <2>2. dir' \in Names /\ disk' \in Disk /\ dir'.path \in disk'.path /\ dir'.backup \in disk'.backup
    BY <1>10, LossNames, SyncedNames, Zenon
  <2>3. QED
    BY <1>10, <2>1, <2>2, Zenon DEF PowerLoss, Shape
<1>11. CASE HostReplace
  <2>1. inodes' \in Nat
    BY <1>11 DEF HostReplace, Shape
  <2>2. DOMAIN reported' = Entry
    BY <1>11, Zenon DEF HostReplace
  <2>3. replaced' \in BOOLEAN
    BY <1>11, Zenon DEF HostReplace
  <2>4. dir' \in Names /\ disk' \in Disk /\ dir'.path \in disk'.path /\ dir'.backup \in disk'.backup
    BY <1>11, HostNames, Zenon DEF Shape
  <2>5. QED
    BY <1>11, <2>1, <2>2, <2>3, <2>4, Zenon DEF HostReplace, Shape
<1>12. CASE UNCHANGED editorVars
  BY <1>12, Zenon DEF editorVars, Shape
<1>q. QED
  BY <1>1, <1>2, <1>3, <1>4, <1>5, <1>6, <1>7, <1>8, <1>9, <1>10, <1>11, <1>12, Zenon DEF EditorNext, Step

\* Two editors never hold the lock of one file, and an editor about to rename
\* still has the file that it checked.
LEMMA LockStep ==
    ASSUME Shape, LockInv, [EditorNext]_editorVars
    PROVE  LockInv'
<1> USE DEF names, editors, editorHistory, editorBounds, Proceed, Return
<1>0. DOMAIN place = Editor /\ DOMAIN opened = Editor
  BY Zenon DEF Shape
\* A step of p that neither takes a lock nor opens a file.
<1>f. ASSUME NEW p \in Editor, Holds(p)' => Holds(p) /\ opened'[p] = opened[p],
             \A q \in Editor \ {p} : place'[q] = place[q] /\ opened'[q] = opened[q],
             place'[p] # "rename", dir'.path = dir.path, replaced' = replaced
      PROVE  LockInv'
  <2>1. \A q \in Editor : Holds(q)' => Holds(q) /\ opened'[q] = opened[q]
    BY <1>f, Zenon DEF Holds
  <2>2. \A q \in Editor : place'[q] = "rename" => place[q] = "rename" /\ opened'[q] = opened[q]
    BY <1>f, Zenon
  <2>3. QED
    BY <1>f, <2>1, <2>2, ZenonT(60) DEF LockInv
<1>1. ASSUME NEW p \in Editor, Begin(p) PROVE LockInv'
  BY <1>1, <1>0, <1>f, Zenon DEF Begin, Holds
<1>2. ASSUME NEW p \in Editor, Open(p) PROVE LockInv'
  BY <1>2, <1>0, <1>f, Zenon DEF Open, Holds
<1>3. ASSUME NEW p \in Editor, LockSnapshot(p) PROVE LockInv'
  <2>1. /\ \A q \in Editor \ {p} : place'[q] = place[q] /\ opened'[q] = opened[q]
        /\ place'[p] # "rename" /\ dir' = dir /\ replaced' = replaced
    BY <1>3, <1>0, Zenon DEF LockSnapshot
  <2>2. CASE ~Holds(p)'
    BY <2>1, <2>2, <1>f, Zenon
  <2>3. CASE Holds(p)'
    <3>1. opened'[p] = opened[p]
      BY <1>3, <1>0, <2>3, Zenon DEF LockSnapshot, Holds
    <3>2. \A q \in Editor : Holds(q) => opened[q] # opened[p]
      BY <1>3, Zenon DEF LockSnapshot, Locked, Holds
    <3>3. QED
      BY <2>1, <3>1, <3>2, ZenonT(60) DEF LockInv, Holds
  <2>4. QED
    BY <2>2, <2>3, Zenon
<1>4. ASSUME NEW p \in Editor, Backup(p) PROVE LockInv'
  BY <1>4, <1>0, <1>f, BackupNames, Zenon DEF Backup, Holds
<1>5. ASSUME NEW p \in Editor, SyncBackup(p) PROVE LockInv'
  BY <1>5, <1>0, <1>f, Zenon DEF SyncBackup, Holds
<1>6. ASSUME NEW p \in Editor, Check(p) PROVE LockInv'
  <2>1. CASE dir.path # opened[p]
    BY <1>6, <1>0, <2>1, <1>f, Zenon DEF Check, Holds
  <2>2. CASE dir.path = opened[p]
    BY <1>6, <1>0, <2>2, ZenonT(60) DEF Check, Holds, LockInv
  <2>3. QED
    BY <2>1, <2>2, Zenon
<1>7. ASSUME NEW p \in Editor, Rename(p) PROVE LockInv'
  <2>1. /\ \A q \in Editor \ {p} : place'[q] = place[q]
        /\ place'[p] = "sync" /\ place[p] = "rename" /\ opened' = opened /\ replaced' = replaced
    BY <1>7, <1>0, Zenon DEF Rename, Replace
  <2>2. ASSUME NEW q \in Editor, place'[q] = "rename" PROVE replaced'
    BY <2>1, <2>2, Zenon DEF LockInv, Holds
  <2>3. QED
    BY <2>1, <2>2, Zenon DEF LockInv, Holds
<1>8. ASSUME NEW p \in Editor, Sync(p) PROVE LockInv'
  BY <1>8, <1>0, <1>f, Zenon DEF Sync, Succeed, Holds
<1>9. ASSUME NEW p \in Editor, Kill(p) PROVE LockInv'
  BY <1>9, <1>0, <1>f, Zenon DEF Kill, Holds
<1>10. CASE PowerLoss
  BY <1>10, Zenon DEF PowerLoss, LockInv, Holds
<1>11. CASE HostReplace
  BY <1>11, Zenon DEF HostReplace, LockInv, Holds
<1>12. CASE UNCHANGED editorVars
  BY <1>12, Zenon DEF editorVars, LockInv, Holds
<1>q. QED
  BY <1>1, <1>2, <1>3, <1>4, <1>5, <1>6, <1>7, <1>8, <1>9, <1>10, <1>11, <1>12, Zenon DEF EditorNext, Step

\* What is disabled stays so: an editor renames what it made from the file that
\* has the name.
LEMMA KeptStep ==
    ASSUME Shape, LockInv, KeptInv, [EditorNext]_editorVars
    PROVE  KeptInv'
<1> USE DEF names, editors, editorHistory, editorBounds, Proceed, Return
<1>0. DOMAIN place = Editor /\ DOMAIN opened = Editor /\ DOMAIN call = Editor /\ DOMAIN reported = Entry
  BY Zenon DEF Shape
<1> SUFFICES ASSUME ~replaced', NEW e \in Entry
             PROVE  Kept(e)'
  BY Zenon DEF KeptInv
<1>k. ~replaced => Kept(e)
  BY Zenon DEF KeptInv
\* The file keeps its name, no entry is reported, and nobody has renamed.
<1>f. ASSUME dir'.path = dir.path, disk'.path \subseteq disk.path, powerLosses' = powerLosses, reported' = reported,
             replaced' = replaced,
             \A p \in Editor : place'[p] = "sync" => place[p] = "sync" /\ call'[p] = call[p]
      PROVE  Kept(e)'
  BY <1>f, <1>k, Zenon DEF Kept, On
<1>1. CASE \E p \in Editor : Begin(p) \/ Open(p) \/ Check(p) \/ Kill(p)
  BY <1>1, <1>0, <1>f, ZenonT(60) DEF Begin, Open, Check, Kill
<1>s. ASSUME NEW p \in Editor, SyncBackup(p)
      PROVE  Kept(e)'
  <2>1. dir' = dir /\ disk'.path = {dir.path} /\ dir.path \in disk.path
    BY <1>s, SyncedNames, Zenon DEF SyncBackup, Shape
  <2>2. QED
    BY <1>s, <1>0, <1>f, <2>1, Zenon DEF SyncBackup
<1>2. CASE \E p \in Editor : Backup(p)
  BY <1>2, <1>0, <1>f, BackupNames, Zenon DEF Backup
<1>3. ASSUME NEW p \in Editor, LockSnapshot(p)
      PROVE  Kept(e)'
  <2>1. /\ dir' = dir /\ disk' = disk /\ powerLosses' = powerLosses /\ replaced' = replaced
        /\ \A q \in Editor : place'[q] = "sync" => place[q] = "sync" /\ call'[q] = call[q]
    BY <1>3, <1>0, Zenon DEF LockSnapshot
  <2>2. CASE reported' = reported
    BY <2>1, <2>2, <1>f, Zenon
  <2>3. CASE /\ dir.path = opened[p] /\ Before(p) = "off"
             /\ reported' = [reported EXCEPT ![Edit(p)] = IF @ = "written" THEN @ ELSE "found"]
    <3>1. CASE e = Edit(p)
      <4>1. ~On(dir.path, e) /\ (reported'[e] = "written" => reported[e] = "written")
        BY <1>0, <2>3, <3>1, Zenon DEF On, Before
      <4>2. QED
        BY <1>k, <2>1, <4>1, Zenon DEF Kept, On
    <3>2. CASE e # Edit(p)
      BY <1>0, <1>k, <2>1, <2>3, <3>2, Zenon DEF Kept, On
    <3>3. QED
      BY <3>1, <3>2, Zenon
  <2>4. QED
    BY <1>3, <2>2, <2>3, Zenon DEF LockSnapshot
<1>4. ASSUME NEW p \in Editor, Rename(p)
      PROVE  Kept(e)'
  <2>0. dir.path \in disk.path /\ disk'.path = disk.path \cup {dir'.path}
    BY <1>4, RenameNames, Zenon DEF Shape
  <2>1. /\ dir.path = opened[p] /\ ~replaced /\ powerLosses' = powerLosses /\ call' = call
        /\ \A q \in Editor \ {p} : place'[q] = place[q]
    BY <1>4, <1>0, Zenon DEF Rename, Replace, LockInv
  <2>2. On(dir'.path, e) => On(dir.path, e) /\ e # Edit(p)
    BY <1>4, <2>1, RenameNames, Zenon
  <2>3. /\ e # Edit(p) => reported'[e] = reported[e]
        /\ reported'[e] = "written" => reported[e] = "written"
    BY <1>4, <1>0, Zenon DEF Rename, Replace
  <2>4. call[p] = [action |-> "disable", entry |-> e] => e = Edit(p)
    BY DEF Edit
  <2>5. QED
    BY <1>k, <2>0, <2>1, <2>2, <2>3, <2>4, Zenon DEF Kept, On
<1>5. ASSUME NEW p \in Editor, Sync(p)
      PROVE  Kept(e)'
  <2>0. disk'.path = {dir.path} /\ dir.path \in disk.path
    BY <1>5, SyncedNames, Zenon DEF Sync, Shape
  <2>1. /\ dir' = dir /\ powerLosses' = powerLosses /\ call' = call /\ ~replaced
        /\ \A q \in Editor : place'[q] = "sync" => place[q] = "sync"
    BY <1>5, <1>0, Zenon DEF Sync, Succeed
  <2>2. \/ reported'[e] = reported[e]
        \/ call[p].action = "disable" /\ Edit(p) = e /\ reported[e] # "no"
    BY <1>5, <1>0, Zenon DEF Sync, Succeed
  <2>3. CASE reported'[e] = reported[e]
    BY <1>k, <2>0, <2>1, <2>3, Zenon DEF Kept, On
  <2>4. CASE call[p].action = "disable" /\ Edit(p) = e /\ reported[e] # "no"
    <3>1. call[p] = [action |-> "disable", entry |-> e]
      BY <1>5, <2>4 DEF Sync, Shape, Call, Edit
    <3>2. QED
      BY <1>k, <1>5, <2>0, <2>1, <2>4, <3>1, Zenon DEF Sync, Kept, On
  <2>5. QED
    BY <2>2, <2>3, <2>4, Zenon
<1>6. CASE PowerLoss
  <2>1. powerLosses' # 0
    BY <1>6 DEF PowerLoss, Shape
  <2>2. reported' = reported /\ replaced' = replaced /\ \A p \in Editor : place'[p] # "sync"
    BY <1>6, Zenon DEF PowerLoss
  <2>3. dir'.path \in disk.path /\ disk'.path = {dir'.path}
    BY <1>6, LossNames, SyncedNames, Zenon
  <2>4. QED
    BY <1>6, <1>k, <2>1, <2>2, <2>3, Zenon DEF Kept, On
<1>7. CASE HostReplace
  BY <1>7, Zenon DEF HostReplace, Kept
<1>8. CASE UNCHANGED editorVars
  BY <1>8, <1>f, ZenonT(60) DEF editorVars
<1>q. QED
  BY <1>1, <1>s, <1>2, <1>3, <1>4, <1>5, <1>6, <1>7, <1>8, Zenon DEF EditorNext, Step

\* A file that was changed has a backup.
LEMMA BackupStep ==
    ASSUME Shape, BackupInv, [EditorNext]_editorVars
    PROVE  BackupInv'
<1> USE DEF names, editors, editorHistory, editorBounds, Proceed, Return
<1>0. DOMAIN place = Editor /\ DOMAIN opened = Editor /\ DOMAIN call = Editor /\ DOMAIN reported = Entry
  BY Zenon DEF Shape
<1>i. NoBackupInv /\ \A p \in Editor : Place(p)
  BY Zenon DEF BackupInv
\* A step of p that keeps the backups leaves the other editors in their place.
<1>o. ASSUME NEW p \in Editor,
             \A q \in Editor \ {p} : place'[q] = place[q] /\ opened'[q] = opened[q] /\ call'[q] = call[q],
             dir.backup # NoFile => dir'.backup # NoFile,
             NoFile \in disk'.backup => NoFile \in disk.backup
      PROVE  \A q \in Editor \ {p} : Place(q)'
  <2> SUFFICES ASSUME NEW q \in Editor \ {p} PROVE Place(q)'
    OBVIOUS
  <2>1. /\ place'[q] = place[q] /\ opened'[q] = opened[q] /\ call'[q] = call[q] /\ Place(q)
    BY <1>o, <1>i, Zenon
  <2>2. QED
    BY <1>o, <2>1, Zenon DEF Place, On, Before, Edit
\* An editor that keeps its snapshot and its call finds the entry in it as before.
<1>b. ASSUME NEW p \in Editor, opened' = opened, call' = call PROVE Before(p)' = Before(p)
  BY <1>b, Zenon DEF Before, Edit
\* A step that leaves the names alone and reports nothing new.
<1>f. ASSUME UNCHANGED <<dir, disk>>, reported' = reported \/ NoFile \notin disk.backup PROVE NoBackupInv'
  BY <1>f, <1>i, Zenon DEF NoBackupInv, On
<1>1. ASSUME NEW p \in Editor, Begin(p) PROVE BackupInv'
  <2>1. PICK c \in Call : /\ c.action = "remove" => reported[c.entry] \in {"found", "written"}
                          /\ call' = [call EXCEPT ![p] = c]
    BY <1>1, Zenon DEF Begin
  <2>2. NoFile \in disk.backup => c.action = "disable"
    <3>1. c.entry \in Entry /\ c.action \in {"disable", "remove"}
      BY DEF Call
    <3>2. QED
      BY <1>i, <2>1, <3>1, Zenon DEF NoBackupInv
  <2>3. call'[p] = c /\ place'[p] = "open" /\ opened' = opened /\ disk' = disk
    BY <1>1, <1>0, <2>1, Zenon DEF Begin
  <2>4. Place(p)'
    BY <1>i, <2>2, <2>3, Zenon DEF Place, On
  <2>5. QED
    BY <1>1, <1>0, <1>o, <1>f, <2>4, Zenon DEF Begin, BackupInv
<1>2. ASSUME NEW p \in Editor, Open(p) PROVE BackupInv'
  <2>1. dir.path # NoFile
    BY NoFileAssumption DEF Shape, Names, AnyFile
  <2>0. dir.path \in disk.path
    BY Zenon DEF Shape
  <2>2. Place(p)'
    BY <1>2, <1>0, <1>i, <2>0, <2>1, ZenonT(60) DEF Open, NoBackupInv, Place, On
  <2>3. QED
    BY <1>2, <1>0, <1>o, <1>f, <2>2, Zenon DEF Open, BackupInv
<1>3. ASSUME NEW p \in Editor, LockSnapshot(p) PROVE BackupInv'
  <2>1. Place(p)'
    <3>1. /\ UNCHANGED <<dir, disk, call>>
          /\ \/ opened'[p] = NoFile /\ place'[p] \in {"open", "idle"}
             \/ opened' = opened /\ place'[p] = "backup" /\ Before(p) # "gone"
      BY <1>3, <1>0, Zenon DEF LockSnapshot
    <3>2. Place(p) /\ place[p] = "lock"
      BY <1>3, <1>i, Zenon DEF LockSnapshot
    <3>3. QED
      BY <3>1, <3>2, Zenon DEF Place, On, Before, Edit
  <2>2. reported' = reported \/ NoFile \notin disk.backup
    <3>1. Before(p) = "off" => opened[p] # NoFile /\ ~On(opened[p], Edit(p)) /\ Edit(p) \in Entry
      BY <1>3, <1>i DEF LockSnapshot, Shape, Place, Before, Edit, On, Call
    <3>2. QED
      BY <1>3, <1>i, <3>1, ZenonT(60) DEF LockSnapshot, Place
  <2>3. QED
    BY <1>3, <1>0, <1>o, <1>f, <2>1, <2>2, Zenon DEF LockSnapshot, BackupInv
<1>4. ASSUME NEW p \in Editor, Backup(p) PROVE BackupInv'
  <2>0. Edit(p) \in Entry /\ opened[p] # NoFile /\ Before(p) # "gone" /\ Before(p) \in Setting
    BY NoFileAssumption, <1>4, <1>i DEF Backup, Shape, Place, Before, Edit, Call, AnyFile
  <2>1. CASE preserveBackup(p) /\ dir.backup # NoFile
    <3>1. NoFile \notin disk.backup
      BY <1>4, <1>i, <2>0, <2>1, Zenon DEF preserveBackup, Backup, Place, On, Before
    <3>2. UNCHANGED <<dir, disk>> /\ place' = [place EXCEPT ![p] = "check"]
      BY <1>4, <2>1, BackupNames, Zenon
    <3>3. Place(p)'
      BY <1>4, <1>0, <1>i, <1>b, <2>0, <3>1, <3>2, Zenon DEF Backup, Place
    <3>4. QED
      BY <1>4, <1>0, <1>o, <1>f, <3>2, <3>3, Zenon DEF Backup, BackupInv
  <2>2. CASE ~(preserveBackup(p) /\ dir.backup # NoFile)
    <3>1. On(opened[p], Edit(p))
      <4>1. CASE dir.backup = NoFile
        BY <1>i, <2>0, <4>1, Zenon DEF Shape, Place
      <4>2. CASE ~preserveBackup(p)
        BY <2>0, <4>2, Zenon DEF preserveBackup, Before, On, Setting
      <4>3. QED
        BY <2>2, <4>1, <4>2, Zenon
    <3>2. /\ dir'.path = dir.path /\ dir'.backup # NoFile /\ On(dir'.backup, Edit(p))
          /\ place' = [place EXCEPT ![p] = "syncBackup"] /\ reported' = reported
          /\ disk'.path = disk.path /\ disk'.backup = disk.backup \cup {dir'.backup}
      BY <1>4, <2>0, <2>2, <3>1, BackupNames, Zenon DEF Backup
    <3>3. NoBackupInv'
      BY <1>i, <2>0, <3>2, Zenon DEF NoBackupInv, On
    <3>4. Place(p)'
      <4>1. /\ opened' = opened /\ call' = call /\ Before(p)' # "gone" /\ Place(p)
            /\ place'[p] = "syncBackup" /\ place[p] = "backup"
        BY <1>4, <1>0, <1>i, <1>b, <2>0, <3>2, Zenon DEF Backup
      <4>2. QED
        BY <2>0, <3>2, <4>1, ZenonT(60) DEF Place, On
    <3>5. QED
      BY <1>4, <1>0, <1>o, <3>2, <3>3, <3>4, Zenon DEF Backup, BackupInv
  <2>3. QED
    BY <2>1, <2>2, Zenon
<1>5. ASSUME NEW p \in Editor, SyncBackup(p) PROVE BackupInv'
  <2>0. disk'.path = {dir.path} /\ disk'.backup = {dir.backup} /\ dir.path \in disk.path /\ dir.backup \in disk.backup
    BY <1>5, SyncedNames, Zenon DEF SyncBackup, Shape
  <2>1. dir' = dir /\ dir.backup # NoFile /\ NoFile \notin disk'.backup /\ reported' = reported
    BY <1>5, <1>i, <2>0, Zenon DEF SyncBackup, Place
  <2>2. NoBackupInv'
    BY <1>i, <2>0, <2>1, Zenon DEF NoBackupInv, On
  <2>3. Place(p)'
    BY <1>5, <1>0, <1>i, <1>b, <2>1, Zenon DEF SyncBackup, Place
  <2>4. QED
    BY <1>5, <1>0, <1>o, <2>1, <2>2, <2>3, Zenon DEF SyncBackup, BackupInv
<1>6. ASSUME NEW p \in Editor, Check(p) PROVE BackupInv'
  <2>1. Place(p)'
    <3>1. CASE dir.path = opened[p]
      BY <1>6, <1>0, <1>i, <1>b, <3>1, Zenon DEF Check, Place
    <3>2. CASE dir.path # opened[p]
      BY <1>6, <1>0, <1>i, <3>2, Zenon DEF Check, Place
    <3>3. QED
      BY <3>1, <3>2, Zenon
  <2>2. QED
    BY <1>6, <1>0, <1>o, <1>f, <2>1, Zenon DEF Check, BackupInv
<1>7. ASSUME NEW p \in Editor, Rename(p) PROVE BackupInv'
  <2>1. NoFile \notin disk.backup /\ dir'.backup = dir.backup /\ disk'.backup = disk.backup
    BY <1>7, <1>i, RenameNames, Zenon DEF Rename, Place
  <2>2. NoBackupInv'
    BY <1>i, <2>1, Zenon DEF NoBackupInv, On
  <2>3. Place(p)'
    BY <1>7, <1>0, <1>i, <2>1, Zenon DEF Rename, Replace, Place
  <2>4. QED
    BY <1>7, <1>0, <1>o, <2>1, <2>2, <2>3, Zenon DEF Rename, Replace, BackupInv
<1>8. ASSUME NEW p \in Editor, Sync(p) PROVE BackupInv'
  <2>0. disk'.path = {dir.path} /\ disk'.backup = {dir.backup} /\ dir.path \in disk.path /\ dir.backup \in disk.backup
    BY <1>8, SyncedNames, Zenon DEF Sync, Shape
  <2>1. dir' = dir /\ dir.backup # NoFile /\ NoFile \notin disk'.backup
    BY <1>8, <1>i, <2>0, Zenon DEF Sync, Place
  <2>2. NoBackupInv'
    BY <1>i, <2>0, <2>1, Zenon DEF NoBackupInv, On
  <2>3. Place(p)'
    BY <1>8, <1>0, <1>i, <2>1, Zenon DEF Sync, Succeed, Place
  <2>4. QED
    BY <1>8, <1>0, <1>o, <2>1, <2>2, <2>3, Zenon DEF Sync, Succeed, BackupInv
<1>9. ASSUME NEW p \in Editor, Kill(p) PROVE BackupInv'
  <2>1. Place(p)'
    BY <1>9, <1>0, <1>i, Zenon DEF Kill, Place
  <2>2. QED
    BY <1>9, <1>0, <1>o, <1>f, <2>1, Zenon DEF Kill, BackupInv
<1>10. CASE PowerLoss
  <2>1. NoBackupInv'
    <3>1. reported' = reported
      BY <1>10, Zenon DEF PowerLoss
    <3>2. /\ disk'.path = {dir'.path} /\ dir'.path \in disk.path
          /\ disk'.backup = {dir'.backup} /\ dir'.backup \in disk.backup
      BY <1>10, LossNames, SyncedNames, Zenon
    <3>3. QED
      BY <1>i, <3>1, <3>2, Zenon DEF NoBackupInv, On
  <2>2. ASSUME NEW p \in Editor PROVE Place(p)'
    BY <1>10, Zenon DEF PowerLoss, Place
  <2>3. QED
    BY <2>1, <2>2, Zenon DEF BackupInv
<1>11. CASE HostReplace
  <2>1. NoBackupInv'
    BY <1>11, <1>i, HostNames, ZenonT(60) DEF HostReplace, NoBackupInv, On
  <2>2. ASSUME NEW p \in Editor PROVE Place(p)'
    BY <1>11, <1>i, HostNames, ZenonT(60) DEF HostReplace, Place, Before, Edit, On
  <2>3. QED
    BY <2>1, <2>2, Zenon DEF BackupInv
<1>12. CASE UNCHANGED editorVars
  BY <1>12, ZenonT(60) DEF editorVars, BackupInv, NoBackupInv, Place, On, Before, Edit
<1>q. QED
  BY <1>1, <1>2, <1>3, <1>4, <1>5, <1>6, <1>7, <1>8, <1>9, <1>10, <1>11, <1>12, Zenon DEF EditorNext, Step

-----------------------------------------------------------------------------
(* The editors implement AtomicFile                                        *)

\* What RenameNames leaves out: a rename changes the entry of the call, in the
\* file that the editor read.
LEMMA RenameEdits ==
    ASSUME Shape, NEW p \in Editor, Rename(p)
    PROVE  /\ {f.entries : f \in disk'.path} = {f.entries : f \in disk.path} \cup {dir'.path.entries}
           /\ dir'.path.entries = [opened[p].entries EXCEPT
                                      ![Edit(p)] = IF call[p].action = "remove" THEN "gone" ELSE "off"]
           /\ dir'.path.entries \in [Entry -> Setting]
<1>1. dir' = [dir EXCEPT !.path = Replacement(p)] /\ dir \in Names
  BY Zenon DEF Rename, Replace, Shape
<1>2. dir'.path = Replacement(p)
  BY <1>1 DEF Names
<1>3. dir'.path \in AnyFile
  BY RenameNames DEF Names
<1>4. disk'.path = disk.path \cup {dir'.path}
  BY RenameNames, Zenon
<1>5. {f.entries : f \in disk'.path} = {f.entries : f \in disk.path} \cup {dir'.path.entries}
  BY <1>4
<1>6. QED
  BY <1>2, <1>3, <1>5 DEF Replacement, AnyFile

\* Every step of an editor, of the operator or of the machine is a step of
\* AtomicFile or leaves alone what the file says.
LEMMA AtomicStep ==
    ASSUME Shape, LockInv, BackupInv, [EditorNext]_editorVars
    PROVE  [Atomic!Next]_(Atomic!vars)
<1> USE DEF names, editors, editorHistory, editorBounds
<1>0. ASSUME dir'.path = dir.path, disk'.path = disk.path, replaced' = replaced PROVE UNCHANGED Atomic!vars
  BY <1>0, Zenon DEF Atomic!vars
<1>s. ASSUME dir' = dir, disk' = Synced(dir), replaced' = replaced PROVE Atomic!Next
  <2>1. disk'.path = {dir.path}
    BY <1>s, SyncedNames, Zenon DEF Shape
  <2>2. {f.entries : f \in disk'.path} = {dir.path.entries}
    BY <2>1
  <2>3. QED
    BY <1>s, <2>2, Zenon DEF Atomic!Next, Atomic!Save
<1>1. ASSUME NEW p \in Editor, Begin(p) \/ Open(p) \/ LockSnapshot(p) \/ Check(p) \/ Kill(p)
      PROVE  UNCHANGED Atomic!vars
  BY <1>0, <1>1, Zenon DEF Begin, Open, LockSnapshot, Check, Kill
<1>2. ASSUME NEW p \in Editor, Backup(p) PROVE UNCHANGED Atomic!vars
  BY <1>0, <1>2, BackupNames, Zenon DEF Backup
<1>3. ASSUME NEW p \in Editor, SyncBackup(p) \/ Sync(p) PROVE Atomic!Next
  BY <1>s, <1>3, Zenon DEF SyncBackup, Sync
<1>4. ASSUME NEW p \in Editor, Rename(p) PROVE Atomic!Next
  <2>1. replaced' = replaced /\ place[p] = "rename"
    BY <1>4, Zenon DEF Rename
  <2>2. CASE replaced
    <3>1. Atomic!Overwrite
      BY <1>4, <2>1, <2>2, RenameEdits, Zenon DEF Atomic!Overwrite, Atomic!Setting, Setting
    <3>2. QED
      BY <3>1, Zenon DEF Atomic!Next
  <2>3. CASE ~replaced
    <3>1. dir.path = opened[p] /\ Before(p) # "gone"
      BY <2>1, <2>3, Zenon DEF LockInv, BackupInv, Place
    <3>2. Edit(p) \in Entry
      BY <2>1, Zenon DEF Shape, Call, Edit
    <3> DEFINE setting == IF call[p].action = "remove" THEN "gone" ELSE "off"
    <3>3. Atomic!Edit(Edit(p), setting)
      BY <1>4, <2>1, <3>1, RenameEdits, Zenon DEF Atomic!Edit, Before
    <3>4. setting \in {"off", "gone"}
      BY Zenon
    <3> HIDE DEF setting
    <3>5. \E e \in Entry, to \in {"off", "gone"} : Atomic!Edit(e, to)
      BY <3>2, <3>3, <3>4, Zenon DEF Atomic!Edit
    <3>6. QED
      BY <3>5, Zenon DEF Atomic!Next
  <2>4. QED
    BY <2>2, <2>3, Zenon
<1>5. CASE PowerLoss
  <2>1. dir'.path \in disk.path /\ disk'.path = {dir'.path}
    BY <1>5, LossNames, SyncedNames, Zenon
  <2>2. {f.entries : f \in disk'.path} = {dir'.path.entries} /\ dir'.path.entries \in {f.entries : f \in disk.path}
    BY <2>1
  <2>3. Atomic!LosePower
    BY <1>5, <2>2, Zenon DEF PowerLoss, Atomic!LosePower
  <2>4. QED
    BY <2>3, Zenon DEF Atomic!Next
<1>6. CASE HostReplace
  <2>0. dir'.path.entries = Atomic!AllOn /\ disk'.path = {dir'.path}
    BY <1>6, HostNames DEF HostReplace, Shape, Names, Atomic!AllOn
  <2>1. dir'.path.entries = Atomic!AllOn /\ {f.entries : f \in disk'.path} = {Atomic!AllOn}
    BY <2>0
  <2>2. replaced' \in {replaced, TRUE}
    BY <1>6, Zenon DEF HostReplace, Shape
  <2>3. Atomic!Replace
    BY <2>1, <2>2, Zenon DEF Atomic!Replace
  <2>4. QED
    BY <2>3, Zenon DEF Atomic!Next
<1>7. CASE UNCHANGED editorVars
  BY <1>0, <1>7, Zenon DEF editorVars
<1>8. QED
  BY <1>1, <1>2, <1>3, <1>4, <1>5, <1>6, <1>7, Zenon DEF EditorNext, Step

-----------------------------------------------------------------------------
(* The theorems                                                            *)

\* The inductive invariant of the editors.
EditorInv == Shape /\ LockInv /\ KeptInv /\ BackupInv

\* The inductive invariant holds in every behaviour of the editors.
LEMMA EditorInductive == EditorSpec => []EditorInv
<1>1. EditorInit => EditorInv
  <2> SUFFICES ASSUME EditorInit PROVE EditorInv
    OBVIOUS
  <2>0. dir \in Names /\ dir.backup = NoFile /\ \A e \in Entry : On(dir.path, e)
    BY DEF EditorInit, Names, AnyFile, Setting, On
  <2>1. disk \in Disk /\ disk.path = {dir.path} /\ disk.backup = {NoFile}
    BY <2>0, SyncedNames, Zenon DEF EditorInit
  <2>2. Shape
    <3>1. inodes \in Nat /\ powerLosses \in Nat
      BY DEF EditorInit
    <3>2. QED
      BY <2>0, <2>1, <3>1, Zenon DEF EditorInit, Shape
  <2>3. LockInv /\ KeptInv /\ BackupInv
    BY <2>0, <2>1, Zenon DEF EditorInit, LockInv, Holds, KeptInv, Kept, BackupInv, NoBackupInv, Place
  <2>4. QED
    BY <2>2, <2>3 DEF EditorInv
<1>2. EditorInv /\ [EditorNext]_editorVars => EditorInv'
  BY ShapeStep, LockStep, KeptStep, BackupStep, Zenon DEF EditorInv
<1>3. QED
  BY <1>1, <1>2, PTL DEF EditorSpec

\* The editors implement AtomicFile (editFile): for any number of editors, kills
\* and power losses, what the file says changes by whole edits of what it said,
\* by the operator, or by a power loss back to the last sync or an edit since.
THEOREM EditsAreAtomic == EditorSpec => ImplementsAtomicFile
<1>1. EditorInit => Atomic!Init
  BY DEF EditorInit, Synced, Atomic!Init, Atomic!AllOn
<1>2. EditorInv /\ [EditorNext]_editorVars => [Atomic!Next]_(Atomic!vars)
  BY AtomicStep, Zenon DEF EditorInv
<1>3. QED
  BY <1>1, <1>2, EditorInductive, PTL DEF EditorSpec, ImplementsAtomicFile, Atomic!Spec

\* No edit is lost (editFile): whatever editors run at the same time, an entry
\* that one of them disabled is not enabled again by another, unless power is
\* lost or the operator replaces the file under an editor's hands.
THEOREM EditsAreKept == EditorSpec => []DecisionsKept
<1>1. EditorInv => DecisionsKept
  BY Zenon DEF EditorInv, KeptInv, Kept, DecisionsKept, On
<1>2. QED
  BY <1>1, EditorInductive, PTL

\* A reported success survives any number of kills and power losses
\* (atomicReplace and its directory sync).
THEOREM SuccessIsDurable == EditorSpec => []WrittenIsDurable
<1>1. EditorInv => WrittenIsDurable
  BY Zenon DEF EditorInv, KeptInv, Kept, WrittenIsDurable, On
<1>2. QED
  BY <1>1, EditorInductive, PTL

\* A changed file is never without a backup, and a backup always has an entry
\* enabled, for any number of editors, kills and power losses.
THEOREM BackupIsThere == EditorSpec => []BackupRecoverable
<1>1. EditorInv => BackupRecoverable
  BY Zenon DEF EditorInv, Shape, BackupInv, NoBackupInv, BackupRecoverable, On
<1>2. QED
  BY <1>1, EditorInductive, PTL

=============================================================================
