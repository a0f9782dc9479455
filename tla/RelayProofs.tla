---------------------------- MODULE RelayProofs ----------------------------
(***************************************************************************)
(* First part: the marker of RelayLoop, for any network of relays, any     *)
(* number of concurrent requests and any bound on duplicates, expiries and *)
(* faults.                                                                 *)
(*                                                                         *)
(* Second part: the snapshots of RelayState, for any processes, writers    *)
(* and domains, any buffer and any bound on edits and faults.              *)
(***************************************************************************)
EXTENDS RelayLoop, RelayState, TLAPS

\* A handler between its reservation and its end has a token that was drawn,
\* that no one else in progress holds and that is not accounted for yet; the
\* key still holds it, or it expired.
InProgress(r, h) == pc[r][h] \in Busy

HolderAt(r, h) ==
    /\ 1 <= token[r][h] /\ token[r][h] <= tokens[r]
    /\ token[r][h] \notin fanned[r]
    /\ token[r][h] \in lapsed[r] \/ marker[r] = token[r][h]
    /\ \A g \in Handler \ {h} : InProgress(r, g) => token[r][g] # token[r][h]

TokenInv ==
    \A r \in Relay :
        /\ \A t \in fanned[r] : 1 <= t /\ t <= tokens[r]
        /\ \A h \in Handler : InProgress(r, h) => HolderAt(r, h)

LoopInv == TypeOK /\ TokenInv /\ FanoutKeepsMarker /\ MarkerStandsForWork

-----------------------------------------------------------------------------
\* Types hold initially.
LEMMA LoopInitType == Init => TypeOK
  BY LoopAssumption DEF Init, TypeOK, Busy

Pc == {"idle", "reserve"} \cup Busy

\* Moving a handler keeps the type of pc.
LEMMA GotoType ==
    ASSUME pc \in [Relay -> [Handler -> Pc]],
           NEW r \in Relay, NEW h \in Handler, NEW x \in Pc, Goto(r, h, x)
    PROVE  pc' \in [Relay -> [Handler -> Pc]]
  BY Zenon DEF Goto

\* An Announce that is on the wire can be taken from it.
LEMMA TakeType ==
    ASSUME wire \in [Link -> Nat], NEW l \in Link, wire[l] > 0
    PROVE  [wire EXCEPT ![l] = @ - 1] \in [Link -> Nat]
  OBVIOUS

\* Every step of a relay keeps the types.
LEMMA LoopNextType == TypeOK /\ [Next]_vars => TypeOK'
<1> SUFFICES ASSUME TypeOK, [Next]_vars PROVE TypeOK'
  OBVIOUS
<1> USE LoopAssumption DEF TypeOK, Busy
<1>1. ASSUME NEW r \in Relay, ExecuteRelayActivity(r) PROVE TypeOK'
  BY <1>1 DEF ExecuteRelayActivity, Send, markerVars, handlerVars
<1>2. ASSUME NEW r \in Relay, ExpireMarker(r) PROVE TypeOK'
  BY <1>2 DEF ExpireMarker, handlerVars
<1>3. ASSUME NEW l \in Link, DropAnnounce(l) PROVE TypeOK'
  BY <1>3 DEF DropAnnounce, markerVars, handlerVars, bounds
<1>4. ASSUME NEW r \in Relay, NEW h \in Handler, NEW q \in Relay, ReceiveAnnounce(r, h, q)
      PROVE TypeOK'
  <2>1. wire' \in [Link -> Nat]
    <3>1. <<q, r>> \in Link
      BY Zenon DEF Link
    <3> QED
      BY <1>4, <3>1, TakeType, ZenonT(60) DEF ReceiveAnnounce
  <2>2. pc' \in [Relay -> [Handler -> Pc]]
    BY <1>4, GotoType, Zenon DEF ReceiveAnnounce, Pc
  <2>3. source' \in [Relay -> [Handler -> Relay]]
    <3>1. source' = [source EXCEPT ![r][h] = q] \/ source' = source
      BY <1>4, Zenon DEF ReceiveAnnounce
    <3>2. [source EXCEPT ![r][h] = q] \in [Relay -> [Handler -> Relay]]
      BY Zenon
    <3> QED
      BY <3>1, <3>2, Zenon
  <2>4. duplicates' \in 0 .. MaxDuplicates
    <3>1. duplicates' = duplicates \/ (duplicates < MaxDuplicates /\ duplicates' = duplicates + 1)
      BY <1>4, Zenon DEF ReceiveAnnounce
    <3> QED
      BY <3>1
  <2> QED
    BY <1>4, <2>1, <2>2, <2>3, <2>4, Zenon DEF ReceiveAnnounce, Pc, markerVars
<1>5. ASSUME NEW r \in Relay, NEW h \in Handler, ReserveCanonicalRelayActivity(r, h)
      PROVE TypeOK'
  <2>1. CASE Reserve(r, h) /\ UNCHANGED faults
    <3>1. pc' \in [Relay -> [Handler -> Pc]]
      BY <2>1, GotoType, Zenon DEF Pc, Reserve
    <3>2. token' \in [Relay -> [Handler -> Nat]]
      <4>1. \A n \in Nat : [token EXCEPT ![r][h] = n] \in [Relay -> [Handler -> Nat]]
        OBVIOUS
      <4> QED
        BY <2>1, <4>1 DEF Reserve
    <3>3. marker' \in [Relay -> Nat] /\ tokens' \in [Relay -> Nat]
      BY <2>1 DEF Reserve
    <3>4. \A i \in Relay : marker'[i] <= tokens'[i]
      BY <2>1 DEF Reserve
    <3> QED
      BY <1>5, <2>1, <3>1, <3>2, <3>3, <3>4, Zenon DEF ReserveCanonicalRelayActivity, Pc, Reserve
  <2>2. CASE Goto(r, h, "idle") /\ UNCHANGED <<marker, token, tokens>>
    <3>1. pc' \in [Relay -> [Handler -> Pc]]
      BY <2>2, GotoType, Zenon DEF Pc
    <3> QED
      BY <1>5, <2>2, <3>1 DEF ReserveCanonicalRelayActivity, Pc, Reserve, Fault
  <2> QED
    BY <1>5, <2>1, <2>2, Zenon DEF ReserveCanonicalRelayActivity
<1>6. ASSUME NEW r \in Relay, NEW h \in Handler, RecordPublisher(r, h)
      PROVE TypeOK'
  <2>1. pc' \in [Relay -> [Handler -> Pc]]
    BY <1>6, GotoType, Zenon DEF RecordPublisher, Pc
  <2> QED
    BY <1>6, <2>1 DEF RecordPublisher, Pc, markerVars, Fault
<1>7. ASSUME NEW r \in Relay, NEW h \in Handler, EnqueueActivityForAllExcept(r, h)
      PROVE TypeOK'
  <2>1. pc' \in [Relay -> [Handler -> Pc]]
    BY <1>7, GotoType, Zenon DEF EnqueueActivityForAllExcept, Pc
  <2>2. wire' \in [Link -> Nat]
    BY <1>7 DEF EnqueueActivityForAllExcept, Send
  <2>3. token[r][h] \in Nat
    OBVIOUS
  <2>4. fanned' \in [Relay -> SUBSET Nat]
    <3>1. fanned[r] \cup {token[r][h]} \in SUBSET Nat
      BY <2>3, Zenon
    <3> QED
      BY <1>7, <3>1, Zenon DEF EnqueueActivityForAllExcept
  <2> QED
    BY <1>7, <2>1, <2>2, <2>4 DEF EnqueueActivityForAllExcept, Pc, markerVars, Fault
<1>8. ASSUME NEW r \in Relay, NEW h \in Handler, ReleaseCanonicalRelayActivity(r, h)
      PROVE TypeOK'
  <2>1. pc' \in [Relay -> [Handler -> Pc]]
    BY <1>8, GotoType, Zenon DEF ReleaseCanonicalRelayActivity, Pc
  <2>2. token[r][h] \in Nat
    OBVIOUS
  <2>3. abandoned' \in [Relay -> SUBSET Nat]
    <3>1. abandoned[r] \cup {token[r][h]} \in SUBSET Nat
      BY <2>2, Zenon
    <3> QED
      BY <1>8, <3>1, ZenonT(60) DEF ReleaseCanonicalRelayActivity
  <2>4. PICK n \in Nat : n <= marker[r] /\ marker' = [marker EXCEPT ![r] = n]
    <3>1. marker = [marker EXCEPT ![r] = marker[r]]
      OBVIOUS
    <3> QED
      BY <1>8, <3>1 DEF ReleaseCanonicalRelayActivity
  <2> QED
    BY <1>8, <2>1, <2>3, <2>4 DEF ReleaseCanonicalRelayActivity, Pc, Fault
<1>9. ASSUME NEW r \in Relay, NEW h \in Handler, Die(r, h) PROVE TypeOK'
  BY <1>9 DEF Die, Goto, Fault
<1>10. CASE UNCHANGED vars
  BY <1>10, Zenon DEF vars, markerVars, handlerVars, bounds
<1> QED
  BY <1>1, <1>2, <1>3, <1>4, <1>5, <1>6, <1>7, <1>8, <1>9, <1>10, Zenon DEF Next, Handle

-----------------------------------------------------------------------------
\* A step that touches neither tokens nor markers, and moves no handler into
\* or out of the part between reservation and end, keeps the invariant.
LEMMA LoopFrame ==
    ASSUME LoopInv, TypeOK', UNCHANGED <<marker, tokens, lapsed, abandoned, token, fanned>>,
           \A r \in Relay, h \in Handler : InProgress(r, h)' <=> InProgress(r, h)
    PROVE  LoopInv'
  BY DEF LoopInv, TokenInv, HolderAt, FanoutKeepsMarker, MarkerStandsForWork, InProgress

\* SET NX succeeds only when no fan-out holds the key, with a new token.
LEMMA LoopReserve ==
    ASSUME LoopInv, TypeOK', NEW r \in Relay, NEW h \in Handler,
           ReserveCanonicalRelayActivity(r, h)
    PROVE  LoopInv'
<1> USE DEF TypeOK
<1>1. CASE Reserve(r, h) /\ marker[r] = 0
  <2>0. /\ TokenInv /\ TypeOK
        /\ UNCHANGED <<fanned, lapsed>>
        /\ tokens' = [tokens EXCEPT ![r] = tokens[r] + 1]
        /\ marker' = [marker EXCEPT ![r] = tokens[r] + 1]
        /\ pc' = [pc EXCEPT ![r][h] = "record"]
        /\ token' = [token EXCEPT ![r][h] = tokens[r] + 1]
        /\ ~InProgress(r, h)
    BY <1>1, Zenon DEF LoopInv, ReserveCanonicalRelayActivity, Reserve, Goto, InProgress, Busy
  <2>1. TokenInv'
    <3> SUFFICES ASSUME NEW q \in Relay
                 PROVE  /\ \A t \in fanned'[q] : 1 <= t /\ t <= tokens'[q]
                        /\ \A g \in Handler : InProgress(q, g)' => HolderAt(q, g)'
      BY Zenon DEF TokenInv
    <3>1. CASE q # r
      BY <2>0, <3>1, SMTT(30) DEF TokenInv, HolderAt, InProgress
    <3>2. CASE q = r
      <4>1. \A t \in fanned'[q] : 1 <= t /\ t <= tokens'[q]
        BY <2>0, <3>2 DEF TokenInv
      <4>2. \A g \in Handler \ {h} : /\ InProgress(r, g)' <=> InProgress(r, g)
                                      /\ token'[r][g] = token[r][g]
        BY <2>0 DEF InProgress
      <4>3. token'[r][h] = tokens[r] + 1 /\ marker'[r] = tokens[r] + 1 /\ tokens'[r] = tokens[r] + 1
        BY <2>0
      <4>4. \A g \in Handler \ {h} : InProgress(r, g) => HolderAt(r, g) /\ token[r][g] \in Nat
        BY <2>0 DEF TokenInv
      <4>5. \A g \in Handler \ {h} : InProgress(r, g) => token[r][g] \in lapsed[r]
        BY <1>1, <4>4, SMTT(30) DEF HolderAt
      <4>6. HolderAt(r, h)'
        BY <2>0, <4>2, <4>3, <4>4, SMTT(30) DEF HolderAt, TokenInv
      <4>7. ASSUME NEW g \in Handler \ {h}, InProgress(r, g)' PROVE HolderAt(r, g)'
        <5>1. /\ InProgress(r, g) /\ HolderAt(r, g) /\ token'[r][g] = token[r][g]
              /\ token[r][g] \in Nat /\ token[r][g] \in lapsed[r]
          BY <4>2, <4>4, <4>5, <4>7, Zenon
        <5>2. 1 <= token[r][g] /\ token[r][g] <= tokens[r] + 1 /\ token[r][g] # tokens[r] + 1
          <6>1. 1 <= token[r][g] /\ token[r][g] <= tokens[r]
            BY <5>1, Zenon DEF HolderAt
          <6>2. tokens[r] \in Nat
            BY <2>0, Zenon
          <6>3. \A a, b \in Nat : a <= b => a <= b + 1 /\ a # b + 1
            OBVIOUS
          <6> QED
            BY <5>1, <6>1, <6>2, <6>3, SMTT(30)
        <5>3. \A f \in Handler \ {g} : InProgress(r, f)' => token'[r][f] # token'[r][g]
          BY <4>2, <4>3, <5>1, <5>2, Zenon DEF HolderAt
        <5>4. token'[r][g] \notin fanned'[r] /\ token'[r][g] \in lapsed'[r]
          BY <2>0, <5>1, Zenon DEF HolderAt
        <5> QED
          BY <4>3, <5>1, <5>2, <5>3, <5>4, SMTT(30) DEF HolderAt
      <4> QED
        BY <3>2, <4>1, <4>6, <4>7, Zenon
    <3> QED
      BY <3>1, <3>2, Zenon
  <2>2. FanoutKeepsMarker'
    BY <1>1 DEF LoopInv, TokenInv, HolderAt, FanoutKeepsMarker, ReserveCanonicalRelayActivity, Reserve
  <2>3. MarkerStandsForWork'
    BY <1>1, SMTT(30) DEF LoopInv, MarkerStandsForWork, ReserveCanonicalRelayActivity, Reserve, Goto, Busy
  <2> QED
    BY <2>1, <2>2, <2>3, Zenon DEF LoopInv
<1>2. CASE Goto(r, h, "idle") /\ UNCHANGED <<marker, token, tokens>>
  BY <1>2, LoopFrame, ZenonT(60)
     DEF LoopInv, ReserveCanonicalRelayActivity, Goto, InProgress, Busy
<1> QED
  BY <1>1, <1>2, Zenon DEF ReserveCanonicalRelayActivity

\* A fan-out that was queued leaves the key with its token, unless it expired.
LEMMA LoopEnqueue ==
    ASSUME LoopInv, TypeOK', NEW r \in Relay, NEW h \in Handler,
           EnqueueActivityForAllExcept(r, h)
    PROVE  LoopInv'
<1> USE DEF TypeOK
<1>1. CASE fanned' = [fanned EXCEPT ![r] = @ \cup {token[r][h]}] /\ Goto(r, h, "idle")
  <2>1. TokenInv'
    BY <1>1, SMTT(30) DEF LoopInv, TokenInv, HolderAt, InProgress, EnqueueActivityForAllExcept, markerVars, Goto, Busy
  <2>2. FanoutKeepsMarker'
    BY <1>1 DEF LoopInv, TokenInv, HolderAt, FanoutKeepsMarker, InProgress, EnqueueActivityForAllExcept,
                markerVars, Busy
  <2>3. MarkerStandsForWork'
    BY <1>1 DEF LoopInv, MarkerStandsForWork, EnqueueActivityForAllExcept, markerVars, Goto, Busy
  <2> QED
    BY <2>1, <2>2, <2>3, Zenon DEF LoopInv
<1>2. CASE UNCHANGED fanned /\ Goto(r, h, "release")
  BY <1>2, LoopFrame, SMTT(30)
     DEF LoopInv, EnqueueActivityForAllExcept, markerVars, Goto, InProgress, Busy
<1> QED
  BY <1>1, <1>2, Zenon DEF EnqueueActivityForAllExcept

\* A release deletes only its own token, and that one has no fan-out.
LEMMA LoopRelease ==
    ASSUME LoopInv, TypeOK', NEW r \in Relay, NEW h \in Handler,
           ReleaseCanonicalRelayActivity(r, h)
    PROVE  LoopInv'
<1> USE DEF TypeOK
<1>0. /\ TokenInv /\ TypeOK /\ InProgress(r, h)
      /\ UNCHANGED <<fanned, lapsed, tokens, token>>
      /\ pc' = [pc EXCEPT ![r][h] = "idle"]
      /\ \/ marker' = [marker EXCEPT ![r] = IF marker[r] = token[r][h] THEN 0 ELSE marker[r]]
         \/ marker' = marker /\ token[r][h] \in abandoned'[r]
  BY DEF LoopInv, ReleaseCanonicalRelayActivity, Goto, InProgress, Busy
<1>a. \A q \in Relay, g \in Handler :
         InProgress(q, g)' => InProgress(q, g) /\ ~(q = r /\ g = h)
  BY <1>0, ZenonT(60) DEF InProgress, Busy
<1>b. \A q \in Relay : q # r => marker'[q] = marker[q]
  BY <1>0, SMTT(30)
<1>c. marker'[r] = marker[r] \/ (marker[r] = token[r][h] /\ marker'[r] = 0)
  BY <1>0, Zenon
<1>1. TokenInv'
  <2> SUFFICES ASSUME NEW q \in Relay, NEW g \in Handler, InProgress(q, g)'
               PROVE  HolderAt(q, g)'
    BY <1>0, SMTT(30) DEF TokenInv
  <2>1. InProgress(q, g) /\ HolderAt(q, g)
    BY <1>0, <1>a, Zenon DEF TokenInv
  <2>2. token[q][g] \in lapsed[q] \/ marker'[q] = token[q][g]
    <3>1. CASE q # r
      BY <1>b, <2>1, <3>1, SMTT(30) DEF HolderAt
    <3>2. CASE q = r
      BY <1>0, <1>a, <1>c, <2>1, <3>2, Zenon DEF HolderAt
    <3> QED
      BY <3>1, <3>2, Zenon
  <2> QED
    BY <1>0, <1>a, <2>1, <2>2, Zenon DEF HolderAt
<1>2. FanoutKeepsMarker'
  BY DEF LoopInv, TokenInv, HolderAt, FanoutKeepsMarker, InProgress, ReleaseCanonicalRelayActivity, Busy
<1>3. MarkerStandsForWork'
  <2> SUFFICES ASSUME NEW q \in Relay, marker'[q] # 0
               PROVE  \/ marker'[q] \in fanned'[q] \cup abandoned'[q]
                      \/ \E g \in Handler : pc'[q][g] \in Busy /\ token'[q][g] = marker'[q]
    BY Zenon DEF MarkerStandsForWork
  <2>1. marker'[q] = marker[q] /\ abandoned[q] \subseteq abandoned'[q]
    BY <1>b, <1>c DEF ReleaseCanonicalRelayActivity, LoopInv
  <2>2. CASE marker[q] \in fanned[q] \cup abandoned[q]
    BY <1>0, <2>1, <2>2
  <2>3. ASSUME NEW g \in Handler, pc[q][g] \in Busy, token[q][g] = marker[q]
        PROVE  \/ marker'[q] \in abandoned'[q]
               \/ pc'[q][g] \in Busy /\ token'[q][g] = marker'[q]
    <3>1. CASE q = r /\ g = h
      BY <1>0, <2>1, <2>3, <3>1, Zenon
    <3>2. CASE ~(q = r /\ g = h)
      BY <1>0, <2>1, <2>3, <3>2, ZenonT(60)
    <3> QED
      BY <3>1, <3>2, Zenon
  <2> QED
    BY <2>1, <2>2, <2>3, Zenon DEF LoopInv, MarkerStandsForWork
<1> QED
  BY <1>1, <1>2, <1>3, Zenon DEF LoopInv

\* A dead handler leaves its token behind as abandoned.
LEMMA LoopDie ==
    ASSUME LoopInv, TypeOK', NEW r \in Relay, NEW h \in Handler, Die(r, h)
    PROVE  LoopInv'
<1> USE DEF TypeOK
<1>1. TokenInv'
  BY SMTT(30) DEF LoopInv, TokenInv, HolderAt, InProgress, Die, Goto, Busy
<1>2. FanoutKeepsMarker'
  BY Zenon DEF LoopInv, FanoutKeepsMarker, Die
<1>3. MarkerStandsForWork'
  BY DEF LoopInv, MarkerStandsForWork, Die, Goto, Busy
<1> QED
  BY <1>1, <1>2, <1>3, Zenon DEF LoopInv

\* An expired token is remembered as lapsed.
LEMMA LoopExpire ==
    ASSUME LoopInv, TypeOK', NEW r \in Relay, ExpireMarker(r)
    PROVE  LoopInv'
<1> USE DEF TypeOK
<1>1. TokenInv'
  BY DEF LoopInv, TokenInv, HolderAt, InProgress, ExpireMarker, handlerVars
<1>2. FanoutKeepsMarker'
  BY Zenon DEF LoopInv, FanoutKeepsMarker, ExpireMarker
<1>3. MarkerStandsForWork'
  BY Zenon DEF LoopInv, MarkerStandsForWork, ExpireMarker, handlerVars
<1> QED
  BY <1>1, <1>2, <1>3, Zenon DEF LoopInv

-----------------------------------------------------------------------------
\* The invariant is inductive.
LEMMA LoopStep == LoopInv /\ [Next]_vars => LoopInv'
<1> SUFFICES ASSUME LoopInv, [Next]_vars PROVE LoopInv'
  OBVIOUS
<1>t. TypeOK'
  BY LoopNextType, Zenon DEF LoopInv
<1>1. ASSUME NEW r \in Relay, ExecuteRelayActivity(r) PROVE LoopInv'
  BY <1>1, <1>t, LoopFrame, Zenon DEF ExecuteRelayActivity, markerVars, handlerVars, InProgress
<1>2. ASSUME NEW l \in Link, DropAnnounce(l) PROVE LoopInv'
  BY <1>2, <1>t, LoopFrame, Zenon DEF DropAnnounce, markerVars, handlerVars, InProgress
<1>3. ASSUME NEW r \in Relay, NEW h \in Handler, NEW q \in Relay, ReceiveAnnounce(r, h, q)
      PROVE LoopInv'
  <2>1. UNCHANGED <<marker, tokens, lapsed, abandoned, token, fanned>>
    BY <1>3, Zenon DEF ReceiveAnnounce, markerVars
  <2>2. pc[r][h] = "idle" /\ pc \in [Relay -> [Handler -> Pc]]
    BY <1>3, Zenon DEF ReceiveAnnounce, LoopInv, TypeOK, Pc
  <2>3. pc' = [pc EXCEPT ![r][h] = "reserve"] \/ pc' = pc
    BY <1>3, Zenon DEF ReceiveAnnounce, Goto
  <2>4. \A p \in Relay, g \in Handler : InProgress(p, g)' <=> InProgress(p, g)
    BY <2>2, <2>3 DEF InProgress, Busy
  <2> QED
    BY <1>t, <2>1, <2>4, LoopFrame, Zenon
<1>4. ASSUME NEW r \in Relay, NEW h \in Handler, RecordPublisher(r, h)
      PROVE LoopInv'
  <2>1. UNCHANGED <<marker, tokens, lapsed, abandoned, token, fanned>>
    BY <1>4, Zenon DEF RecordPublisher, markerVars
  <2>2. pc[r][h] = "record" /\ pc \in [Relay -> [Handler -> Pc]]
    BY <1>4, Zenon DEF RecordPublisher, LoopInv, TypeOK, Pc
  <2>3. \E x \in {"enqueue", "release"} : pc' = [pc EXCEPT ![r][h] = x]
    BY <1>4, Zenon DEF RecordPublisher, Goto
  <2>4. \A q \in Relay, g \in Handler : InProgress(q, g)' <=> InProgress(q, g)
    BY <2>2, <2>3 DEF InProgress, Busy
  <2> QED
    BY <1>t, <2>1, <2>4, LoopFrame, Zenon
<1>5. CASE UNCHANGED vars
  BY <1>5, <1>t, LoopFrame, Zenon DEF vars, markerVars, handlerVars, InProgress
<1> QED
  BY <1>t, <1>1, <1>2, <1>3, <1>4, <1>5,
     LoopReserve, LoopEnqueue, LoopRelease, LoopDie, LoopExpire, Zenon DEF Next, Handle

\* The invariant holds in every reachable state.
LEMMA LoopInvariant == Spec => []LoopInv
<1>1. Init => LoopInv
  BY LoopInitType
     DEF Init, LoopInv, TokenInv, HolderAt, InProgress, Busy, FanoutKeepsMarker, MarkerStandsForWork
<1> QED
  BY <1>1, LoopStep, PTL DEF Spec

\* Once executeAnnounceActivity has queued a fan-out, the canonical marker
\* keeps its token until the retention ends, so that no second fan-out of
\* the same activity starts before.
THEOREM NoSecondFanout == Spec => []FanoutKeepsMarker
  BY LoopInvariant, PTL DEF LoopInv

\* A marker stands for a fan-out that is queued or in progress, or for a
\* handler that died or could not run the release script.
THEOREM MarkerMeansWork == Spec => []MarkerStandsForWork
  BY LoopInvariant, PTL DEF LoopInv

-----------------------------------------------------------------------------
(* The relay state.  It shares no variable with the first part.            *)

\* What the functions of the state are defined on, and that only a follower
\* can be incomplete.
Shape ==
    /\ DOMAIN redis = Section /\ \A s \in Section : DOMAIN redis[s] = Key(s)
    /\ \A s \in Section \ {"followers"} : \A k \in Key(s) : redis[s][k] # "broken"
    /\ DOMAIN cache = Process /\ DOMAIN scan = Process
    /\ DOMAIN buf = Process /\ \A p \in Process : DOMAIN buf[p] = Section
    /\ DOMAIN mode = Process /\ DOMAIN lost = Process /\ DOMAIN wpc = Writer
    /\ DOMAIN stage = Process /\ \A p \in Process : stage[p] \in 0 .. 10
    /\ DOMAIN inbox = Process /\ \A p \in Process : inbox[p] \in Nat

\* The process will load what it has not read yet, or a change is lost to it.
Due(p) == lost[p] \/ inbox[p] > 0 \/ \E w \in Writer : wpc[w] = "publish"

\* What a load that nothing races with makes of a section.
Matches(values, s) ==
    \A k \in Key(s) : values[k] = IF redis[s][k] = "broken" THEN "none" ELSE redis[s][k]

\* The load has passed the section.
Passed(p, s) == \E i \in 1 .. stage[p] - 1 : LoadOrder[i] = s

\* Unless a change is still to come, what a load has read is what Redis holds,
\* and a scan that was just made found the keys that are there.
LoadInv(p) ==
    (stage[p] # 0 /\ ~Due(p)) =>
        /\ \A s \in Section : Passed(p, s) => Matches(buf[p][s], s)
        /\ \A s \in Scanned : LoadOrder[stage[p]] = s => scan[p] = {d \in Domain : redis[s][d] # "none"}

\* Unless a change is still to come, the snapshot of a process that does not
\* load is what Redis holds.
RestInv(p) == (mode[p] \in {"loaded", "listening"} /\ stage[p] = 0 /\ ~Due(p)) => Current(p)

\* Only a process that listens has notifications, and only one that starts or
\* listens loads.
ModeInv(p) ==
    /\ mode[p] \in {"down", "starting", "loaded", "listening"}
    /\ mode[p] # "listening" => inbox[p] = 0
    /\ mode[p] \in {"down", "loaded"} => stage[p] = 0

\* The inductive invariant, process by process.
ProcessInv(p) == LoadInv(p) /\ RestInv(p) /\ ModeInv(p)
Inv == Shape /\ \A p \in Process : ProcessInv(p)

-----------------------------------------------------------------------------
\* What the order of Load says: the snapshot comes last, every section comes
\* before it, and a scanned section follows its scan.
LEMMA Order ==
    /\ \A n \in 1 .. 10 : LoadOrder[n] = "snapshot" <=> n = 10
    /\ \A s \in Section : \E i \in 1 .. 9 : LoadOrder[i] = s
    /\ LoadOrder[1] \notin Scanned
    /\ \A n \in 1 .. 9 : LoadOrder[n + 1] \in Scanned => LoadOrder[n] = "scan"
    /\ "scan" \notin Section /\ "publishers" \notin Section /\ "snapshot" \notin Section
  BY DEF LoadOrder, Section, Scanned

\* Load reads every section once.
LEMMA Once ==
    \A s \in Section, i, j \in 1 .. 10 : LoadOrder[i] = s /\ LoadOrder[j] = s => i = j
  BY DEF LoadOrder, Section

\* Load makes nothing of a record that is incomplete and leaves others alone.
LEMMA CheckedValue ==
    ASSUME NEW s \in Scanned, NEW v, v # "none", s = "subscribers" => v # "broken"
    PROVE  Checked(s, v) = IF v = "broken" THEN "none" ELSE v
  BY Zenon DEF Checked, Scanned

\* A step that leaves a process alone and tells it of what it changes.
Apart(p) ==
    /\ mode'[p] = mode[p] /\ stage'[p] = stage[p] /\ cache'[p] = cache[p]
    /\ buf'[p] = buf[p] /\ scan'[p] = scan[p]
    /\ mode[p] # "listening" => inbox'[p] = inbox[p]
    /\ Due(p)' \/ mode[p] = "down" \/ (redis' = redis /\ ~Due(p))

\* Such a step keeps what is known of the process.
LEMMA ApartKeeps ==
    ASSUME NEW p \in Process, ProcessInv(p), Apart(p)
    PROVE  ProcessInv(p)'
<1>1. ModeInv(p)'
  BY Zenon DEF Apart, ProcessInv, ModeInv
<1>2. CASE Due(p)'
  BY <1>1, <1>2, Zenon DEF ProcessInv, LoadInv, RestInv
<1>3. CASE mode[p] = "down"
  <2>1. mode'[p] = "down" /\ stage'[p] = 0
    BY <1>3, Zenon DEF Apart, ProcessInv, ModeInv
  <2>2. QED
    BY <1>1, <2>1, Zenon DEF ProcessInv, LoadInv, RestInv
<1>4. CASE redis' = redis /\ ~Due(p)
  <2>1. RestInv(p)'
    BY <1>4, Zenon DEF Apart, ProcessInv, RestInv, Current
  <2>2. \A s \in Section : Passed(p, s)' <=> Passed(p, s)
    BY Zenon DEF Apart, Passed
  <2>3. LoadInv(p)'
    BY <1>4, <2>2, Zenon DEF Apart, ProcessInv, LoadInv, Matches
  <2>4. QED
    BY <1>1, <2>1, <2>3, Zenon DEF ProcessInv
<1>5. QED
  BY <1>2, <1>3, <1>4, Zenon DEF Apart

\* A load that reads on.
Advance(p) ==
    /\ redis' = redis /\ UNCHANGED <<mode, lost, inbox, wpc, cache>>
    /\ stage[p] \in 1 .. 9
    /\ stage' = [stage EXCEPT ![p] = @ + 1]

\* Every read of a load is such a step.
LEMMA Advances ==
    ASSUME Shape, NEW p \in Process,
           \/ \E s \in Section : LoadHash(p, s) \/ LoadHashes(p, s)
           \/ ScanKeys(p) \/ LoadPublishers(p)
    PROVE  Advance(p)
<1> USE DEF cacheVars, loadVars, writerVars, Read
<1>1. /\ redis' = redis /\ UNCHANGED <<mode, lost, inbox, wpc, cache>>
      /\ stage' = [stage EXCEPT ![p] = @ + 1]
      /\ stage[p] > 0 /\ LoadOrder[stage[p]] # "snapshot"
  <2>1. ASSUME NEW s \in Section, LoadHash(p, s) \/ LoadHashes(p, s)
        PROVE  /\ redis' = redis /\ UNCHANGED <<mode, lost, inbox, wpc, cache>>
               /\ stage' = [stage EXCEPT ![p] = @ + 1]
               /\ stage[p] > 0 /\ LoadOrder[stage[p]] # "snapshot"
    BY <2>1, Order, ZenonT(60) DEF LoadHash, LoadHashes, Reading
  <2>2. QED
    BY <2>1, Zenon DEF ScanKeys, LoadPublishers, Reading
<1>2. stage[p] \in 1 .. 9
  BY <1>1, Order DEF Shape
<1>3. QED
  BY <1>1, <1>2, Zenon DEF Advance

\* A read passes the section it reads and no other.
LEMMA AdvancePasses ==
    ASSUME Shape, NEW p \in Process, Advance(p)
    PROVE  /\ stage'[p] \in 2 .. 10 /\ stage'[p] = stage[p] + 1
           /\ \A s \in Section : Passed(p, s)' <=> Passed(p, s) \/ LoadOrder[stage[p]] = s
           /\ Due(p)' <=> Due(p)
<1>1. stage'[p] = stage[p] + 1 /\ stage[p] \in 1 .. 9
  BY Zenon DEF Advance, Shape
<1>2. Due(p)' <=> Due(p)
  BY Zenon DEF Due, Advance
<1>3. stage'[p] \in 2 .. 10
  BY <1>1
<1>4. ASSUME NEW s \in Section
      PROVE  Passed(p, s)' <=> Passed(p, s) \/ LoadOrder[stage[p]] = s
  BY <1>1 DEF Passed
<1>5. QED
  BY <1>1, <1>2, <1>3, <1>4, Zenon

\* A load that reads on and treats what it reads as it should.
LEMMA AdvanceKeeps ==
    ASSUME Shape, NEW p \in Process, ProcessInv(p), Advance(p),
           \A s \in Section : Passed(p, s) => buf'[p][s] = buf[p][s],
           ~Due(p) => \A s \in Section : LoadOrder[stage[p]] = s => Matches(buf'[p][s], s),
           ~Due(p) => \A s \in Scanned : LoadOrder[stage[p] + 1] = s =>
                         scan'[p] = {d \in Domain : redis[s][d] # "none"}
    PROVE  ProcessInv(p)'
<1>1. ModeInv(p)' /\ stage'[p] # 0
  <2>1. stage[p] # 0 /\ stage'[p] # 0
    BY AdvancePasses DEF Advance
  <2>2. QED
    BY <2>1, ZenonT(60) DEF Advance, ProcessInv, ModeInv
<1>2. LoadInv(p)'
  <2> SUFFICES ASSUME ~Due(p)
               PROVE  /\ \A s \in Section : Passed(p, s)' => Matches(buf'[p][s], s)
                      /\ \A s \in Scanned : LoadOrder[stage'[p]] = s =>
                            scan'[p] = {d \in Domain : redis[s][d] # "none"}
    <3>1. redis' = redis
      BY Zenon DEF Advance
    <3>2. \A s \in Section : Matches(buf[p][s], s)' <=> Matches(buf'[p][s], s)
      BY <3>1, Zenon DEF Matches
    <3>3. Due(p)' <=> Due(p)
      BY AdvancePasses, ZenonT(60)
    <3>4. QED
      BY <3>1, <3>2, <3>3, Zenon DEF LoadInv
  <2>1. stage[p] # 0
    BY DEF Advance
  <2>2. \A s \in Section : Passed(p, s) => Matches(buf[p][s], s)
    BY <2>1, Zenon DEF ProcessInv, LoadInv
  <2>3. stage'[p] = stage[p] + 1 /\ \A s \in Section : Passed(p, s)' => Passed(p, s) \/ LoadOrder[stage[p]] = s
    BY AdvancePasses, Zenon
  <2>4. ASSUME NEW s \in Section, Passed(p, s)' PROVE Matches(buf'[p][s], s)
    <3>1. CASE Passed(p, s)
      <4>1. buf'[p][s] = buf[p][s]
        BY <3>1, Zenon
      <4>2. QED
        BY <2>2, <3>1, <4>1 DEF Matches
    <3>2. CASE LoadOrder[stage[p]] = s
      BY <3>2, Zenon
    <3>3. QED
      BY <2>3, <2>4, <3>1, <3>2, ZenonT(60)
  <2>5. QED
    BY <2>3, <2>4, Zenon
<1>3. QED
  BY <1>1, <1>2, Zenon DEF ProcessInv, RestInv

\* Every edit but that of a publisher writes one key, and leaves no follower
\* incomplete.
LEMMA Stores ==
    ASSUME NEW w \in Writer, Change(w)
    PROVE  \/ \E s \in Section : \E k \in Key(s) : \E v : v # "broken" /\ Store(w, s, k, v)
           \/ \E d \in Domain : RecordPublisherActivity(w, d)
<1>1. {"config", "limited", "blocked", "subscribers", "followers"} \subseteq Section
  BY DEF Section
<1>2. Key("config") = Setting /\ \A s \in Section \ {"config"} : Key(s) = Domain
  BY Zenon DEF Key
<1>3. \A v \in OnOff \cup Inbox \cup {"none", "follows", "mutual"} : v # "broken"
  BY StateAssumption, Zenon DEF OnOff
<1> DEFINE Stored1 == \E s \in Section : \E k \in Key(s) : \E v : v # "broken" /\ Store(w, s, k, v)
<1>4. ASSUME NEW d \in Domain, NEW s \in Section \ {"config"},
             NEW v \in OnOff \cup Inbox \cup {"none", "follows", "mutual"}, Store(w, s, d, v)
      PROVE  Stored1
  BY <1>2, <1>3, <1>4, Zenon
<1>5. ASSUME NEW key \in Setting, NEW value \in OnOff, SetConfig(w, key, value) PROVE Stored1
  BY <1>1, <1>2, <1>3, <1>5, Zenon DEF SetConfig
<1>6. ASSUME NEW d \in Domain, NEW value \in OnOff,
             SetBlockedDomain(w, d, value) \/ SetLimitedDomain(w, d, value)
      PROVE  Stored1
  BY <1>1, <1>4, <1>6, Zenon DEF SetBlockedDomain, SetLimitedDomain
<1>7. ASSUME NEW d \in Domain, NEW i \in Inbox, AddSubscriber(w, d, i) PROVE Stored1
  BY <1>1, <1>4, <1>7, Zenon DEF AddSubscriber
<1>8. ASSUME NEW d \in Domain, DelSubscriber(w, d) \/ AddFollowerChecked(w, d) \/ DelFollower(w, d)
      PROVE  Stored1
  BY <1>1, <1>4, <1>8, Zenon DEF DelSubscriber, AddFollowerChecked, DelFollower
<1>9. ASSUME NEW d \in Domain, NEW status \in {"follows", "mutual"}, UpdateFollowerStatusChecked(w, d, status)
      PROVE  Stored1
  BY <1>1, <1>4, <1>9, Zenon DEF UpdateFollowerStatusChecked
<1>10. QED
  BY <1>5, <1>6, <1>7, <1>8, <1>9, Zenon DEF Change

-----------------------------------------------------------------------------
\* Every step keeps the domains.
LEMMA ShapeStep ==
    ASSUME Shape, [StateNext]_stateVars
    PROVE  Shape'
<1> USE DEF cacheVars, loadVars, writerVars
<1>1. ASSUME NEW p \in Process, NewState(p) PROVE Shape'
  BY <1>1 DEF NewState, Shape
<1>2. ASSUME NEW p \in Process, ListenNotify(p) PROVE Shape'
  BY <1>2 DEF ListenNotify, Shape
<1>3. ASSUME NEW p \in Process, Reload(p) PROVE Shape'
  BY <1>3 DEF Reload, Shape
<1>4. ASSUME NEW p \in Process, NEW s \in Section, LoadHash(p, s) PROVE Shape'
  <2>1. Advance(p) /\ \A q \in Process : DOMAIN buf'[q] = Section
    BY <1>4, Advances, Zenon DEF LoadHash, Shape
  <2>2. stage' = [stage EXCEPT ![p] = @ + 1] /\ stage[p] \in 1 .. 9
    BY <2>1, Zenon DEF Advance
  <2>3. DOMAIN stage' = Process /\ \A q \in Process : stage'[q] \in 0 .. 10
    BY <2>2 DEF Shape
  <2>4. QED
    BY <1>4, <2>1, <2>3, ZenonT(60) DEF LoadHash, Shape
<1>5. ASSUME NEW p \in Process, NEW s \in Section, LoadHashes(p, s) PROVE Shape'
  <2>1. Advance(p) /\ \A q \in Process : DOMAIN buf'[q] = Section
    BY <1>5, Advances, Zenon DEF LoadHashes, Shape
  <2>2. stage' = [stage EXCEPT ![p] = @ + 1] /\ stage[p] \in 1 .. 9
    BY <2>1, Zenon DEF Advance
  <2>3. DOMAIN stage' = Process /\ \A q \in Process : stage'[q] \in 0 .. 10
    BY <2>2 DEF Shape
  <2>4. QED
    BY <1>5, <2>1, <2>3, Zenon DEF LoadHashes, Shape
<1>6. ASSUME NEW p \in Process, ScanKeys(p) PROVE Shape'
  <2>1. Advance(p)
    BY <1>6, Advances, Zenon
  <2>2. stage' = [stage EXCEPT ![p] = @ + 1] /\ stage[p] \in 1 .. 9
    BY <2>1, Zenon DEF Advance
  <2>3. DOMAIN stage' = Process /\ \A q \in Process : stage'[q] \in 0 .. 10
    BY <2>2 DEF Shape
  <2>4. QED
    BY <1>6, <2>3, Zenon DEF ScanKeys, Shape
<1>7. ASSUME NEW p \in Process, LoadPublishers(p) PROVE Shape'
  <2>1. Advance(p)
    BY <1>7, Advances, Zenon
  <2>2. stage' = [stage EXCEPT ![p] = @ + 1] /\ stage[p] \in 1 .. 9
    BY <2>1, Zenon DEF Advance
  <2>3. DOMAIN stage' = Process /\ \A q \in Process : stage'[q] \in 0 .. 10
    BY <2>2 DEF Shape
  <2>4. QED
    BY <1>7, <2>3, ZenonT(60) DEF LoadPublishers, Shape
<1>8. ASSUME NEW p \in Process, Snapshot(p) PROVE Shape'
  BY <1>8, SMTT(30) DEF Snapshot, Loaded, Empty, Shape
<1>9. ASSUME NEW p \in Process, LoadFails(p) PROVE Shape'
  BY <1>9, SMTT(30) DEF LoadFails, Loaded, Empty, Shape
<1>10. ASSUME NEW p \in Process, MissNotification(p) PROVE Shape'
  BY <1>10, SMTT(30) DEF MissNotification, Shape
<1>11. ASSUME NEW p \in Process, Stop(p) PROVE Shape'
  BY <1>11 DEF Stop, Empty, Shape
<1>12. ASSUME NEW w \in Writer, NEW s \in Section, NEW k \in Key(s), NEW v, v # "broken", Store(w, s, k, v)
       PROVE  Shape'
  BY <1>12, ZenonT(60) DEF Store, Edit, Shape
<1>13. ASSUME NEW w \in Writer, StoreFails(w) PROVE Shape'
  BY <1>13, Zenon DEF StoreFails, Edit, Shape
<1>14. ASSUME NEW w \in Writer, Publish(w) PROVE Shape'
  BY <1>14 DEF Publish, Shape
<1>15. ASSUME NEW w \in Writer, PublishFails(w) PROVE Shape'
  BY <1>15, Zenon DEF PublishFails, Shape
<1>16. ASSUME NEW w \in Writer, RememberPublisher(w) \/ RememberFails(w) PROVE Shape'
  BY <1>16, Zenon DEF RememberPublisher, RememberFails, Remembered, Shape
<1>17. ASSUME NEW w \in Writer, NEW d \in Domain, RecordPublisherActivity(w, d) PROVE Shape'
  BY <1>17, Zenon DEF RecordPublisherActivity, Edit, Shape
<1>18. ASSUME NEW w \in Writer, Change(w) PROVE Shape'
  BY <1>12, <1>17, <1>18, Stores, Zenon
<1>19. CASE UNCHANGED stateVars
  BY <1>19, Zenon DEF stateVars, Shape
<1>q. QED
  BY <1>1, <1>2, <1>3, <1>4, <1>5, <1>6, <1>7, <1>8, <1>9, <1>10, <1>11, <1>13, <1>14, <1>15, <1>16,
     <1>18, <1>19, ZenonT(60) DEF StateNext, Load, Finish

\* Every step keeps what is known of a process.
LEMMA ProcessStep ==
    ASSUME Shape, [StateNext]_stateVars, NEW q \in Process, ProcessInv(q)
    PROVE  ProcessInv(q)'
<1> USE DEF cacheVars, loadVars, writerVars
<1>1. ASSUME NEW p \in Process, NewState(p) PROVE ProcessInv(q)'
  <2>1. CASE p = q
    <3>1. mode'[q] = "starting" /\ stage'[q] = 1 /\ inbox'[q] = 0
      BY <1>1, <2>1, Zenon DEF NewState, Shape, ProcessInv, ModeInv
    <3>2. \A s \in Section : ~Passed(q, s)'
      BY <3>1 DEF Passed
    <3>3. stage'[q] # 0 /\ \A s \in Scanned : LoadOrder[stage'[q]] # s
      BY <3>1, Order
    <3>4. LoadInv(q)' /\ RestInv(q)'
      BY <3>2, <3>3, Zenon DEF LoadInv, RestInv
    <3>5. QED
      BY <3>1, <3>4, Zenon DEF ProcessInv, ModeInv
  <2>2. CASE p # q
    BY <1>1, <2>2, ApartKeeps, Zenon DEF NewState, Shape, Apart, Due
  <2>3. QED
    BY <2>1, <2>2, Zenon
<1>2. ASSUME NEW p \in Process, ListenNotify(p) PROVE ProcessInv(q)'
  <2>1. CASE p = q
    <3>1. mode'[q] = "listening" /\ inbox'[q] = 0 /\ inbox[q] = 0 /\ stage'[q] = 0 /\ stage[q] = 0
      BY <1>2, <2>1, Zenon DEF ListenNotify, Shape, ProcessInv, ModeInv
    <3>2. Due(q)' <=> Due(q)
      BY <1>2, <3>1, Zenon DEF ListenNotify, Due
    <3>3. QED
      BY <1>2, <2>1, <3>1, <3>2, Zenon DEF ListenNotify, ProcessInv, LoadInv, RestInv, ModeInv, Current
  <2>2. CASE p # q
    BY <1>2, <2>2, ApartKeeps, Zenon DEF ListenNotify, Shape, Apart, Due
  <2>3. QED
    BY <2>1, <2>2, Zenon
<1>3. ASSUME NEW p \in Process, Reload(p) PROVE ProcessInv(q)'
  <2>1. CASE p = q
    <3>1. mode'[q] = "listening" /\ stage'[q] = 1
      BY <1>3, <2>1, Zenon DEF Reload, Shape
    <3>2. \A s \in Section : ~Passed(q, s)'
      BY <3>1 DEF Passed
    <3>3. stage'[q] # 0 /\ \A s \in Scanned : LoadOrder[stage'[q]] # s
      BY <3>1, Order
    <3>4. LoadInv(q)' /\ RestInv(q)'
      BY <3>2, <3>3, Zenon DEF LoadInv, RestInv
    <3>5. QED
      BY <3>1, <3>4, Zenon DEF ProcessInv, ModeInv
  <2>2. CASE p # q
    BY <1>3, <2>2, ApartKeeps, Zenon DEF Reload, Shape, Apart, Due
  <2>3. QED
    BY <2>1, <2>2, Zenon
<1>4. ASSUME NEW p \in Process, NEW s \in Section, LoadHash(p, s) PROVE ProcessInv(q)'
  <2>1. CASE p = q
    <3>1. Advance(q) /\ LoadOrder[stage[q]] = s /\ s \notin Scanned /\ s # "followers"
      BY <1>4, <2>1, Advances, Zenon DEF LoadHash, Reading, Scanned
    <3>2. buf'[q][s] = redis[s] /\ \A t \in Section \ {s} : buf'[q][t] = buf[q][t]
      BY <1>4, <2>1, Zenon DEF LoadHash, Shape
    <3>3. Matches(buf'[q][s], s)
      <4>1. \A k \in Key(s) : redis[s][k] # "broken"
        BY <3>1, Zenon DEF Shape
      <4>2. QED
        BY <3>2, <4>1, Zenon DEF Matches
    <3>4. ~Passed(q, s)
      BY <3>1, Once DEF Passed, Advance
    <3>5. \A t \in Scanned : LoadOrder[stage[q] + 1] # t
      <4>1. stage[q] \in 1 .. 9 /\ LoadOrder[stage[q]] # "scan"
        BY <3>1, Order, Zenon DEF Advance
      <4>2. QED
        BY <4>1, Order, ZenonT(60)
    <3>6. QED
      BY <3>1, <3>2, <3>3, <3>4, <3>5, AdvanceKeeps, Zenon
  <2>2. CASE p # q
    BY <1>4, <2>2, ApartKeeps, Zenon DEF LoadHash, Read, Shape, Apart, Due
  <2>3. QED
    BY <2>1, <2>2, Zenon
<1>5. ASSUME NEW p \in Process, NEW s \in Section, LoadHashes(p, s) PROVE ProcessInv(q)'
  <2>1. CASE p = q
    <3>1. Advance(q) /\ LoadOrder[stage[q]] = s /\ s \in Scanned
      BY <1>5, <2>1, Advances, Zenon DEF LoadHashes, Reading
    <3>2. /\ buf'[q][s] = [d \in Domain |-> IF d \in scan[q] THEN Checked(s, redis[s][d]) ELSE "none"]
          /\ \A t \in Section \ {s} : buf'[q][t] = buf[q][t]
      BY <1>5, <2>1, Zenon DEF LoadHashes, Shape
    <3>3. ~Due(q) => Matches(buf'[q][s], s)
      <4> SUFFICES ASSUME ~Due(q), NEW d \in Domain
                   PROVE  buf'[q][s][d] = IF redis[s][d] = "broken" THEN "none" ELSE redis[s][d]
        BY <3>1, Zenon DEF Matches, Key, Scanned
      <4>1. d \in scan[q] <=> redis[s][d] # "none"
        <5>1. stage[q] # 0
          BY <3>1 DEF Advance
        <5>2. LoadInv(q)
          BY Zenon DEF ProcessInv
        <5>3. scan[q] = {e \in Domain : redis[s][e] # "none"}
          BY <3>1, <5>1, <5>2, Zenon DEF LoadInv
        <5>4. QED
          BY <5>3, Zenon
      <4>2. s = "subscribers" => redis[s][d] # "broken"
        BY Zenon DEF Shape, Section, Key
      <4>3. redis[s][d] # "none" =>
               Checked(s, redis[s][d]) = IF redis[s][d] = "broken" THEN "none" ELSE redis[s][d]
        BY <3>1, <4>2, CheckedValue, Zenon
      <4>4. QED
        BY <3>2, <4>1, <4>3, Zenon
    <3>4. ~Passed(q, s)
      BY <3>1, Once DEF Passed, Advance
    <3>5. \A t \in Scanned : LoadOrder[stage[q] + 1] # t
      <4>1. stage[q] \in 1 .. 9 /\ LoadOrder[stage[q]] # "scan"
        BY <3>1, Order, Zenon DEF Advance
      <4>2. QED
        BY <4>1, Order, Zenon
    <3>6. QED
      BY <3>1, <3>2, <3>3, <3>4, <3>5, AdvanceKeeps, Zenon
  <2>2. CASE p # q
    BY <1>5, <2>2, ApartKeeps, Zenon DEF LoadHashes, Read, Shape, Apart, Due
  <2>3. QED
    BY <2>1, <2>2, Zenon
<1>6. ASSUME NEW p \in Process, ScanKeys(p) PROVE ProcessInv(q)'
  <2>1. CASE p = q
    <3>1. Advance(q) /\ LoadOrder[stage[q]] = "scan" /\ buf'[q] = buf[q]
      BY <1>6, <2>1, Advances, Zenon DEF ScanKeys, Reading
    <3>2. \A s \in Scanned : LoadOrder[stage[q] + 1] = s => scan'[q] = {d \in Domain : redis[s][d] # "none"}
      BY <1>6, <2>1, ZenonT(60) DEF ScanKeys, Scanned, Shape
    <3>3. \A s \in Section : LoadOrder[stage[q]] # s
      BY <3>1, Order
    <3>4. QED
      BY <3>1, <3>2, <3>3, AdvanceKeeps, Zenon
  <2>2. CASE p # q
    BY <1>6, <2>2, ApartKeeps, Zenon DEF ScanKeys, Read, Shape, Apart, Due
  <2>3. QED
    BY <2>1, <2>2, Zenon
<1>7. ASSUME NEW p \in Process, LoadPublishers(p) PROVE ProcessInv(q)'
  <2>1. CASE p = q
    <3>1. Advance(q) /\ LoadOrder[stage[q]] = "publishers" /\ buf'[q] = buf[q]
      BY <1>7, <2>1, Advances, Zenon DEF LoadPublishers, Reading
    <3>2. \A t \in Scanned : LoadOrder[stage[q] + 1] # t
      BY <3>1, Order, ZenonT(60) DEF Advance
    <3>3. \A s \in Section : LoadOrder[stage[q]] # s
      BY <3>1, Order
    <3>4. QED
      BY <3>1, <3>2, <3>3, AdvanceKeeps, Zenon
  <2>2. CASE p # q
    BY <1>7, <2>2, ApartKeeps, Zenon DEF LoadPublishers, Read, Shape, Apart, Due
  <2>3. QED
    BY <2>1, <2>2, Zenon
<1>8. ASSUME NEW p \in Process, Snapshot(p) PROVE ProcessInv(q)'
  <2>1. CASE p = q
    <3>1. stage[q] = 10 /\ stage'[q] = 0 /\ cache'[q] = buf[q] /\ redis' = redis
      <4>1. stage[q] \in 1 .. 10
        BY <1>8, <2>1 DEF Snapshot, Reading, Shape
      <4>2. stage[q] = 10
        BY <1>8, <2>1, <4>1, Order, Zenon DEF Snapshot, Reading
      <4>3. QED
        BY <1>8, <2>1, <4>2, ZenonT(60) DEF Snapshot, Loaded, Shape
    <3>2. Due(q)' <=> Due(q)
      BY <1>8, Zenon DEF Snapshot, Due
    <3>3. \A s \in Section : Passed(q, s)
      <4>1. stage[q] - 1 = 9 /\ stage[q] # 0
        BY <3>1
      <4>2. QED
        BY <4>1, Order, ZenonT(60) DEF Passed
    <3>4. ~Due(q) => Current(q)'
      <4>1. stage[q] # 0
        BY <3>1
      <4>2. LoadInv(q)
        BY Zenon DEF ProcessInv
      <4>3. ~Due(q) => \A s \in Section : Matches(buf[q][s], s)
        BY <3>3, <4>1, <4>2, Zenon DEF LoadInv
      <4>4. \A s \in Section : Matches(buf[q][s], s) <=>
               \A k \in Key(s) : cache'[q][s][k] =
                  IF redis'[s][k] = "broken" THEN "none" ELSE redis'[s][k]
        BY <3>1, ZenonT(60) DEF Matches
      <4>5. QED
        BY <4>3, <4>4, Zenon DEF Current
    <3>5. ModeInv(q)'
      BY <1>8, <2>1, <3>1, Zenon DEF Snapshot, Loaded, Shape, ProcessInv, ModeInv
    <3>6. QED
      BY <3>1, <3>2, <3>4, <3>5, Zenon DEF ProcessInv, LoadInv, RestInv
  <2>2. CASE p # q
    BY <1>8, <2>2, ApartKeeps, Zenon DEF Snapshot, Loaded, Shape, Apart, Due
  <2>3. QED
    BY <2>1, <2>2, Zenon
<1>9. ASSUME NEW p \in Process, LoadFails(p) PROVE ProcessInv(q)'
  <2>1. CASE p = q
    <3>1. lost'[q] = TRUE /\ stage'[q] = 0
      BY <1>9, <2>1, Zenon DEF LoadFails, Loaded, Shape
    <3>2. ModeInv(q)'
      BY <1>9, <2>1, <3>1, Zenon DEF LoadFails, Loaded, Shape, ProcessInv, ModeInv
    <3>3. QED
      BY <3>1, <3>2, Zenon DEF ProcessInv, LoadInv, RestInv, Due
  <2>2. CASE p # q
    BY <1>9, <2>2, ApartKeeps, Zenon DEF LoadFails, Loaded, Shape, Apart, Due
  <2>3. QED
    BY <2>1, <2>2, Zenon
<1>10. ASSUME NEW p \in Process, MissNotification(p) PROVE ProcessInv(q)'
  <2>1. CASE p = q
    <3>1. mode[q] = "listening"
      BY <1>10, <2>1 DEF MissNotification, ProcessInv, ModeInv
    <3>2. QED
      BY <1>10, <2>1, <3>1, ApartKeeps, ZenonT(60) DEF MissNotification, Shape, Apart, Due
  <2>2. CASE p # q
    BY <1>10, <2>2, ApartKeeps, Zenon DEF MissNotification, Shape, Apart, Due
  <2>3. QED
    BY <2>1, <2>2, Zenon
<1>11. ASSUME NEW p \in Process, Stop(p) PROVE ProcessInv(q)'
  <2>1. CASE p = q
    <3>1. mode'[q] = "down" /\ stage'[q] = 0 /\ inbox'[q] = 0
      BY <1>11, <2>1, Zenon DEF Stop, Shape
    <3>2. QED
      BY <3>1, Zenon DEF ProcessInv, LoadInv, RestInv, ModeInv
  <2>2. CASE p # q
    BY <1>11, <2>2, ApartKeeps, Zenon DEF Stop, Shape, Apart, Due
  <2>3. QED
    BY <2>1, <2>2, Zenon
<1>12. ASSUME NEW w \in Writer, NEW s, NEW k, NEW v, Store(w, s, k, v) PROVE ProcessInv(q)'
  BY <1>12, ApartKeeps, Zenon DEF Store, Edit, Shape, Apart, Due
<1>13. ASSUME NEW w \in Writer, StoreFails(w) PROVE ProcessInv(q)'
  BY <1>13, ApartKeeps, Zenon DEF StoreFails, Edit, Shape, Apart, Due
<1>14. ASSUME NEW w \in Writer, Publish(w) PROVE ProcessInv(q)'
  <2>1. UNCHANGED <<redis, mode, cacheVars, loadVars>>
    BY <1>14, Zenon DEF Publish
  <2>2. CASE mode[q] = "listening"
    <3>1. inbox'[q] > 0
      BY StateAssumption, <1>14, <2>2 DEF Publish, Shape
    <3>2. QED
      BY <2>1, <2>2, <3>1, ApartKeeps, ZenonT(60) DEF Apart, Due
  <2>3. CASE mode[q] # "listening"
    <3>1. inbox'[q] = inbox[q] /\ (lost'[q] \/ mode[q] = "down")
      BY <1>14, <2>3, Zenon DEF Publish, ProcessInv, ModeInv
    <3>2. QED
      BY <2>1, <3>1, ApartKeeps, Zenon DEF Apart, Due
  <2>4. QED
    BY <2>2, <2>3, Zenon
<1>15. ASSUME NEW w \in Writer, PublishFails(w) PROVE ProcessInv(q)'
  BY <1>15, ApartKeeps, Zenon DEF PublishFails, Apart, Due
<1>16. ASSUME NEW w \in Writer, RememberPublisher(w) \/ RememberFails(w) PROVE ProcessInv(q)'
  <2>1. /\ UNCHANGED <<redis, mode, cache, loadVars, inbox, lost>>
        /\ \A v \in Writer : wpc'[v] = "publish" <=> wpc[v] = "publish"
    BY <1>16, Zenon DEF RememberPublisher, RememberFails, Remembered, Shape
  <2>2. QED
    BY <2>1, ApartKeeps, Zenon DEF Apart, Due
<1>17. ASSUME NEW w \in Writer, NEW d \in Domain, RecordPublisherActivity(w, d) PROVE ProcessInv(q)'
  <2>1. /\ UNCHANGED <<redis, mode, cache, loadVars, inbox, lost>>
        /\ \A v \in Writer : wpc'[v] = "publish" <=> wpc[v] = "publish"
    BY <1>17, Zenon DEF RecordPublisherActivity, Edit, Shape
  <2>2. QED
    BY <2>1, ApartKeeps, Zenon DEF Apart, Due
<1>18. ASSUME NEW w \in Writer, Change(w) PROVE ProcessInv(q)'
  BY <1>12, <1>17, <1>18, Stores, Zenon
<1>19. CASE UNCHANGED stateVars
  BY <1>19, ApartKeeps, Zenon DEF stateVars, Apart, Due
<1>q. QED
  BY <1>1, <1>2, <1>3, <1>4, <1>5, <1>6, <1>7, <1>8, <1>9, <1>10, <1>11, <1>13, <1>14, <1>15, <1>16,
     <1>18, <1>19, Zenon DEF StateNext, Load, Finish

-----------------------------------------------------------------------------
(* The theorems                                                            *)

\* The counts of activities.
Counts ==
    /\ DOMAIN published = Domain /\ \A d \in Domain : published[d] \in Nat
    /\ DOMAIN known = Process /\ DOMAIN bufKnown = Process /\ DOMAIN wpub = Writer
    /\ \A p \in Process, d \in Domain : known[p][d] \in Nat /\ bufKnown[p][d] \in Nat
    /\ \A w \in Writer, d \in Domain : wpub[w][d] \in Nat

\* Every step keeps the counts numbers.
LEMMA CountStep ==
    ASSUME Counts, [StateNext]_stateVars
    PROVE  Counts'
<1> USE DEF cacheVars, loadVars, writerVars
<1>0. NoPublishers \in [Domain -> Nat]
  BY DEF NoPublishers
<1>1. ASSUME NEW p \in Process, NewState(p) PROVE Counts'
  BY <1>0, <1>1, Zenon DEF NewState, Counts
<1>2. ASSUME NEW p \in Process, ListenNotify(p) \/ Reload(p) \/ ScanKeys(p) \/ MissNotification(p) PROVE Counts'
  BY <1>2, Zenon DEF ListenNotify, Reload, ScanKeys, MissNotification, Counts
<1>3. ASSUME NEW p \in Process, NEW s \in Section, LoadHash(p, s) \/ LoadHashes(p, s) PROVE Counts'
  BY <1>3, ZenonT(60) DEF LoadHash, LoadHashes, Counts
<1>4. ASSUME NEW p \in Process, LoadPublishers(p) PROVE Counts'
  BY <1>4 DEF LoadPublishers, Counts
<1>5. ASSUME NEW p \in Process, Snapshot(p) PROVE Counts'
  BY <1>0, <1>5, Zenon DEF Snapshot, Loaded, Counts
<1>6. ASSUME NEW p \in Process, LoadFails(p) PROVE Counts'
  BY <1>0, <1>6, Zenon DEF LoadFails, Loaded, Counts
<1>7. ASSUME NEW p \in Process, Stop(p) PROVE Counts'
  BY <1>0, <1>7, Zenon DEF Stop, Counts
<1>8. ASSUME NEW w \in Writer, NEW s, NEW k, NEW v, Store(w, s, k, v) PROVE Counts'
  BY <1>8, Zenon DEF Store, Counts
<1>9. ASSUME NEW w \in Writer, StoreFails(w) \/ Publish(w) \/ PublishFails(w) PROVE Counts'
  BY <1>9, Zenon DEF StoreFails, Publish, PublishFails, Counts
<1>10. ASSUME NEW w \in Writer, RememberPublisher(w) PROVE Counts'
  BY <1>0, <1>10, Zenon DEF RememberPublisher, Remembered, Counts
<1>11. ASSUME NEW w \in Writer, RememberFails(w) PROVE Counts'
  BY <1>0, <1>11, Zenon DEF RememberFails, Remembered, Counts
<1>12. ASSUME NEW w \in Writer, NEW d \in Domain, RecordPublisherActivity(w, d) PROVE Counts'
  <2>1. published[d] + 1 \in Nat /\ [NoPublishers EXCEPT ![d] = published[d] + 1] \in [Domain -> Nat]
    BY <1>0 DEF Counts
  <2>2. QED
    BY <1>12, <2>1, ZenonT(60) DEF RecordPublisherActivity, Counts
<1>13. ASSUME NEW w \in Writer, Change(w) PROVE Counts'
  BY <1>8, <1>12, <1>13, Stores, Zenon
<1>14. CASE UNCHANGED stateVars
  BY <1>14, ZenonT(60) DEF stateVars, Counts
<1>q. QED
  BY <1>1, <1>2, <1>3, <1>4, <1>5, <1>6, <1>7, <1>9, <1>10, <1>11, <1>13, <1>14, ZenonT(60) DEF StateNext, Load, Finish

\* Only a load or a start lowers a count in a snapshot.
LEMMA CountsLower ==
    ASSUME Counts, [StateNext]_stateVars, NEW p \in Process, NEW d \in Domain, known'[p][d] < known[p][d]
    PROVE  stage[p] > 0 \/ mode[p] = "down"
<1> USE DEF cacheVars, loadVars, writerVars
<1>0. known[p][d] \in Nat /\ ~(known[p][d] < known[p][d])
  BY DEF Counts
<1>1. ASSUME NEW q \in Process, NewState(q) PROVE stage[p] > 0 \/ mode[p] = "down"
  BY <1>0, <1>1, Zenon DEF NewState, Counts
<1>2. ASSUME NEW q \in Process, Snapshot(q) PROVE stage[p] > 0 \/ mode[p] = "down"
  BY <1>0, <1>2, ZenonT(60) DEF Snapshot, Reading, Counts
<1>3. ASSUME NEW w \in Writer, RememberPublisher(w) PROVE FALSE
  <2>1. known'[p][d] = known[p][d] \/ (wpub[w][d] > known[p][d] /\ known'[p][d] = wpub[w][d])
    BY <1>3, Zenon DEF RememberPublisher
  <2>2. QED
    BY <2>1 DEF Counts
<1>4. CASE known' # known
  <2>1. \/ \E q \in Process : NewState(q) \/ Snapshot(q)
        \/ \E w \in Writer : RememberPublisher(w)
    <3>1. ASSUME NEW w \in Writer, Change(w) PROVE known' = known
      BY <3>1, Stores, Zenon DEF Store, RecordPublisherActivity
    <3>2. QED
      BY <1>4, <3>1, ZenonT(60) DEF StateNext, Load, Finish, ListenNotify, Reload, LoadHash, LoadHashes, ScanKeys,
         LoadPublishers, LoadFails, MissNotification, Stop, StoreFails, Publish, PublishFails,
         RememberFails, stateVars
  <2>2. QED
    BY <1>1, <1>2, <1>3, <2>1, Zenon
<1>5. QED
  BY <1>0, <1>4, Zenon

\* The invariants hold in every reachable state.
LEMMA Inductive == StateSpec => [](Inv /\ Counts)
<1>1. StateInit => Inv /\ Counts
  <2> SUFFICES ASSUME StateInit PROVE Inv /\ Counts
    OBVIOUS
  <2>1. PICK f \in [Domain -> {"none", "broken"}] : redis = [Empty EXCEPT !["followers"] = f]
    BY Zenon DEF StateInit
  <2>2. /\ "followers" \in Section /\ Key("followers") = Domain /\ DOMAIN f = Domain
        /\ DOMAIN Empty = Section
        /\ \A s \in Section : DOMAIN Empty[s] = Key(s) /\ \A k \in Key(s) : Empty[s][k] # "broken"
    BY Zenon DEF Empty, Key, Section
  <2>3. /\ DOMAIN redis = Section /\ \A s \in Section : DOMAIN redis[s] = Key(s)
        /\ \A s \in Section \ {"followers"} : \A k \in Key(s) : redis[s][k] # "broken"
    BY <2>1, <2>2, Zenon
  <2>4. 0 \in 0 .. 10 /\ 0 \in Nat /\ ~(0 > 0)
    OBVIOUS
  <2>5. Shape
    BY <2>2, <2>3, <2>4, Zenon DEF StateInit, Shape
  <2>6. \A p \in Process : ProcessInv(p)
    BY Zenon DEF StateInit, ProcessInv, LoadInv, RestInv, ModeInv
  <2>7. Counts
    BY <2>4, Zenon DEF StateInit, NoPublishers, Counts
  <2>8. QED
    BY <2>5, <2>6, <2>7, Zenon DEF Inv
<1>2. Inv /\ Counts /\ [StateNext]_stateVars => Inv' /\ Counts'
  BY ShapeStep, ProcessStep, CountStep, Zenon DEF Inv
<1>3. QED
  BY <1>1, <1>2, PTL DEF StateSpec

\* A snapshot that differs from Redis will be loaded again (Load, ListenNotify
\* and refresh), for any number of processes, writers and domains, any buffer
\* and any number of faults: only a change that was lost leaves it stale.
THEOREM StaleSnapshotsReload == StateSpec => []StaleIsReloaded
<1>1. Inv => StaleIsReloaded
  <2> SUFFICES ASSUME Inv, NEW p \in Process, mode[p] = "listening", ~lost[p], ~Current(p), ~(stage[p] > 0)
               PROVE  inbox[p] > 0 \/ \E w \in Writer : wpc[w] = "publish"
    BY Zenon DEF StaleIsReloaded
  <2>1. stage[p] = 0
    BY DEF Inv, Shape
  <2>2. QED
    BY <2>1, Zenon DEF Inv, ProcessInv, RestInv, Due
<1>2. QED
  BY <1>1, Inductive, PTL

\* Requests that record activities of a publisher at the same time leave the
\* newest count in the snapshot (RecordPublisherActivity); only a load or a
\* start may put it back.
THEOREM NewestCountKept == StateSpec => NewestPublisherKept
<1>1. Counts /\ [StateNext]_stateVars =>
        [\A p \in Process, d \in Domain :
            known'[p][d] < known[p][d] => stage[p] > 0 \/ mode[p] = "down"]_stateVars
  BY CountsLower, Zenon
<1>2. QED
  BY <1>1, Inductive, PTL DEF StateSpec, NewestPublisherKept
=============================================================================
