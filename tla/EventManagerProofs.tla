------------------------- MODULE EventManagerProofs -------------------------
(* Theorems about EventManager, for every number of clients and requests,     *)
(* every delay, counter and end of time.                                     *)
EXTENDS EventManager, TLAPS

\* What the goroutine of a request holds, by how far it has come: a request
\* that stores is by a client that has been told its sid
Held ==
    /\ \A r \in Requests :
          /\ pc[r] = "idle" => tm[r] = 0 /\ ~isNew[r] /\ sid[r] = NoSid
          /\ tm[r] # 0 => sid[r] \in Sids
          /\ isNew[r] => sid[r] \in Sids
          /\ pc[r] = "store" => sid[r] \in known /\ tm[r] # 0
    /\ now # 0

\* A sid nobody has been given yet occurs nowhere
Fresh ==
    \A s \in Sids : (s \notin known /\ granted[s] = 0) =>
        /\ subscribers[s] = 0
        /\ initial[s] = None
        /\ \A r \in Requests : victim[r] # s /\ sid[r] # s

\* Unless it has been overtaken, what a cleaning is going to delete has run out
VictimsDue ==
    \A r \in Requests, s \in Sids \ overtaken :
        (victim[r] = s /\ granted[s] # 0) => IsExpired(granted[s])

\* Unless it has been overtaken, a renewal that stores is by a client that has not left
StoresWanted ==
    \A r \in Requests :
        (pc[r] = "store" /\ sid[r] \notin overtaken) => granted[sid[r]] # 0

IInv == /\ TypeOK /\ Held /\ Fresh /\ VictimsDue /\ StoresWanted
        /\ LiveKept /\ GoneStaysGone /\ CleanupDue

LEMMA InitOK == Init => IInv
  BY EventManagerAssumption, SMT
  DEF Init, IInv, TypeOK, Held, Fresh, VictimsDue, StoresWanted, LiveKept, GoneStaysGone,
      CleanupDue, None, Here, IsExpired

-----------------------------------------------------------------------------
(* The counter *)

LEMMA VisitCounts ==
  ASSUME NEW v \in 0 .. Wrap - 1
  PROVE  /\ (v + 1) % Wrap \in 0 .. Wrap - 1
         /\ v < CleanAfterVisits => (v + 1) % Wrap = v + 1
  BY EventManagerAssumption

-----------------------------------------------------------------------------
(* SUBSCRIBE *)

LEMMA NewSubscribeOK ==
  ASSUME IInv, NEW r \in Requests, NEW s \in Sids, NEW d \in Durations, NewSubscribe(r, s, d)
  PROVE  IInv'
<1>1. TypeOK'
  BY EventManagerAssumption DEF IInv, NewSubscribe, TypeOK
<1>2. Held'
  BY DEF IInv, NewSubscribe, TypeOK, Held
<1>3. Fresh'
  BY EventManagerAssumption DEF IInv, NewSubscribe, TypeOK, Fresh
<1>4. VictimsDue'
  BY DEF IInv, NewSubscribe, Fresh, VictimsDue, IsExpired
<1>5. StoresWanted'
  BY DEF IInv, NewSubscribe, StoresWanted
<1>6. LiveKept'
  BY DEF IInv, NewSubscribe, TypeOK, LiveKept, IsExpired
<1>7. GoneStaysGone'
  BY DEF IInv, NewSubscribe, TypeOK, GoneStaysGone, Here
<1>8. CleanupDue'
  BY DEF IInv, NewSubscribe, CleanupDue
<1> QED
  BY <1>1, <1>2, <1>3, <1>4, <1>5, <1>6, <1>7, <1>8 DEF IInv

LEMMA RenewLoadOK ==
  ASSUME IInv, NEW r \in Requests, NEW s \in Sids, NEW d \in Durations, RenewLoad(r, s, d)
  PROVE  IInv'
<1>1. TypeOK'
  BY EventManagerAssumption DEF IInv, RenewLoad, TypeOK, history
<1>2. Held'
  BY EventManagerAssumption DEF IInv, RenewLoad, TypeOK, Held, history
<1>3. Fresh'
  BY DEF IInv, RenewLoad, Fresh, history
<1>4. VictimsDue'
  BY DEF IInv, RenewLoad, VictimsDue, IsExpired, history
<1>5. StoresWanted'
  BY DEF IInv, RenewLoad, TypeOK, StoresWanted, GoneStaysGone, history
<1>6. LiveKept'
  BY DEF IInv, RenewLoad, LiveKept, IsExpired, history
<1>7. GoneStaysGone'
  BY DEF IInv, RenewLoad, GoneStaysGone, Here, history
<1>8. CleanupDue'
  BY DEF IInv, RenewLoad, CleanupDue
<1> QED
  BY <1>1, <1>2, <1>3, <1>4, <1>5, <1>6, <1>7, <1>8 DEF IInv

LEMMA RenewUnknownOK ==
  ASSUME IInv, NEW r \in Requests, RenewUnknown(r)
  PROVE  IInv'
<1>1. TypeOK'
  BY DEF IInv, RenewUnknown, TypeOK, history
<1>2. Held'
  BY DEF IInv, RenewUnknown, Held, history
<1>3. Fresh'
  BY DEF IInv, RenewUnknown, Fresh, history
<1>4. VictimsDue'
  BY DEF IInv, RenewUnknown, VictimsDue, IsExpired, history
<1>5. StoresWanted'
  BY DEF IInv, RenewUnknown, StoresWanted, history
<1>6. LiveKept'
  BY DEF IInv, RenewUnknown, LiveKept, IsExpired, history
<1>7. GoneStaysGone'
  BY DEF IInv, RenewUnknown, GoneStaysGone, Here, history
<1>8. CleanupDue'
  BY DEF IInv, RenewUnknown, CleanupDue
<1> QED
  BY <1>1, <1>2, <1>3, <1>4, <1>5, <1>6, <1>7, <1>8 DEF IInv

LEMMA RenewStoreOK ==
  ASSUME IInv, NEW r \in Requests, RenewStore(r)
  PROVE  IInv'
<1>1. TypeOK'
  BY DEF IInv, RenewStore, TypeOK, Held
<1>2. Held'
  BY DEF IInv, RenewStore, Held
<1>3. Fresh'
  BY DEF IInv, RenewStore, Held, Fresh
<1>4. VictimsDue'
  BY DEF IInv, RenewStore, VictimsDue, IsExpired, DeletionAhead
<1>5. StoresWanted'
  BY DEF IInv, RenewStore, Held, StoresWanted
<1>6. LiveKept'
  BY DEF IInv, RenewStore, TypeOK, LiveKept, IsExpired
<1>7. GoneStaysGone'
  BY DEF IInv, RenewStore, TypeOK, StoresWanted, GoneStaysGone, Here
<1>8. CleanupDue'
  BY DEF IInv, RenewStore, CleanupDue
<1> QED
  BY <1>1, <1>2, <1>3, <1>4, <1>5, <1>6, <1>7, <1>8 DEF IInv

-----------------------------------------------------------------------------
(* checkForCleanup, Clean, the reply *)

LEMMA VisitOK ==
  ASSUME IInv, NEW r \in Requests, Visit(r)
  PROVE  IInv'
<1>1. TypeOK'
  BY VisitCounts DEF IInv, Visit, TypeOK, history
<1>2. Held'
  BY DEF IInv, Visit, Held, history
<1>3. Fresh'
  BY DEF IInv, Visit, Fresh, history
<1>4. VictimsDue'
  BY DEF IInv, Visit, VictimsDue, IsExpired, history
<1>5. StoresWanted'
  BY DEF IInv, Visit, StoresWanted, history
<1>6. LiveKept'
  BY DEF IInv, Visit, LiveKept, IsExpired, history
<1>7. GoneStaysGone'
  BY DEF IInv, Visit, GoneStaysGone, Here, history
<1>8. CleanupDue'
  BY EventManagerAssumption, VisitCounts DEF IInv, Visit, TypeOK, CleanupDue
<1> QED
  BY <1>1, <1>2, <1>3, <1>4, <1>5, <1>6, <1>7, <1>8 DEF IInv

LEMMA ResetOK ==
  ASSUME IInv, NEW r \in Requests, Reset(r)
  PROVE  IInv'
<1>1. TypeOK'
  BY EventManagerAssumption DEF IInv, Reset, TypeOK, history
<1>2. Held'
  BY DEF IInv, Reset, Held, history
<1>3. Fresh'
  BY DEF IInv, Reset, Fresh, history
<1>4. VictimsDue'
  BY DEF IInv, Reset, VictimsDue, IsExpired, history
<1>5. StoresWanted'
  BY DEF IInv, Reset, StoresWanted, history
<1>6. LiveKept'
  BY DEF IInv, Reset, LiveKept, IsExpired, history
<1>7. GoneStaysGone'
  BY DEF IInv, Reset, GoneStaysGone, Here, history
<1>8. CleanupDue'
  BY EventManagerAssumption DEF IInv, Reset, CleanupDue
<1> QED
  BY <1>1, <1>2, <1>3, <1>4, <1>5, <1>6, <1>7, <1>8 DEF IInv

LEMMA CleanVisitOK ==
  ASSUME IInv, NEW r \in Requests, NEW s \in Sids, CleanVisit(r, s)
  PROVE  IInv'
<1>1. TypeOK'
  BY DEF IInv, CleanVisit, TypeOK, history
<1>2. Held'
  BY DEF IInv, CleanVisit, Held, history
<1>3. Fresh'
  BY DEF IInv, CleanVisit, Fresh, Here, history
<1>4. VictimsDue'
  BY DEF IInv, CleanVisit, VictimsDue, LiveKept, IsExpired, history
<1>5. StoresWanted'
  BY DEF IInv, CleanVisit, StoresWanted, history
<1>6. LiveKept'
  BY DEF IInv, CleanVisit, LiveKept, IsExpired, history
<1>7. GoneStaysGone'
  BY DEF IInv, CleanVisit, GoneStaysGone, Here, history
<1>8. CleanupDue'
  BY DEF IInv, CleanVisit, CleanupDue
<1> QED
  BY <1>1, <1>2, <1>3, <1>4, <1>5, <1>6, <1>7, <1>8 DEF IInv

LEMMA CleanDeleteOK ==
  ASSUME IInv, NEW r \in Requests, CleanDelete(r)
  PROVE  IInv'
<1>1. TypeOK'
  BY DEF IInv, CleanDelete, TypeOK, history
<1>2. Held'
  BY DEF IInv, CleanDelete, Held, history
<1>3. Fresh'
  BY EventManagerAssumption DEF IInv, CleanDelete, Fresh, history
<1>4. VictimsDue'
  BY EventManagerAssumption DEF IInv, CleanDelete, VictimsDue, IsExpired, history
<1>5. StoresWanted'
  BY DEF IInv, CleanDelete, StoresWanted, history
<1>6. LiveKept'
  BY DEF IInv, CleanDelete, VictimsDue, LiveKept, IsExpired, history
<1>7. GoneStaysGone'
  BY DEF IInv, CleanDelete, GoneStaysGone, Here, history
<1>8. CleanupDue'
  BY DEF IInv, CleanDelete, CleanupDue
<1> QED
  BY <1>1, <1>2, <1>3, <1>4, <1>5, <1>6, <1>7, <1>8 DEF IInv

LEMMA CleanEndsOK ==
  ASSUME IInv, NEW r \in Requests, CleanEnds(r)
  PROVE  IInv'
<1>1. TypeOK'
  BY DEF IInv, CleanEnds, TypeOK, history
<1>2. Held'
  BY DEF IInv, CleanEnds, Held, history
<1>3. Fresh'
  BY DEF IInv, CleanEnds, Fresh, history
<1>4. VictimsDue'
  BY DEF IInv, CleanEnds, VictimsDue, IsExpired, history
<1>5. StoresWanted'
  BY DEF IInv, CleanEnds, StoresWanted, history
<1>6. LiveKept'
  BY DEF IInv, CleanEnds, LiveKept, IsExpired, history
<1>7. GoneStaysGone'
  BY DEF IInv, CleanEnds, GoneStaysGone, Here, history
<1>8. CleanupDue'
  BY DEF IInv, CleanEnds, CleanupDue
<1> QED
  BY <1>1, <1>2, <1>3, <1>4, <1>5, <1>6, <1>7, <1>8 DEF IInv

LEMMA ReplyOK ==
  ASSUME IInv, NEW r \in Requests, Reply(r)
  PROVE  IInv'
<1>1. TypeOK'
  BY EventManagerAssumption DEF IInv, Reply, TypeOK, Held
<1>2. Held'
  BY DEF IInv, Reply, TypeOK, Held
<1>3. Fresh'
  BY EventManagerAssumption DEF IInv, Reply, Fresh
<1>4. VictimsDue'
  BY DEF IInv, Reply, VictimsDue, IsExpired
<1>5. StoresWanted'
  BY DEF IInv, Reply, StoresWanted
<1>6. LiveKept'
  BY DEF IInv, Reply, LiveKept, IsExpired
<1>7. GoneStaysGone'
  BY DEF IInv, Reply, GoneStaysGone, Here
<1>8. CleanupDue'
  BY DEF IInv, Reply, CleanupDue
<1> QED
  BY <1>1, <1>2, <1>3, <1>4, <1>5, <1>6, <1>7, <1>8 DEF IInv

-----------------------------------------------------------------------------
(* The clock, the initial state, UNSUBSCRIBE *)

LEMMA TickOK ==
  ASSUME IInv, Tick
  PROVE  IInv'
  BY DEF Tick, requests, history, IInv, TypeOK, Held, Fresh, VictimsDue, StoresWanted, LiveKept,
         GoneStaysGone, CleanupDue, None, Here, IsExpired

LEMMA NotifyOK ==
  ASSUME IInv, NEW s \in Sids, Notify(s)
  PROVE  IInv'
<1>1. TypeOK'
  BY DEF IInv, Notify, TypeOK, None, requests
<1>2. Held'
  BY DEF IInv, Notify, Held, requests
<1>3. Fresh'
  BY DEF IInv, Notify, Fresh, requests
<1>4. VictimsDue'
  BY DEF IInv, Notify, VictimsDue, IsExpired, requests
<1>5. StoresWanted'
  BY DEF IInv, Notify, StoresWanted, requests
<1>6. LiveKept'
  BY DEF IInv, Notify, LiveKept, IsExpired
<1>7. GoneStaysGone'
  BY DEF IInv, Notify, GoneStaysGone, Here
<1>8. CleanupDue'
  BY DEF IInv, Notify, CleanupDue, requests
<1> QED
  BY <1>1, <1>2, <1>3, <1>4, <1>5, <1>6, <1>7, <1>8 DEF IInv

LEMMA UnsubscribeOK ==
  ASSUME IInv, NEW s \in Sids, Unsubscribe(s)
  PROVE  IInv'
<1>1. TypeOK'
  BY DEF IInv, Unsubscribe, TypeOK, requests
<1>2. Held'
  BY DEF IInv, Unsubscribe, Held, requests
<1>3. Fresh'
  BY DEF IInv, Unsubscribe, Fresh, requests
<1>4. VictimsDue'
  BY DEF IInv, Unsubscribe, VictimsDue, IsExpired, requests
<1>5. StoresWanted'
  BY DEF IInv, Unsubscribe, StoresWanted, requests
<1>6. LiveKept'
  BY DEF IInv, Unsubscribe, TypeOK, LiveKept, IsExpired
<1>7. GoneStaysGone'
  BY DEF IInv, Unsubscribe, TypeOK, GoneStaysGone, Here
<1>8. CleanupDue'
  BY DEF IInv, Unsubscribe, CleanupDue, requests
<1> QED
  BY <1>1, <1>2, <1>3, <1>4, <1>5, <1>6, <1>7, <1>8 DEF IInv

-----------------------------------------------------------------------------
(* The theorems *)

LEMMA StepOK ==
  ASSUME IInv, [Next]_vars
  PROVE  IInv'
<1>1. CASE UNCHANGED vars
  BY <1>1 DEF vars, requests, history, IInv, TypeOK, Held, Fresh, VictimsDue, StoresWanted, LiveKept,
     GoneStaysGone, CleanupDue, Here, IsExpired
<1>2. CASE Clients
  BY <1>2, NewSubscribeOK, RenewLoadOK, RenewUnknownOK, UnsubscribeOK DEF Clients
<1>3. CASE \E r \in Requests : Serve(r)
  BY <1>3, RenewStoreOK, VisitOK, ResetOK, CleanVisitOK, CleanDeleteOK, CleanEndsOK, ReplyOK DEF Serve
<1> QED
  BY <1>1, <1>2, <1>3, TickOK, NotifyOK DEF Next

LEMMA Invariant == Spec => []IInv
<1>1. IInv /\ [Next]_vars => IInv'
  BY StepOK
<1> QED
  BY InitOK, <1>1, PTL DEF Spec

\* Every reachable state is well typed; in particular the counter keeps its width.
THEOREM TypeCorrect == Spec => []TypeOK
  BY Invariant, PTL DEF IInv

\* Renewals, cleanings and initial states of any number of requests lose a
\* subscription that has been granted in the two known ways only.
THEOREM LiveStay == Spec => []LiveKept
  BY Invariant, PTL DEF IInv

\* A client that has left does not come back but by a renewal that was under way.
THEOREM GoneStay == Spec => []GoneStaysGone
  BY Invariant, PTL DEF IInv

\* However many requests count at once, the counter does not get past the value
\* that starts a cleaning unless one is about to start.
THEOREM NoCleanupMissed == Spec => []CleanupDue
  BY Invariant, PTL DEF IInv

=============================================================================
