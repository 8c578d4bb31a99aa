---------------------------- MODULE EventManager ----------------------------
(***************************************************************************)
(* Event subscriptions: pkg/upnp/events.  Each SUBSCRIBE and UNSUBSCRIBE   *)
(* is served by a goroutine of its own; all share the sync.Map             *)
(* `subscribers` and the counter `visits` and hold no lock, so what one of *)
(* them has loaded may be out of date when it stores or deletes.  A        *)
(* goroutine per new subscription sends the initial state two seconds      *)
(* later, from a copy of the subscriber.                                   *)
(*                                                                         *)
(* Times are instants 0, 1, 2, ...; a subscriber is its Timeout (0: none). *)
(* Requests that are refused for their headers touch no state and are left *)
(* out, and so is NotifyAll, which nothing in the program calls: Seq is 0  *)
(* for ever.                                                               *)
(***************************************************************************)
EXTENDS Naturals, FiniteSets

CONSTANTS
    Sids,               \* the subscription ids NewSID hands out, no two alike
    Requests,           \* goroutines of the HTTP server
    Durations,          \* what TIMEOUT headers ask for
    Delay,              \* of the initial state
    CleanAfterVisits,   \* visits between two cleanings (500 in the code)
    Wrap,               \* the counter counts modulo this (2^32 in the code)
    MaxTime,            \* bound: the last instant
    NoSid               \* no sid

ASSUME EventManagerAssumption ==
    /\ Durations \subseteq Nat \ {0}
    /\ Delay \in Nat
    /\ CleanAfterVisits \in Nat \ {0}
    /\ Wrap \in Nat /\ CleanAfterVisits < Wrap
    /\ MaxTime \in Nat \ {0}
    /\ NoSid \notin Sids

VARIABLES
    now,            \* the clock
    subscribers,    \* the map: Timeout of each sid, 0 if it is not there
    visits,         \* the counter
    pc,             \* where the goroutine of each request is
    sid,            \* the sid it is about
    tm,             \* the time it stores and then confirms (0: refused)
    isNew,          \* res.IsNewSubscription
    todo,           \* sids the Range of its Clean has still to visit
    victim,         \* sid its Clean has found expired
    initial,        \* initial state to be sent: copy of Timeout, and when
    known,          \* sids whose client has been told (history)
    granted,        \* Timeout last stored for a client that has not left since (history)
    overtaken       \* sids stored or deleted on the strength of a value that had
                    \* been replaced (history)

requests == <<pc, sid, tm, isNew, todo, victim>>
history  == <<known, granted, overtaken>>
vars     == <<now, subscribers, visits, requests, initial, history>>

None == [timeout |-> 0, at |-> 0]
Here(s)      == subscribers[s] # 0
IsExpired(t) == t < now

Init ==
    /\ now = 1
    /\ subscribers = [s \in Sids |-> 0]
    /\ visits = 0
    /\ pc = [r \in Requests |-> "idle"]
    /\ sid = [r \in Requests |-> NoSid]
    /\ tm = [r \in Requests |-> 0]
    /\ isNew = [r \in Requests |-> FALSE]
    /\ todo = [r \in Requests |-> {}]
    /\ victim = [r \in Requests |-> NoSid]
    /\ initial = [s \in Sids |-> None]
    /\ known = {} /\ granted = [s \in Sids |-> 0] /\ overtaken = {}

Tick == /\ now < MaxTime /\ now' = now + 1
        /\ UNCHANGED <<subscribers, visits, requests, initial, history>>

-----------------------------------------------------------------------------
(* SUBSCRIBE *)

\* Subscribe of a new client to the end of newSubscribe: nobody else has the
\* sid yet
NewSubscribe(r, s, d) ==
    /\ pc[r] = "idle"
    /\ s \notin known /\ granted[s] = 0
    /\ subscribers' = [subscribers EXCEPT ![s] = now + d]
    /\ granted' = [granted EXCEPT ![s] = now + d]
    /\ pc' = [pc EXCEPT ![r] = "visit"]
    /\ sid' = [sid EXCEPT ![r] = s] /\ tm' = [tm EXCEPT ![r] = now + d]
    /\ isNew' = [isNew EXCEPT ![r] = TRUE]
    /\ UNCHANGED <<now, visits, todo, victim, initial, known, overtaken>>

\* renew: Load.  The timeout counts from the arrival of the request; one that
\* has passed is no reason to refuse.  The visit of a refused request counts.
RenewLoad(r, s, d) ==
    /\ pc[r] = "idle"
    /\ s \in known
    /\ sid' = [sid EXCEPT ![r] = s]
    /\ tm' = [tm EXCEPT ![r] = IF Here(s) THEN now + d ELSE 0]
    /\ pc' = [pc EXCEPT ![r] = IF Here(s) THEN "store" ELSE "visit"]
    /\ UNCHANGED <<now, subscribers, visits, isNew, todo, victim, initial, history>>

\* renew by a client whose sid is not in the map, left from before a restart say
RenewUnknown(r) ==
    /\ pc[r] = "idle"
    /\ pc' = [pc EXCEPT ![r] = "visit"]
    /\ UNCHANGED <<now, subscribers, visits, sid, tm, isNew, todo, victim, initial, history>>

\* A cleaning is going to delete s because of what it has read
DeletionAhead(s) == \E q \in Requests : victim[q] = s

\* renew: Store.  It grants nothing to a client that has left since the Load.
RenewStore(r) ==
    /\ pc[r] = "store"
    /\ subscribers' = [subscribers EXCEPT ![sid[r]] = tm[r]]
    /\ granted' = [granted EXCEPT ![sid[r]] = IF @ = 0 THEN 0 ELSE tm[r]]
    /\ overtaken' = overtaken \cup {s \in {sid[r]} : DeletionAhead(s)}
    /\ pc' = [pc EXCEPT ![r] = "visit"]
    /\ UNCHANGED <<now, visits, sid, tm, isNew, todo, victim, initial, known>>

\* Mutant: the counter is compared with what it was before
Visit_ComparesOld(r) ==
    /\ pc[r] = "visit"
    /\ visits' = (visits + 1) % Wrap
    /\ pc' = [pc EXCEPT ![r] = IF visits = CleanAfterVisits THEN "reset" ELSE "reply"]
    /\ UNCHANGED <<now, subscribers, sid, tm, isNew, todo, victim, initial, history>>

\* Mutant: a counter that is wider than the code's
Visit_Wide(r) ==
    /\ pc[r] = "visit"
    /\ visits' = visits + 1
    /\ pc' = [pc EXCEPT ![r] = IF visits' = CleanAfterVisits THEN "reset" ELSE "reply"]
    /\ UNCHANGED <<now, subscribers, sid, tm, isNew, todo, victim, initial, history>>

\* checkForCleanup: AddUint32, and the comparison of what it returned
Visit(r) ==
    /\ pc[r] = "visit"
    /\ visits' = (visits + 1) % Wrap
    /\ pc' = [pc EXCEPT ![r] = IF visits' = CleanAfterVisits THEN "reset" ELSE "reply"]
    /\ UNCHANGED <<now, subscribers, sid, tm, isNew, todo, victim, initial, history>>

\* Mutant: the counter starts again, but nothing is cleaned
Reset_Only(r) ==
    /\ pc[r] = "reset"
    /\ visits' = 0
    /\ pc' = [pc EXCEPT ![r] = "reply"]
    /\ UNCHANGED <<now, subscribers, sid, tm, isNew, todo, victim, initial, history>>

\* StoreUint32(&m.visits, 0): what others have counted since is lost
Reset(r) ==
    /\ pc[r] = "reset"
    /\ visits' = 0
    /\ pc' = [pc EXCEPT ![r] = "clean"] /\ todo' = [todo EXCEPT ![r] = Sids]
    /\ UNCHANGED <<now, subscribers, sid, tm, isNew, victim, initial, history>>

\* Mutant: what is there is deleted, expired or not
CleanVisit_All(r, s) ==
    /\ pc[r] = "clean" /\ victim[r] = NoSid
    /\ s \in todo[r]
    /\ todo' = [todo EXCEPT ![r] = @ \ {s}]
    /\ victim' = [victim EXCEPT ![r] = IF Here(s) THEN s ELSE NoSid]
    /\ UNCHANGED <<now, subscribers, visits, pc, sid, tm, isNew, initial, history>>

\* Clean: Range comes to s and looks at the value it has found there
CleanVisit(r, s) ==
    /\ pc[r] = "clean" /\ victim[r] = NoSid
    /\ s \in todo[r]
    /\ todo' = [todo EXCEPT ![r] = @ \ {s}]
    /\ victim' = [victim EXCEPT ![r] = IF Here(s) /\ IsExpired(subscribers[s]) THEN s ELSE NoSid]
    /\ UNCHANGED <<now, subscribers, visits, pc, sid, tm, isNew, initial, history>>

\* Clean: Delete, whatever the value is by now
CleanDelete(r) ==
    /\ victim[r] # NoSid
    /\ subscribers' = [subscribers EXCEPT ![victim[r]] = 0]
    /\ victim' = [victim EXCEPT ![r] = NoSid]
    /\ UNCHANGED <<now, visits, pc, sid, tm, isNew, todo, initial, history>>

CleanEnds(r) ==
    /\ pc[r] = "clean" /\ todo[r] = {} /\ victim[r] = NoSid
    /\ pc' = [pc EXCEPT ![r] = "reply"]
    /\ UNCHANGED <<now, subscribers, visits, sid, tm, isNew, todo, victim, initial, history>>

\* The end of HandleEventSubURL.  SendInitialState copies the subscriber, if it
\* is still there, into a goroutine.
Reply(r) ==
    /\ pc[r] = "reply"
    /\ known' = IF tm[r] = 0 THEN known ELSE known \cup {sid[r]}
    /\ initial' = IF isNew[r] /\ Here(sid[r])
                  THEN [initial EXCEPT ![sid[r]] = [timeout |-> subscribers[sid[r]], at |-> now + Delay]]
                  ELSE initial
    /\ pc' = [pc EXCEPT ![r] = "idle"]
    /\ sid' = [sid EXCEPT ![r] = NoSid] /\ tm' = [tm EXCEPT ![r] = 0]
    /\ isNew' = [isNew EXCEPT ![r] = FALSE]
    /\ UNCHANGED <<now, subscribers, visits, todo, victim, granted, overtaken>>

\* notifySubscriber in the goroutine of SendInitialState: an expired copy
\* deletes the subscriber, else the event is sent
Notify(s) ==
    /\ initial[s] # None /\ now >= initial[s].at
    /\ initial' = [initial EXCEPT ![s] = None]
    /\ subscribers' = IF IsExpired(initial[s].timeout)
                      THEN [subscribers EXCEPT ![s] = 0] ELSE subscribers
    /\ overtaken' = IF IsExpired(initial[s].timeout) /\ initial[s].timeout # subscribers[s]
                    THEN overtaken \cup {s} ELSE overtaken
    /\ UNCHANGED <<now, visits, requests, known, granted>>

-----------------------------------------------------------------------------
(* UNSUBSCRIBE *)

\* Mutant: Load and, if it is there, Store of an expired subscriber
Unsubscribe_Expires(s) ==
    /\ s \in known /\ Here(s)
    /\ subscribers' = [subscribers EXCEPT ![s] = now]
    /\ granted' = [granted EXCEPT ![s] = 0]
    /\ overtaken' = overtaken \cup {x \in {s} : \E r \in Requests : pc[r] = "store" /\ sid[r] = s}
    /\ UNCHANGED <<now, visits, requests, initial, known>>

\* LoadAndDelete; a sid that is not there is refused
Unsubscribe(s) ==
    /\ s \in known /\ Here(s)
    /\ subscribers' = [subscribers EXCEPT ![s] = 0]
    /\ granted' = [granted EXCEPT ![s] = 0]
    /\ overtaken' = overtaken \cup {x \in {s} : \E r \in Requests : pc[r] = "store" /\ sid[r] = s}
    /\ UNCHANGED <<now, visits, requests, initial, known>>

-----------------------------------------------------------------------------

Serve(r) == \/ RenewStore(r) \/ Visit(r) \/ Reset(r)
            \/ \E s \in Sids : CleanVisit(r, s)
            \/ CleanDelete(r) \/ CleanEnds(r) \/ Reply(r)

Clients == \/ \E s \in Sids :
              \/ \E r \in Requests, d \in Durations : NewSubscribe(r, s, d) \/ RenewLoad(r, s, d)
              \/ Unsubscribe(s)
           \/ \E r \in Requests : RenewUnknown(r)

Next == \/ Tick \/ Clients
        \/ \E r \in Requests : Serve(r)
        \/ \E s \in Sids : Notify(s)

Spec == Init /\ [][Next]_vars

\* Goroutines run on
FairSpec == Spec /\ \A r \in Requests : WF_vars(Serve(r))

-----------------------------------------------------------------------------
(* Properties *)

\* The values of the variables.
TypeOK ==
    /\ now \in Nat
    /\ subscribers \in [Sids -> Nat]
    /\ visits \in 0 .. Wrap - 1
    /\ pc \in [Requests -> {"idle", "store", "visit", "reset", "clean", "reply"}]
    /\ sid \in [Requests -> Sids \cup {NoSid}]
    /\ tm \in [Requests -> Nat]
    /\ isNew \in [Requests -> BOOLEAN]
    /\ todo \in [Requests -> SUBSET Sids]
    /\ victim \in [Requests -> Sids \cup {NoSid}]
    /\ initial \in [Sids -> [timeout : Nat, at : Nat]]
    /\ known \subseteq Sids /\ granted \in [Sids -> Nat] /\ overtaken \subseteq Sids

\* A subscription that has been granted and has not run out is there with just
\* that timeout (renew, Clean, notifySubscriber): of all the ways in which
\* renewals, cleanings and the initial state of one client can overlap, only two
\* can lose it: a renewal stored under a deletion already decided on, and one
\* that the copy of the initial state does not know of.
LiveKept ==
    \A s \in Sids \ overtaken :
        (granted[s] # 0 /\ ~IsExpired(granted[s])) => subscribers[s] = granted[s]

\* A client that has unsubscribed is forgotten (Unsubscribe, renew): nothing
\* but a renewal that was under way puts it back.
GoneStaysGone ==
    \A s \in Sids \ overtaken : granted[s] = 0 => ~Here(s)

\* The counter never gets past the value that starts a cleaning without one
\* being started (checkForCleanup): it compares for equality, and other
\* requests count between the AddUint32 and the store of 0.
CleanupDue ==
    visits >= CleanAfterVisits => \E r \in Requests : pc[r] = "reset"

\* As long as clients come and their requests are served, a subscriber that has
\* run out does not stay in the map (checkForCleanup, Clean).
ExpiredGo ==
    \A s \in Sids :
        ([]<>\E r \in Requests : pc[r] = "visit") =>
            []((Here(s) /\ IsExpired(subscribers[s])) => <>(~Here(s) \/ ~IsExpired(subscribers[s])))

=============================================================================
