-------------------------------- MODULE Ssdp --------------------------------
(***************************************************************************)
(* pkg/upnp/ssdp/udp_server.go: announcing the device by multicast and     *)
(* answering searches.  Four kinds of goroutines share the connection and  *)
(* the channel `quit`:                                                     *)
(*   - the one that called Start and stays in runPeriodic (pc);            *)
(*   - listen, which reads searches (listener) and starts parseUdpMessage; *)
(*   - one per delayed message, inside send (delayed, then writing);       *)
(*   - the one that calls Stop (stopper).                                  *)
(* A select that finds several cases ready takes any of them.              *)
(***************************************************************************)
EXTENDS Integers, FiniteSets

CONSTANTS
    Targets,        \* o.AllTargets()
    ReadErrors,     \* may reading from the open connection fail?
    MaxDelayed      \* bound: goroutines holding back the same message

ASSUME SsdpAssumption ==
    Targets # {} /\ ReadErrors \in BOOLEAN /\ MaxDelayed \in Nat \ {0}

\* What send may hold back: Alive to everybody, or an answer to the searcher
Msg == {"alive", "answer"} \X Targets

VARIABLES
    quit,       \* s.quit: "nil", "open" or "closed"
    conn,       \* s.udpConn: "nil", "open" or "closed"
    pc,         \* Start: "begin", "connected", "alive", "select", "end"
    unsent,     \* targets the loop of sendAlive has not come to
    listener,   \* listen: "off", "read", "got", "failed", "end"
    search,     \* the search just read: the targets it asks for
    delayed,    \* per message, goroutines in the select of send
    writing,    \* per message, goroutines past the select
    stopper,    \* Stop: "idle", "bye", "close", "end"
    unbid,      \* targets the loop of sendByeBye has not come to
    heard       \* the last word a control point heard of a target

vars == <<quit, conn, pc, unsent, listener, search, delayed, writing, stopper, unbid, heard>>

Init ==
    /\ quit = "nil" /\ conn = "nil"
    /\ pc = "begin" /\ unsent = {}
    /\ listener = "off" /\ search = {}
    /\ delayed = [m \in Msg |-> 0] /\ writing = [m \in Msg |-> 0]
    /\ stopper = "idle" /\ unbid = {}
    /\ heard = [t \in Targets |-> "nothing"]

-----------------------------------------------------------------------------
(* Start and runPeriodic *)

\* ListenMulticastUDP; an error ends the process and is left out
Connect ==
    /\ pc = "begin"
    /\ pc' = "connected" /\ conn' = "open"
    /\ UNCHANGED <<quit, unsent, listener, search, delayed, writing, stopper, unbid, heard>>

\* make(chan), go s.listen(), and the first callback of runPeriodic begins
Run ==
    /\ pc = "connected"
    /\ quit' = "open" /\ listener' = "read"
    /\ pc' = "alive" /\ unsent' = Targets
    /\ UNCHANGED <<conn, search, delayed, writing, stopper, unbid, heard>>

\* One round of the loop of sendAlive: send with a delay
sendAlive(t) ==
    /\ pc = "alive" /\ t \in unsent
    /\ delayed[<<"alive", t>>] < MaxDelayed
    /\ unsent' = unsent \ {t}
    /\ delayed' = [delayed EXCEPT ![<<"alive", t>>] = @ + 1]
    /\ UNCHANGED <<quit, conn, pc, listener, search, writing, stopper, unbid, heard>>

AliveDone ==
    /\ pc = "alive" /\ unsent = {}
    /\ pc' = "select"
    /\ UNCHANGED <<quit, conn, unsent, listener, search, delayed, writing, stopper, unbid, heard>>

\* case <-stop
PeriodicEnds ==
    /\ pc = "select" /\ quit = "closed"
    /\ pc' = "end"
    /\ UNCHANGED <<quit, conn, unsent, listener, search, delayed, writing, stopper, unbid, heard>>

\* Mutant: the callback runs on the first tick of a shutdown only
Tick_OnlyAtEnd ==
    /\ pc = "select" /\ quit = "closed"
    /\ pc' = "alive" /\ unsent' = Targets
    /\ UNCHANGED <<quit, conn, listener, search, delayed, writing, stopper, unbid, heard>>

\* case <-tick.C; also when stop is ready
Tick ==
    /\ pc = "select"
    /\ pc' = "alive" /\ unsent' = Targets
    /\ UNCHANGED <<quit, conn, listener, search, delayed, writing, stopper, unbid, heard>>

-----------------------------------------------------------------------------
(* listen, parseUdpMessage *)

\* ReadFromUDP returns a search that passes every check of parseUdpMessage, for
\* one of our targets or for all of them; others have no effect
Read ==
    /\ listener = "read" /\ conn = "open"
    /\ search' \in {Targets} \cup {{t} : t \in Targets}
    /\ listener' = "got"
    /\ UNCHANGED <<quit, conn, pc, unsent, delayed, writing, stopper, unbid, heard>>

\* ReadFromUDP returns an error, always when Stop has closed the connection
ReadFails ==
    /\ listener = "read"
    /\ ReadErrors \/ conn = "closed"
    /\ listener' = "failed"
    /\ UNCHANGED <<quit, conn, pc, unsent, search, delayed, writing, stopper, unbid, heard>>

\* The select after the read, then the error: either ends the loop for good
ListenEnds ==
    /\ \/ listener = "got" /\ quit = "closed"
       \/ listener = "failed"
    /\ listener' = "end" /\ search' = {}
    /\ UNCHANGED <<quit, conn, pc, unsent, delayed, writing, stopper, unbid, heard>>

\* go s.parseUdpMessage: every answer is sent with a delay of its own
parseUdpMessage ==
    /\ listener = "got" /\ quit # "closed"
    /\ \A t \in search : delayed[<<"answer", t>>] < MaxDelayed
    /\ delayed' = [m \in Msg |-> IF m[1] = "answer" /\ m[2] \in search
                                 THEN delayed[m] + 1 ELSE delayed[m]]
    /\ listener' = "read" /\ search' = {}
    /\ UNCHANGED <<quit, conn, pc, unsent, writing, stopper, unbid, heard>>

-----------------------------------------------------------------------------
(* The goroutine of send *)

\* case <-s.quit
Dropped(m) ==
    /\ delayed[m] > 0 /\ quit = "closed"
    /\ delayed' = [delayed EXCEPT ![m] = @ - 1]
    /\ UNCHANGED <<quit, conn, pc, unsent, listener, search, writing, stopper, unbid, heard>>

\* case <-time.After
Due(m) ==
    /\ delayed[m] > 0 /\ writing[m] < MaxDelayed
    /\ delayed' = [delayed EXCEPT ![m] = @ - 1]
    /\ writing' = [writing EXCEPT ![m] = @ + 1]
    /\ UNCHANGED <<quit, conn, pc, unsent, listener, search, stopper, unbid, heard>>

\* WriteToUDP; on a closed connection it fails, which is only logged
WriteMsg(m) ==
    /\ writing[m] > 0
    /\ writing' = [writing EXCEPT ![m] = @ - 1]
    /\ heard' = IF m[1] = "alive" /\ conn = "open" THEN [heard EXCEPT ![m[2]] = "alive"] ELSE heard
    /\ UNCHANGED <<quit, conn, pc, unsent, listener, search, delayed, stopper, unbid>>

-----------------------------------------------------------------------------
(* Stop, called once Start has made the channel *)

CloseQuit ==
    /\ stopper = "idle" /\ quit = "open"
    /\ quit' = "closed"
    /\ stopper' = "bye" /\ unbid' = Targets
    /\ UNCHANGED <<conn, pc, unsent, listener, search, delayed, writing, heard>>

\* One round of the loop of sendByeBye: a write without delay
sendByeBye(t) ==
    /\ stopper = "bye" /\ t \in unbid
    /\ unbid' = unbid \ {t}
    /\ heard' = IF conn = "open" THEN [heard EXCEPT ![t] = "byebye"] ELSE heard
    /\ UNCHANGED <<quit, conn, pc, unsent, listener, search, delayed, writing, stopper>>

\* Mutant: the connection stays open
CloseConn_Forgotten ==
    /\ stopper = "bye" /\ unbid = {}
    /\ stopper' = "end"
    /\ UNCHANGED <<quit, conn, pc, unsent, listener, search, delayed, writing, unbid, heard>>

\* s.udpConn.Close()
CloseConn ==
    /\ stopper = "bye" /\ unbid = {}
    /\ conn' = "closed" /\ stopper' = "end"
    /\ UNCHANGED <<quit, pc, unsent, listener, search, delayed, writing, unbid, heard>>

-----------------------------------------------------------------------------
Periodic == Connect \/ Run \/ AliveDone \/ PeriodicEnds \/ Tick \/ \E t \in Targets : sendAlive(t)
Listen   == ReadFails \/ ListenEnds \/ parseUdpMessage
Sender(m) == Dropped(m) \/ Due(m) \/ WriteMsg(m)
StopStep == CloseConn \/ \E t \in Targets : sendByeBye(t)

Next ==
    \/ Periodic
    \/ Read \/ Listen
    \/ \E m \in Msg : Sender(m)
    \/ CloseQuit \/ StopStep

Spec == Init /\ [][Next]_vars

-----------------------------------------------------------------------------
(* Properties *)

\* The values of the variables.
TypeOK ==
    /\ quit \in {"nil", "open", "closed"} /\ conn \in {"nil", "open", "closed"}
    /\ pc \in {"begin", "connected", "alive", "select", "end"}
    /\ unsent \subseteq Targets /\ search \subseteq Targets /\ unbid \subseteq Targets
    /\ listener \in {"off", "read", "got", "failed", "end"}
    /\ delayed \in [Msg -> Nat] /\ writing \in [Msg -> Nat]
    /\ stopper \in {"idle", "bye", "end"}
    /\ heard \in [Targets -> {"nothing", "alive", "byebye"}]

\* Once Stop has returned nothing more is heard, although runPeriodic and delayed
\* messages may still be under way.
SilentAfterStop == [][stopper = "end" => heard' = heard]_vars

\* The ByeBye message is the latest, no Alive message after it.
NoAliveAfterByeBye == [][\A t \in Targets : heard[t] = "byebye" => heard'[t] # "alive"]_vars

=============================================================================
