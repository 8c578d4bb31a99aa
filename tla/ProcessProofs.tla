---------------------------- MODULE ProcessProofs ----------------------------
(* Theorems about Process and the Ssdp server in it, for every set of targets *)
(* and every number of delayed messages.                                      *)
EXTENDS Process, TLAPS

-----------------------------------------------------------------------------
(* The SSDP server by itself *)

\* Stop closes the connection as its last step, and nobody opens it again
ClosedAtEnd ==
    /\ stopper = "end" => conn = "closed"
    /\ stopper # "idle" => quit = "closed"
    /\ quit # "nil" => pc \notin {"begin", "connected"}

LEMMA TypeInit == Init => TypeOK
  BY SsdpAssumption DEF Init, TypeOK

LEMMA TypeStep == TypeOK /\ [Next]_vars => TypeOK'
<1> SUFFICES ASSUME TypeOK, [Next]_vars PROVE TypeOK'
  OBVIOUS
<1> USE DEF TypeOK
<1>1. CASE Connect \/ Run \/ AliveDone \/ PeriodicEnds \/ Tick
  BY <1>1 DEF Connect, Run, AliveDone, PeriodicEnds, Tick
<1>2. ASSUME NEW t \in Targets, sendAlive(t) PROVE TypeOK'
  <2>1. <<"alive", t>> \in Msg
    BY DEF Msg
  <2>2. delayed' \in [Msg -> Nat]
    BY <1>2, <2>1 DEF sendAlive
  <2> QED
    BY <1>2, <2>2 DEF sendAlive
<1>3. CASE Read
  BY <1>3 DEF Read
<1>4. CASE ReadFails \/ ListenEnds
  BY <1>4 DEF ReadFails, ListenEnds
<1>5. CASE parseUdpMessage
  <2>1. delayed' \in [Msg -> Nat]
    BY <1>5 DEF parseUdpMessage
  <2> QED
    BY <1>5, <2>1 DEF parseUdpMessage
<1>6. ASSUME NEW m \in Msg, Dropped(m) \/ Due(m) PROVE TypeOK'
  <2>1. delayed[m] > 0 /\ delayed' = [delayed EXCEPT ![m] = delayed[m] - 1]
    BY <1>6 DEF Dropped, Due
  <2>2. writing' = writing \/ writing' = [writing EXCEPT ![m] = writing[m] + 1]
    BY <1>6 DEF Dropped, Due
  <2>3. delayed' \in [Msg -> Nat] /\ writing' \in [Msg -> Nat]
    BY <2>1, <2>2
  <2> QED
    BY <1>6, <2>3 DEF Dropped, Due
<1>7. ASSUME NEW m \in Msg, WriteMsg(m) PROVE TypeOK'
  <2>1. writing' \in [Msg -> Nat]
    BY <1>7 DEF WriteMsg
  <2>2. m[2] \in Targets
    BY DEF Msg
  <2>3. heard' \in [Targets -> {"nothing", "alive", "byebye"}]
    BY <1>7, <2>2 DEF WriteMsg
  <2> QED
    BY <1>7, <2>1, <2>3 DEF WriteMsg
<1>8. CASE CloseQuit \/ CloseConn
  BY <1>8 DEF CloseQuit, CloseConn
<1>9. ASSUME NEW t \in Targets, sendByeBye(t) PROVE TypeOK'
  BY <1>9 DEF sendByeBye
<1>10. CASE UNCHANGED vars
  BY <1>10 DEF vars
<1> QED
  BY <1>1, <1>2, <1>3, <1>4, <1>5, <1>6, <1>7, <1>8, <1>9, <1>10
  DEF Next, Periodic, Listen, Sender, StopStep

\* Every reachable state is well typed.
THEOREM TypeCorrect == Spec => []TypeOK
  BY TypeInit, TypeStep, PTL DEF Spec

LEMMA ClosedInit == Init => ClosedAtEnd
  BY DEF Init, ClosedAtEnd

LEMMA ClosedStep == TypeOK /\ ClosedAtEnd /\ [Next]_vars => ClosedAtEnd'
<1> SUFFICES ASSUME TypeOK, ClosedAtEnd, [Next]_vars PROVE ClosedAtEnd'
  OBVIOUS
<1> USE DEF ClosedAtEnd
<1>1. CASE Periodic
  BY <1>1 DEF Periodic, Connect, Run, AliveDone, PeriodicEnds, Tick, sendAlive
<1>2. CASE Read \/ Listen
  BY <1>2 DEF Read, Listen, ReadFails, ListenEnds, parseUdpMessage
<1>3. ASSUME NEW m \in Msg, Sender(m) PROVE ClosedAtEnd'
  BY <1>3 DEF Sender, Dropped, Due, WriteMsg
<1>4. CASE CloseQuit
  BY <1>4 DEF CloseQuit
<1>5. CASE StopStep
  BY <1>5 DEF StopStep, CloseConn, sendByeBye, TypeOK
<1>6. CASE UNCHANGED vars
  BY <1>6 DEF vars
<1> QED
  BY <1>1, <1>2, <1>3, <1>4, <1>5, <1>6 DEF Next

LEMMA SilentStep == ClosedAtEnd /\ [Next]_vars => (stopper = "end" => heard' = heard)
<1> SUFFICES ASSUME ClosedAtEnd, [Next]_vars, stopper = "end" PROVE heard' = heard
  OBVIOUS
<1>1. conn = "closed"
  BY DEF ClosedAtEnd
<1>2. CASE Periodic \/ Read \/ Listen \/ CloseQuit \/ CloseConn
  BY <1>2 DEF Periodic, Connect, Run, AliveDone, PeriodicEnds, Tick, sendAlive, Read, Listen,
              ReadFails, ListenEnds, parseUdpMessage, CloseQuit, CloseConn
<1>3. ASSUME NEW m \in Msg, Sender(m) PROVE heard' = heard
  BY <1>1, <1>3 DEF Sender, Dropped, Due, WriteMsg
<1>4. ASSUME NEW t \in Targets, sendByeBye(t) PROVE heard' = heard
  BY <1>4 DEF sendByeBye
<1>5. CASE UNCHANGED vars
  BY <1>5 DEF vars
<1> QED
  BY <1>2, <1>3, <1>4, <1>5 DEF Next, StopStep

\* After Stop has returned no goroutine that is still about is heard.
THEOREM SilenceKept == Spec => SilentAfterStop
<1>1. Spec => []ClosedAtEnd
  BY ClosedInit, ClosedStep, TypeCorrect, PTL DEF Spec
<1>2. ClosedAtEnd /\ [Next]_vars => [stopper = "end" => heard' = heard]_vars
  BY SilentStep
<1> QED
  BY <1>1, <1>2, PTL DEF Spec, SilentAfterStop

-----------------------------------------------------------------------------
(* The server in the program *)

\* main makes what the signal's goroutine closes, in this order
Made ==
    /\ main # "begin" => done # "nil"
    /\ main \in {"made", "walk", "spawn", "listen", "serve", "serving"} => wdone # "nil"
    /\ main \in {"serve", "serving"} => srv # "nil"
    /\ main \in {"begin", "started", "prestart", "made", "walk"} => reader = "off"
    /\ up => main = "serving" /\ quit # "nil"
    /\ sig = "wait" => ~up

\* what that goroutine has closed, by how far it has come
Closed ==
    /\ sig \in {"wait", "back"} => done # "closed"
    /\ sig \in {"wait", "back", "watcher", "close"} => wdone # "closed"
    /\ sig \in {"wait", "back", "watcher", "close", "recv", "reader", "stuck", "ssdp"} => quit # "closed"
    /\ srv = "closed" => sig = "end"
    /\ sig \in {"http", "end"} => stopper = "end"
    /\ stopper = "end" => unbid = {}

\* the UDP server's connection, and when its channel is made
Conn ==
    /\ kind = "udp" /\ stopper = "end" => conn = "closed"
    /\ stopper # "idle" => quit = "closed"
    /\ quit # "nil" => pc \notin {"begin", "connected"}

ProcInv == ProcTypeOK /\ Made /\ Closed /\ Conn
           /\ NoPanicOnceUp /\ ByeBeforeExit /\ WatcherStops

LEMMA ProcInitOK == ProcInit => ProcInv
  BY TypeInit DEF ProcInit, Init, ProcInv, ProcTypeOK, Made, Closed, Conn, NoPanicOnceUp,
     ByeBeforeExit, WatcherStops

-----------------------------------------------------------------------------
(* The steps of main and of the signal's goroutine *)

LEMMA MainOK == ProcInv /\ Running /\ Main => ProcInv'
<1> SUFFICES ASSUME ProcInv, Running, Main PROVE ProcInv'
  OBVIOUS
<1>1. UNCHANGED <<vars, kind>>
  BY DEF Main, Alone, BackStart, WatcherStart, PreStart, MakeStopDone, WalkEnds, Spawn, MakeServer,
     Serve, ServeEnds
<1>2. TypeOK'
  BY <1>1 DEF ProcInv, ProcTypeOK, TypeOK, vars
<1> USE <1>1, <1>2 DEF ProcInv, ProcTypeOK, Made, Closed, Conn, NoPanicOnceUp, ByeBeforeExit, WatcherStops,
     Running, vars, startup, ending
<1>3. CASE BackStart
  BY <1>3 DEF BackStart
<1>4. CASE WatcherStart
  BY <1>4 DEF WatcherStart
<1>5. CASE PreStart
  BY <1>5 DEF PreStart
<1>6. CASE MakeStopDone
  BY <1>6 DEF MakeStopDone
<1>7. CASE WalkEnds
  BY <1>7 DEF WalkEnds
<1>8. CASE Spawn
  BY <1>8 DEF Spawn
<1>9. CASE MakeServer
  BY <1>9 DEF MakeServer
<1>10. CASE Serve
  BY <1>10 DEF Serve
<1>11. CASE ServeEnds
  BY <1>11 DEF ServeEnds
<1> QED
  BY <1>3, <1>4, <1>5, <1>6, <1>7, <1>8, <1>9, <1>10, <1>11 DEF Main

LEMMA ReaderOK == ProcInv /\ Running /\ (ReaderEnds \/ ReaderFails \/ SsdpFails) => ProcInv'
<1> SUFFICES ASSUME ProcInv, Running, ReaderEnds \/ ReaderFails \/ SsdpFails PROVE ProcInv'
  OBVIOUS
<1>1. UNCHANGED <<vars, kind>>
  BY DEF Alone, ReaderEnds, ReaderFails, SsdpFails
<1>2. TypeOK'
  BY <1>1 DEF ProcInv, ProcTypeOK, TypeOK, vars
<1> QED
  BY <1>1, <1>2 DEF ProcInv, ProcTypeOK, Made, Closed, Conn, NoPanicOnceUp, ByeBeforeExit, WatcherStops,
     Running, vars, startup, ending, ReaderEnds, ReaderFails, SsdpFails

LEMMA SignalOK == ProcInv /\ Running /\ (Signal \/ (Stop /\ ~StopSsdp)) => ProcInv'
<1> SUFFICES ASSUME ProcInv, Running, Signal \/ (Stop /\ ~StopSsdp) PROVE ProcInv'
  OBVIOUS
<1>1. UNCHANGED <<vars, kind>>
  BY DEF Stop, StopReader, Alone, Panic, Signal, StopBack, StopWatcher, CloseDone, ReadStopDone, AwaitReader,
     SsdpStopped, Shutdown
<1>2. TypeOK'
  BY <1>1 DEF ProcInv, ProcTypeOK, TypeOK, vars
<1> USE <1>1, <1>2 DEF ProcInv, ProcTypeOK, Made, Closed, Conn, NoPanicOnceUp, ByeBeforeExit, WatcherStops,
     Running, vars, startup, ending, Panic
<1>3. CASE Signal
  BY <1>3 DEF Signal
<1>4. CASE StopBack
  BY <1>4 DEF StopBack
<1>5. CASE StopWatcher
  BY <1>5 DEF StopWatcher
<1>6. CASE CloseDone
  BY <1>6 DEF CloseDone
<1>7. CASE ReadStopDone
  BY <1>7 DEF ReadStopDone
<1>8. CASE AwaitReader
  BY <1>8 DEF AwaitReader
<1>9. CASE SsdpStopped
  BY <1>9 DEF SsdpStopped
<1>10. CASE Shutdown
  BY <1>10 DEF Shutdown
<1> QED
  BY <1>3, <1>4, <1>5, <1>6, <1>7, <1>8, <1>9, <1>10 DEF Stop, StopReader

LEMMA StopSsdpOK == ProcInv /\ Running /\ StopSsdp => ProcInv'
<1> SUFFICES ASSUME ProcInv, Running, StopSsdp PROVE ProcInv'
  OBVIOUS
<1> USE DEF ProcInv, ProcTypeOK, Made, Closed, Conn, NoPanicOnceUp, ByeBeforeExit, WatcherStops,
     Running, startup, ending
<1>1. CASE quit # "open"
  <2>1. UNCHANGED <<vars, kind>>
    BY <1>1 DEF StopSsdp, Panic, Alone
  <2>2. TypeOK'
    BY <2>1 DEF TypeOK, vars
  <2>3. quit \in {"nil", "open", "closed"}
    BY DEF TypeOK
  <2>4. ~up
    BY <1>1, <2>3 DEF StopSsdp
  <2> QED
    BY <1>1, <2>1, <2>2, <2>4 DEF StopSsdp, Panic, vars
<1>2. CASE quit = "open"
  <2>1. CloseQuit
    BY <1>2 DEF StopSsdp
  <2>2. TypeOK'
    BY <2>1, TypeStep DEF Next
  <2> QED
    BY <1>2, <2>1, <2>2 DEF StopSsdp, CloseQuit
<1> QED
  BY <1>1, <1>2

-----------------------------------------------------------------------------
(* The steps of the SSDP servers leave main's variables alone *)

\* What these steps may change
SsdpMoves ==
    /\ UNCHANGED <<kind, main, done, state, wdone, reader, srv, sig, up, exit>>
    /\ quit # "nil" => quit' = quit
    /\ quit' # "closed" \/ quit = "closed"
    /\ stopper = "end" => stopper' = "end" /\ unbid' = unbid
    /\ stopper' = "end" => unbid' = {}
    /\ TypeOK'

LEMMA MovesOK == ProcInv /\ Running /\ SsdpMoves /\ Conn' => ProcInv'
  BY DEF ProcInv, ProcTypeOK, TypeOK, Made, Closed, NoPanicOnceUp, ByeBeforeExit, WatcherStops,
     SsdpMoves, Running

LEMMA UdpOK == ProcInv /\ Running /\ Udp => SsdpMoves /\ Conn'
<1> SUFFICES ASSUME ProcInv, Running, Udp PROVE SsdpMoves /\ Conn'
  OBVIOUS
<1>1. TypeOK'
  BY TypeStep DEF Udp, Next, ProcInv, ProcTypeOK
<1>2. UNCHANGED <<kind, main, done, state, wdone, reader, srv, sig, up, exit>>
  BY DEF Udp, Others, startup, ending
<1> USE <1>1, <1>2 DEF SsdpMoves, Conn, Closed, ProcInv
<1>3. CASE Periodic
  BY <1>3 DEF Periodic, Connect, Run, AliveDone, PeriodicEnds, Tick, sendAlive
<1>4. CASE Read \/ Listen
  BY <1>4 DEF Read, Listen, ReadFails, ListenEnds, parseUdpMessage
<1>5. CASE StopStep
  BY <1>5 DEF StopStep, CloseConn, sendByeBye
<1>6. ASSUME NEW m \in Msg, Sender(m) PROVE SsdpMoves /\ Conn'
  BY <1>6 DEF Sender, Dropped, Due, WriteMsg
<1> QED
  BY <1>3, <1>4, <1>5, <1>6 DEF Udp

LEMMA MiniOK == ProcInv /\ Running /\ Mini => SsdpMoves /\ Conn'
<1> SUFFICES ASSUME ProcInv, Running, Mini PROVE SsdpMoves /\ Conn'
  OBVIOUS
<1>1. UNCHANGED <<kind, main, done, state, wdone, reader, srv, sig, up, exit>> /\ kind = "minissdpd"
  BY DEF Mini, Others, startup, ending
<1> USE <1>1 DEF SsdpMoves, Conn, Closed, ProcInv, ProcTypeOK, TypeOK
<1>2. CASE MiniStart \/ AliveDone \/ PeriodicEnds \/ Tick \/ MiniSilent \/ MiniStopped
  BY <1>2 DEF MiniStart, AliveDone, PeriodicEnds, Tick, MiniSilent, MiniStopped
<1>3. ASSUME NEW t \in Targets, MiniAlive(t) \/ MiniByeBye(t) PROVE SsdpMoves /\ Conn'
  BY <1>3 DEF MiniAlive, MiniByeBye
<1> QED
  BY <1>2, <1>3 DEF Mini, MiniStep, MiniStop

-----------------------------------------------------------------------------

LEMMA ProcStep == ProcInv /\ [ProcNext]_pvars => ProcInv'
<1> SUFFICES ASSUME ProcInv, [ProcNext]_pvars PROVE ProcInv'
  OBVIOUS
<1>1. CASE ProcNext
  BY <1>1, MainOK, ReaderOK, SignalOK, StopSsdpOK, UdpOK, MiniOK, MovesOK DEF ProcNext
<1>2. CASE UNCHANGED pvars
  BY <1>2 DEF pvars, vars, startup, ending, ProcInv, ProcTypeOK, TypeOK, Made, Closed, Conn, NoPanicOnceUp,
     ByeBeforeExit, WatcherStops
<1> QED
  BY <1>1, <1>2

LEMMA ProcInvariant == ProcSpec => []ProcInv
  BY ProcInitOK, ProcStep, PTL DEF ProcSpec

\* Every reachable state of the process is well typed.
THEOREM ProcessTyped == ProcSpec => []ProcTypeOK
  BY ProcInvariant, PTL DEF ProcInv

\* A signal that finds the program up never makes it panic.
THEOREM StopIsSafe == ProcSpec => []NoPanicOnceUp
  BY ProcInvariant, PTL DEF ProcInv

\* A signal ends the process only after every target has been said goodbye to.
THEOREM Goodbye == ProcSpec => []ByeBeforeExit
  BY ProcInvariant, PTL DEF ProcInv

\* A watcher that has been told to end has ended when its stop returns.
THEOREM WatcherEnds == ProcSpec => []WatcherStops
  BY ProcInvariant, PTL DEF ProcInv

LEMMA SilentMove ==
    ProcInv /\ [ProcNext]_pvars => (kind = "udp" /\ stopper = "end" => heard' = heard)
<1> SUFFICES ASSUME ProcInv, [ProcNext]_pvars, kind = "udp", stopper = "end" PROVE heard' = heard
  OBVIOUS
<1>1. ClosedAtEnd
  BY DEF ProcInv, Conn, ClosedAtEnd
<1>2. CASE [Next]_vars
  BY <1>1, <1>2, SilentStep
<1>3. [Next]_vars
  BY DEF ProcNext, pvars, Main, Stop, StopReader, Alone, Panic, BackStart, WatcherStart, PreStart,
     MakeStopDone, WalkEnds, Spawn, MakeServer, Serve, ServeEnds, ReaderEnds, ReaderFails, Signal, StopBack,
     StopWatcher, CloseDone, ReadStopDone, AwaitReader, StopSsdp, SsdpStopped, Shutdown, SsdpFails, Udp, Mini, Next
<1> QED
  BY <1>2, <1>3

\* After Stop of the UDP server has returned nothing of it is heard, in the
\* process as it is put together.
THEOREM SilenceInProcess == ProcSpec => SilentOnceStopped
<1>1. ProcInv /\ [ProcNext]_pvars => [kind = "udp" /\ stopper = "end" => heard' = heard]_pvars
  BY SilentMove
<1> QED
  BY <1>1, ProcInvariant, PTL DEF ProcSpec, SilentOnceStopped

=============================================================================
