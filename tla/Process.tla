------------------------------- MODULE Process -------------------------------
(***************************************************************************)
(* The program from main to its exit: cmd/godlna, the parts of backend,    *)
(* fswatcher and dlna.Server that start and stop, and the SSDP server, one *)
(* of two kinds: the UDP server of module Ssdp, or, where a minissdpd      *)
(* socket is found, the client of minissdpd_client.go, which shares        *)
(* runPeriodic with it but sends nothing from goroutines of its own.       *)
(*                                                                         *)
(* Goroutines: main; the one that waits for a signal; the reader of file   *)
(* system events; the one of startSsdpServer and those it starts.  Nothing *)
(* but the order of main's statements keeps the second from stopping what  *)
(* the first has not started yet.  A panic ends the process, and so does   *)
(* the return of main, whatever the others are doing.                      *)
(***************************************************************************)
EXTENDS Ssdp

VARIABLES
    kind,       \* the SSDP server: "udp" or "minissdpd"
    main,       \* main: "begin", "started", "prestart", "made", "walk", "spawn", "listen", "serve", "serving"
    done,       \* Backend.done: "nil", "open" or "closed"
    state,      \* inotify.state: "stopped", "running" or "stopping"
    wdone,      \* inotify.done: "nil", "open" or "closed"
    reader,     \* readInotifyEvents: "off", "run" or "end"
    srv,        \* dlna.Server.srv: "nil", "made" or "closed"
    sig,        \* the signal's goroutine: "wait", "back", "watcher", "close", "recv", "reader", "stuck",
                \* "ssdp", "bye", "http" or "end"
    up,         \* did the signal find everything started? (history)
    exit        \* "no", or how it ended: "panic", "error", "failed" or "clean"

startup == <<main, done, state, wdone, reader, srv>>
ending  == <<sig, up, exit>>
pvars   == <<vars, kind, startup, ending>>

ProcInit ==
    /\ Init
    /\ kind \in {"udp", "minissdpd"}
    /\ main = "begin" /\ done = "nil"
    /\ state = "stopped" /\ wdone = "nil" /\ reader = "off" /\ srv = "nil"
    /\ sig = "wait" /\ up = FALSE /\ exit = "no"

Alone == UNCHANGED <<vars, kind>>     \* the SSDP server does not move

-----------------------------------------------------------------------------
(* main; criticalError is os.Exit(1) *)

\* Backend.Start
BackStart ==
    /\ main = "begin"
    /\ main' = "started" /\ done' = "open"
    /\ Alone /\ UNCHANGED <<state, wdone, reader, srv, ending>>

\* inotify.start, the compare-and-swap
WatcherStart ==
    /\ main = "started"
    /\ main' = "prestart" /\ state' = "running"
    /\ Alone /\ UNCHANGED <<done, wdone, reader, srv, ending>>

\* preStart up to w.done = make(...); the system calls before it may fail
PreStart ==
    /\ main = "prestart"
    /\ \/ main' = "made" /\ wdone' = "open" /\ exit' = exit
       \/ exit' = "error" /\ UNCHANGED <<main, wdone>>
    /\ Alone /\ UNCHANGED <<done, state, reader, srv, sig, up>>

\* w.stopDoneCh = make(...), a statement of its own
MakeStopDone ==
    /\ main = "made"
    /\ main' = "walk"
    /\ Alone /\ UNCHANGED <<done, state, wdone, reader, srv, ending>>

\* The walk ends, with the reader started, or with an error
WalkEnds ==
    /\ main = "walk"
    /\ \/ main' = "spawn" /\ reader' = "run" /\ exit' = exit
       \/ exit' = "error" /\ UNCHANGED <<main, reader>>
    /\ Alone /\ UNCHANGED <<done, state, wdone, srv, sig, up>>

\* go startSsdpServer
Spawn ==
    /\ main = "spawn"
    /\ main' = "listen"
    /\ Alone /\ UNCHANGED <<done, state, wdone, reader, srv, ending>>

\* ListenAndServe up to the call of the http server's
MakeServer ==
    /\ main = "listen"
    /\ main' = "serve" /\ srv' = "made"
    /\ Alone /\ UNCHANGED <<done, state, wdone, reader, ending>>

\* http.Server.ListenAndServe: serves, fails (the port is taken), or finds that
\* it has been shut down; then main returns
Serve ==
    /\ main = "serve"
    /\ \/ srv = "made" /\ main' = "serving" /\ exit' = exit
       \/ main' = main /\ exit' = IF srv = "closed" THEN "clean" ELSE "failed"
    /\ Alone /\ UNCHANGED <<done, state, wdone, reader, srv, sig, up>>

\* ErrServerClosed: main returns without an error
ServeEnds ==
    /\ main = "serving" /\ srv = "closed"
    /\ exit' = "clean"
    /\ Alone /\ UNCHANGED <<startup, sig, up>>

\* readInotifyEvents has been told to stop, or fails, and runs shutdown
ReaderEnds ==
    /\ reader = "run" /\ wdone = "closed"
    /\ reader' = "end" /\ state' = "stopped"
    /\ Alone /\ UNCHANGED <<main, done, wdone, srv, ending>>

ReaderFails ==
    /\ reader = "run" /\ wdone = "open"
    /\ reader' = "end" /\ state' = "stopped"
    /\ Alone /\ UNCHANGED <<main, done, wdone, srv, ending>>

-----------------------------------------------------------------------------
(* The goroutine that waits for a signal *)

\* close of a channel that is nil or closed, a method of a nil server
Panic == exit' = "panic" /\ Alone /\ UNCHANGED <<startup, sig, up>>

Signal ==
    /\ sig = "wait"
    /\ sig' = "back"
    /\ up' = (main = "serving" /\ quit = "open")
    /\ Alone /\ UNCHANGED <<startup, exit>>

\* close(b.done)
StopBack ==
    /\ sig = "back"
    /\ IF done # "open" THEN Panic
       ELSE /\ done' = "closed" /\ sig' = "watcher"
            /\ Alone /\ UNCHANGED <<main, state, wdone, reader, srv, up, exit>>

\* inotify.stop, the compare-and-swap: a watcher that is not running is left alone
StopWatcher ==
    /\ sig = "watcher"
    /\ IF state = "running" THEN sig' = "close" /\ state' = "stopping"
                            ELSE sig' = "ssdp" /\ UNCHANGED state
    /\ Alone /\ UNCHANGED <<main, done, wdone, reader, srv, up, exit>>

\* close(w.done)
CloseDone ==
    /\ sig = "close"
    /\ IF wdone # "open" THEN Panic
       ELSE /\ wdone' = "closed" /\ sig' = "recv"
            /\ Alone /\ UNCHANGED <<main, done, state, reader, srv, up, exit>>

\* w.stopDoneCh is evaluated: nil, which nothing is ever received from, until main
\* has made it
ReadStopDone ==
    /\ sig = "recv"
    /\ sig' = IF main = "made" THEN "stuck" ELSE "reader"
    /\ Alone /\ UNCHANGED <<startup, up, exit>>

\* Mutant: nobody waits for the reader
AwaitReader_Not ==
    /\ sig = "reader"
    /\ sig' = "ssdp"
    /\ Alone /\ UNCHANGED <<startup, up, exit>>

\* shutdown has closed the channel, and the receive returns
AwaitReader ==
    /\ sig = "reader" /\ reader = "end"
    /\ sig' = "ssdp"
    /\ Alone /\ UNCHANGED <<startup, up, exit>>

\* Stop of either SSDP server: close(s.quit)
StopSsdp ==
    /\ sig = "ssdp"
    /\ IF quit # "open" THEN Panic
       ELSE CloseQuit /\ sig' = "bye" /\ UNCHANGED <<kind, startup, up, exit>>

\* Mutant: the servers are stopped at the same time
SsdpStopped_Not ==
    /\ sig = "bye"
    /\ sig' = "http"
    /\ Alone /\ UNCHANGED <<startup, up, exit>>

\* Stop of the SSDP server has returned
SsdpStopped ==
    /\ sig = "bye" /\ stopper = "end"
    /\ sig' = "http"
    /\ Alone /\ UNCHANGED <<startup, up, exit>>

\* Mutant: the goroutine waits for the next signal instead of ending
Shutdown_Again ==
    /\ sig = "http"
    /\ IF srv = "nil" THEN Panic
       ELSE /\ srv' = "closed" /\ sig' = "back"
            /\ Alone /\ UNCHANGED <<main, done, state, wdone, reader, up, exit>>

\* Mutant: a server that has not been started is not shut down
Shutdown_IfServing ==
    /\ sig = "http"
    /\ srv' = IF main = "serving" THEN "closed" ELSE srv
    /\ sig' = "end"
    /\ Alone /\ UNCHANGED <<main, done, state, wdone, reader, up, exit>>

\* dlnaServer.Shutdown
Shutdown ==
    /\ sig = "http"
    /\ IF srv = "nil" THEN Panic
       ELSE /\ srv' = "closed" /\ sig' = "end"
            /\ Alone /\ UNCHANGED <<main, done, state, wdone, reader, up, exit>>

-----------------------------------------------------------------------------
(* The SSDP server, once main has started its goroutine *)

Spawned == main \in {"listen", "serve", "serving"}
Others  == UNCHANGED <<kind, startup, ending>>

\* Start of either: an error of validate or of the network is critical
SsdpFails ==
    /\ Spawned /\ pc \in {"begin", "connected"} /\ quit = "nil"
    /\ exit' = "error"
    /\ Alone /\ UNCHANGED <<startup, sig, up>>

Udp == /\ kind = "udp" /\ Spawned /\ Others
       /\ \/ Periodic \/ Read \/ Listen \/ StopStep
          \/ \E m \in Msg : Sender(m)

\* MinissdpdClient.Start and the first sendAlive
MiniStart ==
    /\ pc = "begin"
    /\ quit' = "open" /\ pc' = "alive" /\ unsent' = Targets
    /\ UNCHANGED <<conn, listener, search, delayed, writing, stopper, unbid, heard>>

\* One round of the loop of udpNotify in sendAlive; what minissdpd is told before
\* makes it answer searches and is not heard here
MiniAlive(t) ==
    /\ pc = "alive" /\ t \in unsent
    /\ unsent' = unsent \ {t}
    /\ heard' = [heard EXCEPT ![t] = "alive"]
    /\ UNCHANGED <<quit, conn, pc, listener, search, delayed, writing, stopper, unbid>>

\* udpNotify of sendAlive cannot connect and returns: this time nothing is announced
MiniSilent ==
    /\ pc = "alive" /\ unsent = Targets
    /\ pc' = "select" /\ unsent' = {}
    /\ UNCHANGED <<quit, conn, listener, search, delayed, writing, stopper, unbid, heard>>

\* One round of the loop of udpNotify in sendByeBye
MiniByeBye(t) ==
    /\ stopper = "bye" /\ t \in unbid
    /\ unbid' = unbid \ {t}
    /\ heard' = [heard EXCEPT ![t] = "byebye"]
    /\ UNCHANGED <<quit, conn, pc, unsent, listener, search, delayed, writing, stopper>>

\* Stop returns; the connection of udpNotify was its own
MiniStopped ==
    /\ stopper = "bye" /\ unbid = {}
    /\ stopper' = "end"
    /\ UNCHANGED <<quit, conn, pc, unsent, listener, search, delayed, writing, unbid, heard>>

MiniStep == MiniStart \/ AliveDone \/ PeriodicEnds \/ Tick \/ \E t \in Targets : MiniAlive(t)
MiniStop == MiniStopped \/ \E t \in Targets : MiniByeBye(t)
Mini == /\ kind = "minissdpd" /\ Spawned /\ Others
        /\ MiniStep \/ MiniSilent \/ MiniStop

-----------------------------------------------------------------------------
Main == \/ BackStart \/ WatcherStart \/ PreStart \/ MakeStopDone \/ WalkEnds
        \/ Spawn \/ MakeServer \/ Serve \/ ServeEnds
StopReader == StopWatcher \/ CloseDone \/ ReadStopDone \/ AwaitReader
Stop == StopBack \/ StopReader \/ StopSsdp \/ SsdpStopped \/ Shutdown

Running == exit = "no"
ProcNext == /\ Running
            /\ \/ Main \/ ReaderEnds \/ ReaderFails
               \/ Signal \/ Stop
               \/ SsdpFails \/ Udp \/ Mini

ProcSpec == ProcInit /\ [][ProcNext]_pvars

\* Goroutines run, timers fire and walks end.  Searches, read errors and the
\* signal need never come.
UdpAct(A)  == Running /\ kind = "udp" /\ Spawned /\ Others /\ A
MiniAct(A) == Running /\ kind = "minissdpd" /\ Spawned /\ Others /\ A
ProcFairSpec ==
    /\ ProcSpec
    /\ WF_pvars(Running /\ Main) /\ WF_pvars(Running /\ ReaderEnds) /\ WF_pvars(Running /\ Stop)
    /\ WF_pvars(UdpAct(Periodic)) /\ WF_pvars(UdpAct(ListenEnds \/ parseUdpMessage))
    /\ WF_pvars(UdpAct(StopStep)) /\ \A m \in Msg : WF_pvars(UdpAct(Sender(m)))
    /\ WF_pvars(MiniAct(MiniStep)) /\ WF_pvars(MiniAct(MiniStop))

-----------------------------------------------------------------------------
(* Properties *)

\* The values of the variables.
ProcTypeOK ==
    /\ TypeOK
    /\ kind \in {"udp", "minissdpd"}
    /\ main \in {"begin", "started", "prestart", "made", "walk", "spawn", "listen", "serve", "serving"}
    /\ done \in {"nil", "open", "closed"} /\ wdone \in {"nil", "open", "closed"}
    /\ state \in {"stopped", "running", "stopping"}
    /\ reader \in {"off", "run", "end"} /\ srv \in {"nil", "made", "closed"}
    /\ sig \in {"wait", "back", "watcher", "close", "recv", "reader", "stuck", "ssdp", "bye", "http", "end"}
    /\ up \in BOOLEAN
    /\ exit \in {"no", "panic", "error", "failed", "clean"}

\* A signal that finds the program up never makes it panic (main, the Stop
\* methods): no channel is closed twice or before it is made, whatever else goes
\* on, a reader that has failed by itself included.
NoPanicOnceUp == up => exit # "panic"

\* Before main returns because of a signal, every target has been said goodbye
\* to (the order of the calls in main): the process does not end under Stop.
ByeBeforeExit == exit = "clean" => stopper = "end" /\ unbid = {}

\* Once Backend.Stop has told a watcher to end, the walk and the reader of file
\* system events are over when it returns, also if the signal came during the
\* walk of the start (inotify.start, stop, shutdown).
WatcherStops ==
    wdone = "closed" /\ sig \in {"ssdp", "bye", "http", "end"} => reader = "end"

\* A signal ends the process (main, the Stop methods): no Stop waits for something
\* that does not come, but for one that has read stopDoneCh between the two
\* statements of preStart that make the channels.  That one waits for ever, with
\* SSDP and HTTP servers running on.
SignalEnds == (sig # "wait") ~> (~Running \/ sig = "stuck")

\* Nothing of the UDP server is heard after its Stop has returned, although
\* runPeriodic and delayed messages may still be under way.
SilentOnceStopped == [][kind = "udp" /\ stopper = "end" => heard' = heard]_pvars

\* An Alive for t goes out
Announce(t) == IF kind = "udp" THEN WriteMsg(<<"alive", t>>) ELSE MiniAlive(t)

\* Until the signal comes, either server announces every target again and again,
\* the minissdpd client unless it can not connect again and again.
KeepsAnnouncing ==
    \A t \in Targets : \/ <>(~Running \/ sig # "wait")
                       \/ []<><<Announce(t)>>_pvars
                       \/ []<><<MiniSilent /\ kind = "minissdpd">>_pvars

=============================================================================
