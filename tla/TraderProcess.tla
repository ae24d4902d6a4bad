---------------------------- MODULE TraderProcess ----------------------------
(***************************************************************************)
(* cmd/trader/main.go: the meter is looked for, then two goroutines are    *)
(* started, the HTTP server and the trading loop, and main waits for a     *)
(* signal, or for the loop to give up; then the server is shut down and    *)
(* both goroutines are waited for.  The server's handlers (handler.go) run *)
(* beside the loop and beside each other: each scrape of /metrics copies   *)
(* the loop's state into a gauge that all of them share, in several steps. *)
(***************************************************************************)
EXTENDS P1Discovery, Naturals

CONSTANTS
  Scrapes    \* requests for /metrics that can be under way at a time

VARIABLES
  main,       \* discover | launch | serve | shutdown | wait | ended | killed
  server,     \* its goroutine: off | starting | listening | gone
  loop,       \* its goroutine: off | starting | running | halting | gone
  cancelled,  \* ctx.Done of signal.NotifyContext
  notified,   \* the process catches signals: from NotifyContext to stop()
  state,      \* Service.state, which the battery follows
  halt,       \* history: how stopBatteryOnShutdown ended, none: not tried
  scrape,     \* idle | read | reset | status, for each scrape
  copy,       \* the state it has read
  gauge,      \* the states energy_trader_state shows as active
  during,     \* history: the states the loop was in since the scrape began
  beside,     \* history: those since it, or one under way at the time, began
  apart       \* history: since it began, no two were at the gauge at a time

goroutines == <<server, loop, cancelled, notified, state, halt>>
metrics    == <<scrape, copy, gauge, during, beside, apart>>
vars       == <<discovery, main, goroutines, metrics>>

Showable == {"idle", "charging"}

TypeOK ==
  /\ DiscoveryTyped
  /\ main \in {"discover", "launch", "serve", "shutdown", "wait", "ended", "killed"}
  /\ server \in {"off", "starting", "listening", "gone"}
  /\ loop \in {"off", "starting", "running", "halting", "gone"}
  /\ cancelled \in BOOLEAN /\ notified \in BOOLEAN
  /\ state \in Showable /\ halt \in {"none", "stopped", "gave up"}
  /\ scrape \in [Scrapes -> {"idle", "read", "reset", "status"}]
  /\ copy \in [Scrapes -> Showable] /\ gauge \subseteq Showable
  /\ during \in [Scrapes -> SUBSET Showable] /\ beside \in [Scrapes -> SUBSET Showable]
  /\ apart \in [Scrapes -> BOOLEAN]

Init ==
  /\ DiscoveryInit
  /\ main = "discover" /\ server = "off" /\ loop = "off"
  /\ cancelled = FALSE /\ notified = FALSE
  /\ state = "idle" /\ halt = "none"
  /\ scrape = [s \in Scrapes |-> "idle"] /\ copy = [s \in Scrapes |-> "idle"]
  /\ gauge = {} /\ during = [s \in Scrapes |-> {}] /\ beside = [s \in Scrapes |-> {}]
  /\ apart = [s \in Scrapes |-> TRUE]

Alive == main \notin {"ended", "killed"}

-----------------------------------------------------------------------------
(* main.                                                                   *)

Discovering == main = "discover" /\ DiscoveryNext /\ UNCHANGED <<main, goroutines, metrics>>

\* With or without a meter, the server's goroutine is started.  What the
\* discovery kept was its own.
Serve ==
  /\ main = "discover" /\ stage = "done"
  /\ main' = "launch" /\ server' = "starting"
  /\ stage' = "done" /\ found' = "none"
  /\ browser' = "gone" /\ mdnsDone' = TRUE /\ mdnsFind' = "none"
  /\ untried' = {} /\ worker' = [w \in Workers |-> "gone"]
  /\ target' = [w \in Workers |-> "none"]
  /\ scanDone' = TRUE /\ scanFind' = "none" /\ closed' = TRUE /\ answered' = FALSE
  /\ UNCHANGED <<loop, cancelled, notified, state, halt, metrics>>

\* NotifyContext, and the loop's goroutine.
CatchSignals ==
  /\ main = "launch"
  /\ main' = "serve" /\ notified' = TRUE /\ loop' = "starting"
  /\ UNCHANGED <<discovery, server, cancelled, state, halt, metrics>>

\* Before NotifyContext, and after the loop's failure, a signal kills the
\* process; between them the first one ends the context.
Signal ==
  /\ Alive
  /\ \/ ~notified /\ main' = "killed" /\ UNCHANGED cancelled
     \/ notified /\ ~cancelled /\ cancelled' = TRUE /\ UNCHANGED main
  /\ UNCHANGED <<discovery, server, loop, notified, state, halt, metrics>>

\* server.Shutdown closes the listener first.
BeginShutdown ==
  /\ main = "serve" /\ cancelled
  /\ main' = "shutdown" /\ server' = "gone"
  /\ UNCHANGED <<discovery, loop, cancelled, notified, state, halt, metrics>>

\* Every handler has returned, or 5 s are over.
ShutdownEnds ==
  /\ main = "shutdown"
  /\ main' = "wait"
  /\ UNCHANGED <<discovery, goroutines, metrics>>

\* Mutant: the loop is not in the WaitGroup.
EndWithoutLoop ==
  /\ main = "wait" /\ server = "gone"
  /\ main' = "ended"
  /\ UNCHANGED <<discovery, goroutines, metrics>>

\* wg.Wait.
End ==
  /\ main = "wait" /\ server = "gone" /\ loop = "gone"
  /\ main' = "ended"
  /\ UNCHANGED <<discovery, goroutines, metrics>>

-----------------------------------------------------------------------------
(* The two goroutines.                                                     *)

Listen ==
  /\ Alive /\ server = "starting"
  /\ server' = "listening"
  /\ UNCHANGED <<discovery, main, loop, cancelled, notified, state, halt, metrics>>

\* An error of ListenAndServe, at once or later: os.Exit(1), and the battery
\* stays as it is.
ServerFails ==
  /\ Alive /\ server \in {"starting", "listening"}
  /\ main' = "killed"
  /\ UNCHANGED <<discovery, goroutines, metrics>>

StartOk ==
  /\ Alive /\ loop = "starting"
  /\ loop' = "running"
  /\ UNCHANGED <<discovery, main, server, cancelled, notified, state, halt, metrics>>

\* Mutant: the error of Start is only logged.
StartFailureLogged ==
  /\ Alive /\ loop = "starting"
  /\ loop' = "gone"
  /\ UNCHANGED <<discovery, main, server, cancelled, notified, state, halt, metrics>>

\* Start returns an error: stop() ends the context.
StartFails ==
  /\ Alive /\ loop = "starting"
  /\ loop' = "gone" /\ cancelled' = TRUE /\ notified' = FALSE
  /\ UNCHANGED <<discovery, main, server, state, halt, metrics>>

\* The scrapes under way see what state the loop comes to.
Witness(seen) == [s \in Scrapes |-> IF scrape[s] = "idle" THEN {} ELSE seen[s] \cup {state'}]

\* A handler of the loop begins or ends a session.
Trade ==
  /\ Alive /\ loop = "running"
  /\ state' \in Showable \ {state}
  /\ during' = Witness(during) /\ beside' = Witness(beside)
  /\ UNCHANGED <<discovery, main, server, loop, cancelled, notified, halt>>
  /\ UNCHANGED <<scrape, copy, gauge, apart>>

LoopHalts ==
  /\ Alive /\ loop = "running" /\ cancelled
  /\ loop' = "halting"
  /\ UNCHANGED <<discovery, main, server, cancelled, notified, state, halt, metrics>>

\* stopBatteryOnShutdown ends, by success or by its timeout; only after the
\* latter is Start's error one that main answers with stop().
LoopEnds ==
  /\ Alive /\ loop = "halting"
  /\ loop' = "gone"
  /\ \/ halt' = "stopped" /\ UNCHANGED notified
     \/ halt' = "gave up" /\ notified' = FALSE
  /\ UNCHANGED <<discovery, main, server, cancelled, state, metrics>>

-----------------------------------------------------------------------------
(* A scrape of /metrics: updateMetrics, then promHandler.ServeHTTP.        *)

\* Between the state's reading and its label a scrape is at the gauge.
AtGauge(s) == scrape[s] \in {"read", "reset"}
Step(s, from, to) == Alive /\ scrape[s] = from /\ scrape' = [scrape EXCEPT ![s] = to]

\* s.State(), under the lock.
Scrape(s) ==
  /\ server = "listening" /\ Step(s, "idle", "read")
  /\ copy' = [copy EXCEPT ![s] = state]
  /\ during' = [during EXCEPT ![s] = {state}]
  /\ beside' = [beside EXCEPT ![s] = {state} \cup UNION {during[t] : t \in Scrapes}]
  /\ apart' = [t \in Scrapes |-> (t = s \/ apart[t]) /\ \A u \in Scrapes : ~AtGauge(u)]
  /\ UNCHANGED <<discovery, main, goroutines, gauge>>

\* Mutant: the labels are left alone while another scrape is under way.
ResetIfAlone(s) ==
  /\ Step(s, "read", "reset")
  /\ gauge' = IF \A t \in Scrapes \ {s} : scrape[t] = "idle" THEN {} ELSE gauge
  /\ UNCHANGED <<discovery, main, goroutines, copy, during, beside, apart>>

Reset(s) ==
  /\ Step(s, "read", "reset")
  /\ gauge' = {}
  /\ UNCHANGED <<discovery, main, goroutines, copy, during, beside, apart>>

SetState(s) ==
  /\ Step(s, "reset", "status")
  /\ gauge' = gauge \cup {copy[s]}
  /\ UNCHANGED <<discovery, main, goroutines, copy, during, beside, apart>>

\* GetCurrentStatus has asked the battery; the gauges are gathered and sent.
Gather(s) ==
  /\ Step(s, "status", "idle")
  /\ during' = [during EXCEPT ![s] = {}] /\ beside' = [beside EXCEPT ![s] = {}]
  /\ apart' = [apart EXCEPT ![s] = TRUE] /\ copy' = [copy EXCEPT ![s] = "idle"]
  /\ UNCHANGED <<discovery, main, goroutines, gauge>>

-----------------------------------------------------------------------------
MainStep == Serve \/ CatchSignals \/ BeginShutdown \/ ShutdownEnds \/ End
LoopStep == StartOk \/ StartFails \/ LoopHalts \/ LoopEnds

Next ==
  \/ Discovering \/ MainStep \/ LoopStep \/ Signal \/ Listen \/ ServerFails \/ Trade
  \/ \E s \in Scrapes : Scrape(s) \/ Reset(s) \/ SetState(s) \/ Gather(s)

Spec == Init /\ [][Next]_vars

-----------------------------------------------------------------------------
(* Properties.                                                             *)

(* A meter that answered is not lost, whatever the order of answers,       *)
(* cancellations and timeouts: mDNS is given up for the scan only if no    *)
(* entry ended it, the scan says that there is no meter only if no probe   *)
(* met one, and no worker is left to send on a channel that is closed,     *)
(* which would be a panic (discover.go 101-127, 176-197).                  *)
MeterNotLost ==
  [][/\ stage = "mdns" /\ stage' = "scan" => browser # "gone"
     /\ stage = "scan" /\ stage' = "done" /\ found' = "none" => ~answered
     /\ main = "discover" /\ closed => \A w \in Workers : worker[w] = "gone"]_vars

(* A process that was not killed ends after the loop has: a battery that   *)
(* was in a session has been stopped, or its stop was given up in its time.*)
ExitAfterStop == main = "ended" /\ state # "idle" => halt # "none"

(* However scrapes overlap, the states that one of them says are active are*)
(* states the trader was in since it, or a scrape beside it, began. It is  *)
(* one state, in which the trader was during the scrape, if no two scrapes *)
(* were at the gauge at a time since, and none has reset it and is yet to  *)
(* set it; others may wait for the battery meanwhile, or come and go       *)
(* (handler.go 84-87, 117-128).                                            *)
OneStateShown ==
  [][\A s \in Scrapes : Gather(s) =>
       /\ gauge \subseteq beside[s]
       /\ apart[s] /\ (\A t \in Scrapes : scrape[t] # "reset") =>
            \E x \in during[s] : gauge = {x}]_vars

-----------------------------------------------------------------------------
(* Contexts end and channels are read; the probes have a timeout, and so   *)
(* have a start and a shutdown of the loop.                                *)
FairSpec ==
  /\ Spec
  /\ WF_vars(Discovering /\ stage' # stage) /\ WF_vars(Discovering /\ mdnsDone' # mdnsDone)
  /\ WF_vars(Discovering /\ closed' # closed)
  /\ \A w \in Workers : WF_vars(Discovering /\ worker'[w] # worker[w])
  /\ WF_vars(MainStep) /\ WF_vars(LoopStep)

(* The discovery comes to its end, with workers that find a meter each and *)
(* a channel of one place.                                                 *)
DiscoveryEnds == <>(main # "discover")

(* A process that was asked to stop, or whose loop gave up, does not stay, *)
(* serving /status for an engine that does not run.                        *)
ProcessEnds == (cancelled \/ loop = "gone") ~> ~Alive
==============================================================================
