---------------------------- MODULE TraderProofs -----------------------------
(***************************************************************************)
(* The process around the trading loop, for any addresses, any number of   *)
(* workers that scan them and any number of scrapes.                       *)
(***************************************************************************)
EXTENDS TraderProcess, TLAPS

\* What the entries of mDNS left; the scan has not begun before it is over.
Browsed ==
  /\ stage = "mdns" /\ browser # "range" => mdnsFind # "none"
  /\ stage = "mdns" => /\ untried = Addresses /\ ~answered /\ ~closed /\ scanFind = "none"

\* What the workers have found is in the channel, or in the hands of one of them.
Scanned ==
  /\ \A w \in Workers : worker[w] = "offer" => target[w] \in Meters
  /\ closed => \A w \in Workers : worker[w] = "gone"
  /\ stage = "scan" /\ answered => scanFind # "none" \/ \E w \in Workers : worker[w] = "offer"

\* A loop that has not run is idle, and one that is over has tried to stop.
Halted ==
  /\ main \in {"discover", "launch"} => loop = "off"
  /\ loop \in {"off", "starting"} => state = "idle"
  /\ loop = "gone" => state = "idle" \/ halt # "none"
  /\ main = "ended" => loop = "gone"

\* What a scrape has copied it has witnessed, and those beside it know of that.
Seen(s) ==
  /\ copy[s] \in during[s] /\ state \in during[s]
  /\ \A t \in Scrapes : scrape[t] # "idle" => during[t] \subseteq beside[s]
  /\ scrape[s] \in {"reset", "status"} => gauge \subseteq beside[s]

\* Where scrapes keep apart, those at the gauge have it to themselves.
Lone(s) ==
  /\ \A t, u \in Scrapes : AtGauge(t) /\ AtGauge(u) => t = u
  /\ \A t \in Scrapes : scrape[t] = "reset" => gauge = {}
  /\ scrape[s] = "status" =>
       /\ \A t \in Scrapes : AtGauge(t) => copy[t] \in during[s]
       /\ (\A t \in Scrapes : scrape[t] # "reset") => \E x \in during[s] : gauge = {x}

Scraped == \A s \in Scrapes : scrape[s] # "idle" => Seen(s) /\ (apart[s] => Lone(s))

IInv == TypeOK /\ Browsed /\ Scanned /\ Halted /\ Scraped

-----------------------------------------------------------------------------
(* The invariant.                                                          *)

LEMMA InitHolds == Init => IInv
<1> SUFFICES ASSUME Init PROVE IInv
  OBVIOUS
<1> USE DEF Init, DiscoveryInit
<1>1. TypeOK
  BY DEF TypeOK, DiscoveryTyped, Finds, Showable
<1>2. Browsed /\ Scanned /\ Halted /\ Scraped
  BY DEF Browsed, Scanned, Halted, Scraped
<1> QED
  BY <1>1, <1>2 DEF IInv

\* What the discovery keeps is its own, step by step.
LEMMA WorkerStep ==
  ASSUME DiscoveryTyped, Browsed, Scanned, stage = "scan" \/ untried # Addresses, Scanning
  PROVE  DiscoveryTyped' /\ Browsed' /\ Scanned'
<1> USE DEF DiscoveryTyped, Browsed, Scanned, Finds, mdns
<1>0. UNCHANGED <<stage, found, browser, mdnsDone, mdnsFind>> /\ stage # "mdns"
  BY DEF Scanning
<1>1. ASSUME NEW w \in Workers, Take(w) PROVE DiscoveryTyped' /\ Browsed' /\ Scanned'
  BY <1>0, <1>1 DEF Take
<1>2. ASSUME NEW w \in Workers, OutOfWork(w) PROVE DiscoveryTyped' /\ Browsed' /\ Scanned'
  BY <1>0, <1>2 DEF OutOfWork
<1>3. ASSUME NEW w \in Workers, ProbeFinds(w) PROVE DiscoveryTyped' /\ Browsed' /\ Scanned'
  BY <1>0, <1>3 DEF ProbeFinds
<1>4. ASSUME NEW w \in Workers, ProbeFails(w) PROVE DiscoveryTyped' /\ Browsed' /\ Scanned'
  BY <1>0, <1>4 DEF ProbeFails
<1>5. ASSUME NEW w \in Workers, Offer(w) PROVE DiscoveryTyped' /\ Browsed' /\ Scanned'
  BY <1>0, <1>5, DiscoveryAssumption DEF Offer, DiscoveryAssumption
<1>6. ASSUME NEW w \in Workers, StopOthers(w) PROVE DiscoveryTyped' /\ Browsed' /\ Scanned'
  BY <1>0, <1>6 DEF StopOthers
<1>7. CASE CloseResults
  BY <1>0, <1>7 DEF CloseResults
<1>8. CASE ScanTimeout
  BY <1>0, <1>8 DEF ScanTimeout
<1> QED
  BY <1>1, <1>2, <1>3, <1>4, <1>5, <1>6, <1>7, <1>8 DEF Scanning

LEMMA DiscoveryStep ==
  ASSUME DiscoveryTyped, Browsed, Scanned, DiscoveryNext
  PROVE  DiscoveryTyped' /\ Browsed' /\ Scanned'
<1>1. CASE Entry
  BY <1>1, DiscoveryAssumption
     DEF Entry, scan, DiscoveryTyped, Browsed, Scanned, Finds, DiscoveryAssumption
<1>2. CASE EntryEnds
  BY <1>2 DEF EntryEnds, scan, DiscoveryTyped, Browsed, Scanned
<1>3. CASE MdnsTimeout
  BY <1>3 DEF MdnsTimeout, scan, DiscoveryTyped, Browsed, Scanned
<1>4. CASE MdnsReturns
  BY <1>4 DEF MdnsReturns, mdns, scan, DiscoveryTyped, Browsed, Scanned
<1>5. CASE BrowseFails
  BY <1>5 DEF BrowseFails, scan, DiscoveryTyped, Browsed, Scanned
<1>6. CASE (stage = "scan" \/ untried # Addresses) /\ Scanning
  BY <1>6, WorkerStep
<1>7. CASE ScanReturns
  BY <1>7 DEF ScanReturns, mdns, DiscoveryTyped, Browsed, Scanned, Finds
<1> QED
  BY <1>1, <1>2, <1>3, <1>4, <1>5, <1>6, <1>7 DEF DiscoveryNext

\* What TypeOK says of the scrapes and of the metric.
MetricsTyped ==
  /\ scrape \in [Scrapes -> {"idle", "read", "reset", "status"}]
  /\ copy \in [Scrapes -> Showable] /\ gauge \subseteq Showable
  /\ during \in [Scrapes -> SUBSET Showable] /\ beside \in [Scrapes -> SUBSET Showable]
  /\ apart \in [Scrapes -> BOOLEAN]

\* A scrape touches neither the discovery nor the goroutines.
LEMMA ScrapeStep ==
  ASSUME IInv, NEW s \in Scrapes, Scrape(s) \/ Reset(s) \/ SetState(s) \/ Gather(s)
  PROVE  IInv'
<1>1. UNCHANGED <<discovery, main, goroutines>>
  BY DEF Scrape, Reset, SetState, Gather
<1>2. DiscoveryTyped' /\ Browsed' /\ Scanned'
  BY <1>1 DEF IInv, TypeOK, DiscoveryTyped, Browsed, Scanned, discovery, mdns, scan
<1>3. Halted'
  BY <1>1 DEF IInv, Halted, goroutines
<1>4. MetricsTyped /\ Scraped
  BY DEF IInv, TypeOK, MetricsTyped
<1>5. ASSUME MetricsTyped', Scraped' PROVE IInv'
  <2>1. TypeOK'
    BY <1>1, <1>2, <1>5 DEF IInv, TypeOK, MetricsTyped, goroutines
  <2> QED
    BY <1>2, <1>3, <1>5, <2>1 DEF IInv
<1> USE DEF Step
<1>6. state \in Showable /\ state' = state
  BY <1>1 DEF IInv, TypeOK, goroutines
<1>7. CASE Scrape(s)
  <2>1. MetricsTyped'
    <3>1. /\ scrape' \in [Scrapes -> {"idle", "read", "reset", "status"}]
          /\ copy' \in [Scrapes -> Showable] /\ gauge' \subseteq Showable
      BY <1>4, <1>6, <1>7 DEF Scrape, MetricsTyped
    <3>2. during' \in [Scrapes -> SUBSET Showable] /\ apart' \in [Scrapes -> BOOLEAN]
      BY <1>4, <1>6, <1>7 DEF Scrape, MetricsTyped
    <3>3. {state} \cup UNION {during[t] : t \in Scrapes} \in SUBSET Showable
      BY <1>4, <1>6 DEF MetricsTyped
    <3>4. beside' \in [Scrapes -> SUBSET Showable]
      BY <1>4, <1>7, <3>3 DEF Scrape, MetricsTyped
    <3> QED
      BY <3>1, <3>2, <3>4 DEF MetricsTyped
  <2>2. Scraped'
    <3> SUFFICES ASSUME NEW r \in Scrapes, scrape'[r] # "idle"
                 PROVE  Seen(r)' /\ (apart'[r] => Lone(r)')
      BY DEF Scraped
    <3>1. Seen(r)'
      BY <1>4, <1>6, <1>7 DEF Scrape, MetricsTyped, Scraped, Seen
    <3>2. ASSUME apart'[r] PROVE Lone(r)'
      <4>1. (r = s \/ apart[r]) /\ \A u \in Scrapes : ~AtGauge(u)
        BY <1>7, <3>2 DEF Scrape
      <4>2. r # s =>
              scrape[r] # "idle" /\ apart[r] /\ scrape'[r] = scrape[r] /\ during'[r] = during[r]
        BY <1>4, <1>7, <4>1 DEF Scrape, MetricsTyped
      <4> QED
        BY <1>4, <1>6, <1>7, <4>1, <4>2 DEF Scrape, MetricsTyped, Scraped, Seen, Lone, AtGauge
    <3> QED
      BY <3>1, <3>2
  <2> QED
    BY <1>5, <2>1, <2>2
<1>8. CASE Reset(s)
  <2>1. MetricsTyped'
    BY <1>4, <1>8 DEF Reset, MetricsTyped
  <2>2. Scraped'
    <3> SUFFICES ASSUME NEW r \in Scrapes, scrape'[r] # "idle"
                 PROVE  Seen(r)' /\ (apart'[r] => Lone(r)')
      BY DEF Scraped
    <3>1. Seen(r)'
      BY <1>4, <1>6, <1>8 DEF Reset, MetricsTyped, Scraped, Seen
    <3>2. ASSUME apart'[r] PROVE Lone(r)'
      BY <1>4, <1>6, <1>8, <3>2 DEF Reset, MetricsTyped, Scraped, Lone, AtGauge
    <3> QED
      BY <3>1, <3>2
  <2> QED
    BY <1>5, <2>1, <2>2
<1>9. CASE SetState(s)
  <2>1. MetricsTyped'
    <3>1. copy[s] \in Showable
      BY <1>4 DEF MetricsTyped
    <3>2. gauge' \subseteq Showable
      BY <1>4, <1>9, <3>1 DEF SetState, MetricsTyped
    <3> QED
      BY <1>4, <1>9, <3>2 DEF SetState, MetricsTyped
  <2>2. Scraped'
    <3> SUFFICES ASSUME NEW r \in Scrapes, scrape'[r] # "idle"
                 PROVE  Seen(r)' /\ (apart'[r] => Lone(r)')
      BY DEF Scraped
    <3>1. Seen(r)'
      BY <1>4, <1>6, <1>9 DEF SetState, MetricsTyped, Scraped, Seen
    <3>2. ASSUME apart'[r] PROVE Lone(r)'
      <4>1. gauge' = {copy[s]} /\ \A t \in Scrapes : AtGauge(t) => t = s
        BY <1>4, <1>9, <3>2 DEF SetState, MetricsTyped, Scraped, Lone, AtGauge
      <4>2. r # s => scrape[r] = "status" /\ copy[s] \in during[r]
        BY <1>4, <1>9, <3>2, <4>1 DEF SetState, MetricsTyped, Scraped, Lone, AtGauge
      <4>3. copy[s] \in during[s]
        BY <1>4, <1>9 DEF SetState, Scraped, Seen
      <4> QED
        BY <1>4, <1>9, <4>1, <4>2, <4>3 DEF SetState, MetricsTyped, Lone, AtGauge
    <3> QED
      BY <3>1, <3>2
  <2> QED
    BY <1>5, <2>1, <2>2
<1>10. CASE Gather(s)
  <2>1. MetricsTyped'
    <3>1. /\ scrape' \in [Scrapes -> {"idle", "read", "reset", "status"}]
          /\ apart' \in [Scrapes -> BOOLEAN] /\ gauge' \subseteq Showable
      BY <1>4, <1>10 DEF Gather, MetricsTyped
    <3>2. copy' \in [Scrapes -> Showable]
      BY <1>4, <1>10 DEF Gather, Showable, MetricsTyped
    <3>3. during' \in [Scrapes -> SUBSET Showable] /\ beside' \in [Scrapes -> SUBSET Showable]
      BY <1>4, <1>10 DEF Gather, MetricsTyped
    <3> QED
      BY <3>1, <3>2, <3>3 DEF MetricsTyped
  <2>2. Scraped'
    <3> SUFFICES ASSUME NEW r \in Scrapes, scrape'[r] # "idle"
                 PROVE  Seen(r)' /\ (apart'[r] => Lone(r)')
      BY DEF Scraped
    <3>1. r # s
      BY <1>4, <1>10 DEF Gather, MetricsTyped
    <3>2. Seen(r)'
      BY <1>4, <1>6, <1>10, <3>1 DEF Gather, MetricsTyped, Scraped, Seen
    <3>3. ASSUME apart'[r] PROVE Lone(r)'
      BY <1>4, <1>10, <3>1, <3>3 DEF Gather, MetricsTyped, Scraped, Lone, AtGauge
    <3> QED
      BY <3>2, <3>3
  <2> QED
    BY <1>5, <2>1, <2>2
<1> QED
  BY <1>7, <1>8, <1>9, <1>10

LEMMA InvStep == IInv /\ [Next]_vars => IInv'
<1> SUFFICES ASSUME IInv, [Next]_vars PROVE IInv'
  OBVIOUS
<1>1. CASE Discovering
  <2>1. DiscoveryTyped' /\ Browsed' /\ Scanned'
    BY <1>1, DiscoveryStep DEF Discovering, IInv, TypeOK
  <2>2. TypeOK' /\ Halted' /\ Scraped'
    BY <1>1, <2>1
       DEF Discovering, IInv, TypeOK, Halted, Scraped, Seen, Lone, AtGauge, goroutines, metrics
  <2> QED
    BY <2>1, <2>2 DEF IInv
<1>2. CASE Serve
  <2>1. DiscoveryTyped' /\ Browsed' /\ Scanned'
    BY <1>2 DEF Serve, IInv, TypeOK, DiscoveryTyped, Finds, Browsed, Scanned
  <2>2. TypeOK'
    BY <1>2, <2>1 DEF Serve, IInv, TypeOK, metrics
  <2>3. Halted'
    BY <1>2 DEF Serve, IInv, Halted
  <2>4. Scraped'
    BY <1>2 DEF Serve, IInv, Scraped, Seen, Lone, AtGauge, metrics
  <2> QED
    BY <2>1, <2>2, <2>3, <2>4 DEF IInv
<1>3. CASE Trade
  <2>1. UNCHANGED <<discovery, main, loop, halt, scrape, copy, gauge, apart>> /\ loop = "running"
    BY <1>3 DEF Trade
  <2>2. DiscoveryTyped' /\ Browsed' /\ Scanned'
    BY <2>1 DEF IInv, TypeOK, DiscoveryTyped, Browsed, Scanned, discovery, mdns, scan
  <2>3. TypeOK'
    BY <1>3, <2>2 DEF Trade, Witness, IInv, TypeOK
  <2>4. Halted'
    BY <1>3, <2>1 DEF Alive, Trade, IInv, Halted
  <2>5. Scraped'
    <3>1. \A s \in Scrapes : scrape[s] # "idle" =>
            during'[s] = during[s] \cup {state'} /\ beside'[s] = beside[s] \cup {state'}
      BY <1>3 DEF Trade, Witness
    <3> SUFFICES ASSUME NEW s \in Scrapes, scrape[s] # "idle"
                 PROVE  Seen(s)' /\ (apart'[s] => Lone(s)')
      BY <2>1 DEF Scraped
    <3>2. Seen(s)'
      BY <2>1, <3>1 DEF IInv, Scraped, Seen
    <3>3. ASSUME apart'[s] PROVE Lone(s)'
      BY <2>1, <3>1, <3>3 DEF IInv, Scraped, Lone, AtGauge
    <3> QED
      BY <3>2, <3>3
  <2> QED
    BY <2>2, <2>3, <2>4, <2>5 DEF IInv
<1>4. ASSUME NEW s \in Scrapes, Scrape(s) \/ Reset(s) \/ SetState(s) \/ Gather(s)
      PROVE  IInv'
  BY <1>4, ScrapeStep
<1>5. CASE \/ Signal \/ CatchSignals \/ BeginShutdown \/ ShutdownEnds \/ End \/ Listen
           \/ ServerFails \/ LoopStep \/ UNCHANGED vars
  <2>1. UNCHANGED <<discovery, metrics, state>>
    BY <1>5 DEF Signal, CatchSignals, BeginShutdown, ShutdownEnds, End, Listen, ServerFails,
                LoopStep, StartOk, StartFails, LoopHalts, LoopEnds, vars, goroutines
  <2>2. DiscoveryTyped' /\ Browsed' /\ Scanned'
    BY <2>1 DEF IInv, TypeOK, DiscoveryTyped, Browsed, Scanned, discovery, mdns, scan
  <2>3. Scraped'
    BY <2>1 DEF IInv, Scraped, Seen, Lone, AtGauge, metrics
  <2>4. TypeOK'
    <3>1. /\ main' \in {"discover", "launch", "serve", "shutdown", "wait", "ended", "killed"}
          /\ server' \in {"off", "starting", "listening", "gone"}
      BY <1>5 DEF IInv, TypeOK, Signal, CatchSignals, BeginShutdown, ShutdownEnds, End, Listen,
                  ServerFails, LoopStep, StartOk, StartFails, LoopHalts, LoopEnds, vars, goroutines
    <3>2. /\ loop' \in {"off", "starting", "running", "halting", "gone"}
          /\ halt' \in {"none", "stopped", "gave up"}
      BY <1>5 DEF IInv, TypeOK, Signal, CatchSignals, BeginShutdown, ShutdownEnds, End, Listen,
                  ServerFails, LoopStep, StartOk, StartFails, LoopHalts, LoopEnds, vars, goroutines
    <3>3. cancelled' \in BOOLEAN /\ notified' \in BOOLEAN
      BY <1>5 DEF IInv, TypeOK, Signal, CatchSignals, BeginShutdown, ShutdownEnds, End, Listen,
                  ServerFails, LoopStep, StartOk, StartFails, LoopHalts, LoopEnds, vars, goroutines
    <3> QED
      BY <2>1, <2>2, <3>1, <3>2, <3>3 DEF IInv, TypeOK, metrics
  <2>5. Halted'
    BY <1>5, <2>1
       DEF IInv, Halted, Alive, Signal, CatchSignals, BeginShutdown, ShutdownEnds, End, Listen,
           ServerFails, LoopStep, StartOk, StartFails, LoopHalts, LoopEnds, vars, goroutines
  <2> QED
    BY <2>2, <2>3, <2>4, <2>5 DEF IInv
<1> QED
  BY <1>1, <1>2, <1>3, <1>4, <1>5 DEF Next, MainStep

(***************************************************************************)
(* What Discover has found is in a channel or in a worker's hands, the     *)
(* loop's end is behind its stop, and scrapes that keep apart have the     *)
(* gauge to themselves.                                                    *)
(***************************************************************************)
THEOREM Invariance == Spec => []IInv
BY InitHolds, InvStep, PTL DEF Spec

(***************************************************************************)
(* Main, its goroutines, the workers and the scrapes stay at places they   *)
(* have.                                                                   *)
(***************************************************************************)
THEOREM TypeCorrect == Spec => []TypeOK
BY Invariance, PTL DEF IInv

(***************************************************************************)
(* A process that ends has its battery idle, or has tried to stop it.      *)
(***************************************************************************)
THEOREM ExitsAfterStop == Spec => []ExitAfterStop
<1>1. IInv => ExitAfterStop
  BY DEF IInv, Halted, ExitAfterStop
<1> QED
  BY <1>1, Invariance, PTL

(***************************************************************************)
(* The discovery overlooks no meter that answered, and sends on no channel *)
(* that is closed.                                                         *)
(***************************************************************************)
LEMMA DiscoverySteps ==
  ASSUME [Next]_vars, stage' # stage
  PROVE  MdnsReturns \/ BrowseFails \/ ScanReturns
<1>1. CASE Discovering
  BY <1>1 DEF Discovering, DiscoveryNext, Entry, EntryEnds, MdnsTimeout, MdnsReturns,
              BrowseFails, Scanning, ScanReturns
<1>2. CASE Serve
  BY <1>2 DEF Serve
<1>3. CASE UNCHANGED discovery
  BY <1>3 DEF discovery
<1> QED
  BY <1>1, <1>2, <1>3
     DEF Next, MainStep, LoopStep, Signal, CatchSignals, BeginShutdown, ShutdownEnds, End, Listen,
         ServerFails, StartOk, StartFails, LoopHalts, LoopEnds, Trade, Scrape, Reset,
         SetState, Gather, vars

(***************************************************************************)
(* Discover goes from mDNS to the scan only with nothing found, and        *)
(* returns without a meter only when none has answered a worker.           *)
(***************************************************************************)
THEOREM NoMeterLost == Spec => MeterNotLost
<1>1. IInv /\ [Next]_vars =>
        [/\ stage = "mdns" /\ stage' = "scan" => browser # "gone"
         /\ stage = "scan" /\ stage' = "done" /\ found' = "none" => ~answered
         /\ main = "discover" /\ closed => \A w \in Workers : worker[w] = "gone"]_vars
  <2> SUFFICES ASSUME IInv, [Next]_vars
               PROVE  /\ stage = "mdns" /\ stage' = "scan" => browser # "gone"
                      /\ stage = "scan" /\ stage' = "done" /\ found' = "none" => ~answered
                      /\ closed => \A w \in Workers : worker[w] = "gone"
    OBVIOUS
  <2>1. ASSUME stage = "mdns", stage' = "scan" PROVE browser # "gone"
    BY <2>1, DiscoverySteps DEF MdnsReturns, BrowseFails, ScanReturns, IInv, Browsed
  <2>2. ASSUME stage = "scan", stage' = "done", found' = "none" PROVE ~answered
    BY <2>2, DiscoverySteps DEF MdnsReturns, BrowseFails, ScanReturns, IInv, Scanned
  <2>3. closed => \A w \in Workers : worker[w] = "gone"
    BY DEF IInv, Scanned
  <2> QED
    BY <2>1, <2>2, <2>3
<1> QED
  BY <1>1, Invariance, PTL DEF Spec, MeterNotLost

(***************************************************************************)
(* A scrape shows states the loop was in since it or one beside it began,  *)
(* and one of its own if the scrapes kept apart at the gauge.              *)
(***************************************************************************)
THEOREM OneStateScraped == Spec => OneStateShown
<1>1. IInv => \A s \in Scrapes : Gather(s) =>
        /\ gauge \subseteq beside[s]
        /\ apart[s] /\ (\A t \in Scrapes : scrape[t] # "reset") => \E x \in during[s] : gauge = {x}
  BY DEF IInv, Scraped, Seen, Lone, Gather, Step
<1> QED
  BY <1>1, Invariance, PTL DEF Spec, OneStateShown
==============================================================================
