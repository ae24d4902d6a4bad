----------------------------- MODULE P1Discovery -----------------------------
(***************************************************************************)
(* clients/homewizard/discover.go: the meter is looked for by mDNS, and,   *)
(* when that finds nothing in its time, by workers that probe addresses.   *)
(* Both hand their find over in a channel of one place and end the search  *)
(* by cancelling a context, which also ends by itself; what is found and   *)
(* the end of the search may therefore come in any order.                  *)
(***************************************************************************)
EXTENDS FiniteSets

CONSTANTS
  Addresses,    \* the addresses of the scan
  Meters,       \* those at which a P1 meter can be found
  Workers       \* the workers of the scan

ASSUME DiscoveryAssumption == Meters \subseteq Addresses /\ "none" \notin Addresses

VARIABLES
  stage,      \* of Discover: mdns | scan | done
  found,      \* what it returned: an address, or "none"
  browser,    \* mDNS: the goroutine that reads entries: range | cancel | gone
  mdnsDone,   \* mDNS: the context is done
  mdnsFind,   \* mDNS: what the channel of results holds
  untried,    \* scan: ipCh
  worker,     \* scan: next | probe | offer | cancel | gone, for each worker
  target,     \* scan: the address it is at
  scanDone,   \* scan: the context is done
  scanFind,   \* scan: what resultCh holds
  closed,     \* scan: resultCh is closed
  answered    \* history: a probe of the scan found a meter

mdns == <<browser, mdnsDone, mdnsFind>>
scan == <<untried, worker, target, scanDone, scanFind, closed, answered>>
discovery == <<stage, found, mdns, scan>>

Finds == Meters \cup {"none"}

DiscoveryTyped ==
  /\ stage \in {"mdns", "scan", "done"} /\ found \in Finds
  /\ browser \in {"range", "cancel", "gone"} /\ mdnsDone \in BOOLEAN /\ mdnsFind \in Finds
  /\ untried \subseteq Addresses
  /\ worker \in [Workers -> {"next", "probe", "offer", "cancel", "gone"}]
  /\ target \in [Workers -> Addresses \cup {"none"}]
  /\ scanDone \in BOOLEAN /\ scanFind \in Finds /\ closed \in BOOLEAN /\ answered \in BOOLEAN

DiscoveryInit ==
  /\ stage = "mdns" /\ found = "none"
  /\ browser = "range" /\ mdnsDone = FALSE /\ mdnsFind = "none"
  /\ untried = Addresses /\ worker = [w \in Workers |-> "next"]
  /\ target = [w \in Workers |-> "none"]
  /\ scanDone = FALSE /\ scanFind = "none" /\ closed = FALSE /\ answered = FALSE

-----------------------------------------------------------------------------
(* discoverMDNS.                                                           *)

\* An entry of a meter with its API on; any other one is passed over.
Entry ==
  /\ browser = "range"
  /\ \E m \in Meters : mdnsFind' = m
  /\ browser' = "cancel"
  /\ UNCHANGED <<stage, found, mdnsDone, scan>>

EntryEnds ==
  /\ browser = "cancel"
  /\ browser' = "gone" /\ mdnsDone' = TRUE
  /\ UNCHANGED <<stage, found, mdnsFind, scan>>

MdnsTimeout ==
  /\ stage = "mdns" /\ ~mdnsDone
  /\ mdnsDone' = TRUE
  /\ UNCHANGED <<stage, found, browser, mdnsFind, scan>>

\* After the context's end the channel is looked at once, without waiting.
MdnsReturns ==
  /\ stage = "mdns" /\ mdnsDone
  /\ found' = mdnsFind
  /\ stage' = IF mdnsFind = "none" THEN "scan" ELSE "done"
  /\ UNCHANGED <<mdns, scan>>

\* No entry ever comes, and nobody closes the channel the browser reads.
BrowseFails ==
  /\ stage = "mdns" /\ browser = "range"
  /\ stage' = "scan" /\ mdnsDone' = TRUE /\ browser' = "gone"
  /\ UNCHANGED <<found, mdnsFind, scan>>

-----------------------------------------------------------------------------
(* discoverHTTPScan.                                                       *)

\* A worker takes an address, and looks at the context before it probes it.
Take(w) ==
  /\ worker[w] = "next" /\ untried # {}
  /\ \E a \in untried :
       /\ untried' = untried \ {a}
       /\ target' = [target EXCEPT ![w] = a]
  /\ worker' = [worker EXCEPT ![w] = IF scanDone THEN "gone" ELSE "probe"]
  /\ UNCHANGED <<scanDone, scanFind, closed, answered>>

OutOfWork(w) ==
  /\ worker[w] = "next" /\ untried = {}
  /\ worker' = [worker EXCEPT ![w] = "gone"]
  /\ UNCHANGED <<untried, target, scanDone, scanFind, closed, answered>>

ProbeFinds(w) ==
  /\ worker[w] = "probe" /\ target[w] \in Meters
  /\ worker' = [worker EXCEPT ![w] = "offer"]
  /\ answered' = TRUE
  /\ UNCHANGED <<untried, target, scanDone, scanFind, closed>>

\* No answer in time, none of a meter, or a cancelled request.
ProbeFails(w) ==
  /\ worker[w] = "probe"
  /\ worker' = [worker EXCEPT ![w] = "next"]
  /\ UNCHANGED <<untried, target, scanDone, scanFind, closed, answered>>

\* Mutant: a meter is not handed over once the context is done.
OfferUnlessDone(w) ==
  /\ worker[w] = "offer"
  /\ \/ /\ scanFind = "none" /\ ~scanDone /\ scanFind' = target[w]
        /\ worker' = [worker EXCEPT ![w] = "cancel"]
     \/ /\ scanFind # "none" \/ scanDone
        /\ worker' = [worker EXCEPT ![w] = "gone"] /\ UNCHANGED scanFind
  /\ UNCHANGED <<untried, target, scanDone, closed, answered>>

\* The first one to come fills the channel and stops the others.
Offer(w) ==
  /\ worker[w] = "offer"
  /\ \/ /\ scanFind = "none" /\ scanFind' = target[w]
        /\ worker' = [worker EXCEPT ![w] = "cancel"]
     \/ /\ scanFind # "none" /\ UNCHANGED scanFind
        /\ worker' = [worker EXCEPT ![w] = "gone"]
  /\ UNCHANGED <<untried, target, scanDone, closed, answered>>

StopOthers(w) ==
  /\ worker[w] = "cancel"
  /\ worker' = [worker EXCEPT ![w] = "gone"] /\ scanDone' = TRUE
  /\ UNCHANGED <<untried, target, scanFind, closed, answered>>

\* Mutant: nothing is closed when nothing was found.
CloseAfterFind ==
  /\ ~closed /\ \A w \in Workers : worker[w] = "gone"
  /\ answered /\ closed' = TRUE
  /\ UNCHANGED <<untried, worker, target, scanDone, scanFind, answered>>

\* wg.Wait, then close(resultCh).
CloseResults ==
  /\ ~closed /\ \A w \in Workers : worker[w] = "gone"
  /\ closed' = TRUE
  /\ UNCHANGED <<untried, worker, target, scanDone, scanFind, answered>>

ScanTimeout ==
  /\ ~scanDone /\ scanDone' = TRUE
  /\ UNCHANGED <<untried, worker, target, scanFind, closed, answered>>

\* The receive takes what is there, or learns that the channel is closed.
ScanReturns ==
  /\ stage = "scan" /\ (scanFind # "none" \/ closed)
  /\ stage' = "done" /\ found' = scanFind /\ scanFind' = "none"
  /\ scanDone' = TRUE
  /\ UNCHANGED <<mdns, untried, worker, target, closed, answered>>

\* The workers of the scan and the goroutine that waits for them.
Scanning ==
  /\ \/ \E w \in Workers : Take(w) \/ OutOfWork(w) \/ ProbeFinds(w) \/ ProbeFails(w)
                             \/ Offer(w) \/ StopOthers(w)
     \/ CloseResults \/ ScanTimeout
  /\ UNCHANGED <<stage, found, mdns>>

\* The scan's goroutines exist once it has begun, and may outlive it.
DiscoveryNext ==
  \/ Entry \/ EntryEnds \/ MdnsTimeout \/ MdnsReturns \/ BrowseFails
  \/ (stage = "scan" \/ untried # Addresses) /\ Scanning
  \/ ScanReturns
==============================================================================
