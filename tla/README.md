# A verification of marstek-energy-trading

TLA+ models of the energy trader (`cmd/trader`, `service`, `clients`), checked
with TLC on small instances. Every safety property of a passing run is also proved
with TLAPS, for every value of the constants; liveness is model-checked. The reference for every definition is the Go
code; `PROJECT.json` maps each definition to its lines.

## The system

One process trades on day-ahead electricity prices with a home battery. It buys
in cheap windows, sells in expensive ones, and in between charges the battery
with the surplus of the solar panels.

| part | source | state | operations |
|---|---|---|---|
| trading loop | `service/service.go` | `state`, four instants that time commands and stops, solar counters, the current session | `Start`, `tick` (1 min), `solarTick` (1 s), the start, stop and refresh functions, `retryStopping`, `stopBatteryOnShutdown` |
| price feed, calendar | `service/service.go` | `todayPrices`, `tomorrowPrices`, `currentPlan`, two "done today" dates | the two fetches, `checkPriceFetch` (15 min), `checkDailySummary` (1 min) |
| price analyzer | `service/analyzer.go` | none | `AnalyzePrices` and its helpers, window and price lookup |
| recorder | `service/recorder.go` | the trades, `trades.json` | `RecordTrade`, `LoadTrades`, `GetHistory`, `GetTotalPnL` |
| ESPHome client | `clients/esphome/client.go` | none of its own; the device's registers | charge, discharge and idle as confirmed writes; sensor reads |
| Marstek UDP client | `clients/marstek/client.go` | socket, request id | the same port over UDP; not used by `cmd/trader` |
| NordPool client | `clients/nordpool/client.go` | none | the prices of a day |
| HomeWizard P1 | `clients/homewizard/` | none | active power; discovery at start |
| Telegram | `clients/telegram/client.go`, `service/service.go` | update offset | messages out; commands in, polled every 5 s |
| HTTP handler | `handler/handler.go` | metrics, one gauge for all scrapes | `/health`, `/status`, `/metrics` |
| configuration, main | `internal/config`, `cmd/trader` | settings | start, signals, shutdown |

**How they interact.** One goroutine runs the main loop: a `select` over the
context, four or five tickers, one handler at a time, the chat's poll among
them. The HTTP handlers run beside it and beside each other, and only read the
engine, under the same lock; but they share a gauge, and the battery client. A handler holds the lock to
decide and gives it up for every network call; when it has it again it goes on
with what it read before. The loop drives the battery through
`BatteryController`; each command is several HTTP writes, each confirmed by
polling a device that publishes every 15 s. Plans come from the analyzer, by
way of the price feed; a session that ended goes to the recorder. `main` first
looks for the P1 meter, then starts the loop and the HTTP server and waits for
both.

**What is hard.** Every call can fail, or be carried out and the answer be lost.
A battery may be running with no session that would stop it; a stop may need
retries, which are throttled; cooldowns, backoffs and windows overlap; the
process may be signalled or die anywhere; the calendar turns over while requests
are out; the confirmation of a write may be older than the write. There is no
concurrency inside the engine beyond this: no two of the loop's handlers ever
overlap. Real concurrency is in the UDP client (one socket, one deadline, a
watcher for each call), in the discovery (workers, contexts, channels), in the
scrapes, and in the end of the process.

**What makes each part correct.**

- *Loop*: a forced battery is always somebody's; a session is stopped, recorded
  once, and stopped in time; the pauses are kept, and do not lock it out.
- *Price feed*: the plan is of the right day, and comes back after failures.
- *Analyzer*: windows alternate, no better pair is missed, none is left out.
- *Recorder, accounting*: what was acknowledged is on disk; the file only grows;
  the sums agree; the daily summaries add up to the total.
- *Battery clients*: a success sticks, a failure leaves the battery listening, an
  answer is that of the call's own request, every call ends.
- *Chat*: no command is lost, none repeated but by a restart.
- *Process*: a meter that answered is used; the process ends, and not before the
  loop has stopped the battery.

`PROJECT.json` lists the hazards at their lines; the properties below are chosen
for them.

## Modules

| module | models | checked by |
|---|---|---|
| `ForcedOperation` | abstract: what the loop promises about the battery | `KeepsPromise` |
| `TradingEngine` | the trading loop | through `SolarHistory` |
| `SolarHistory` | the loop with a memory of how its solar sessions ended | `SolarHistory.cfg` |
| `TradingEngineLiveness` | fairness and liveness of the loop | `TradingEngineLiveness*.cfg` |
| `BatteryPort` | abstract: what a battery driver promises | `KeepsPort` |
| `EspHomeClient` | the ESPHome client, device and battery | `EspHomeClient.cfg` |
| `MarstekClient` | the UDP client, its callers, network and battery | `MarstekClient.cfg` |
| `PriceFeed` | prices and the daily summary across days | `PriceFeed*.cfg` |
| `PriceAnalyzer` | `AnalyzePrices` | through `SessionPrice` |
| `SessionPrice`, `MCPriceAnalyzer` | the average price of a session of a plan | `MCPriceAnalyzer.cfg` |
| `Recorder` | the trade file | `Recorder_unreadable.cfg` |
| `TelegramChat` | the chat's updates and their offset | through `Restarts` |
| `Restarts` | `Recorder` and `TelegramChat` in one process that dies | `Restarts.cfg` |
| `TradeHistory` | the sums over trades | through `Bookkeeping` |
| `Bookkeeping`, `MCBookkeeping` | sessions to trades to summaries, over days | `MCBookkeeping.cfg` |
| `P1Discovery` | the search for the meter | through `TraderProcess` |
| `TraderProcess` | `main`, its two goroutines, the scrapes | `TraderProcess.cfg` |
| `TradingEngineProofs` | theorems about `TradingEngine` and `SolarHistory` | TLAPS |
| `EspHomeProofs`, `MarstekProofs` | about the two clients | TLAPS |
| `PriceFeedProofs` | about `PriceFeed` | TLAPS |
| `RestartsProofs` | about `Recorder`, `TelegramChat` and `Restarts` | TLAPS |
| `PriceAnalyzerProofs` | about `PriceAnalyzer` and `SessionPrice` | TLAPS |
| `BookkeepingProofs` | about `TradeHistory` and `Bookkeeping` | TLAPS |
| `TraderProofs` | about `P1Discovery` and `TraderProcess` | TLAPS |

Two compositions share variables (`Restarts`, `TraderProcess`), two detailed
specifications implement `BatteryPort`, and `TradingEngine`, which relies on
`BatteryPort`, implements `ForcedOperation`.

Definitions whose comment starts with "Mutant:" stand for plausible bugs. No
specification uses them; each is put in place of a definition once, to see that a
property notices.

### TradingEngine

`pc` is the network call the loop is at: `loop` (the `select`), `tick` and
`solar` (waiting for the battery's status), `command`, `verify`, `undo` (a start,
its verification, and the idle command after a failure), `release`, `record` (a
stop and its trade), `refresh`, `boot` and `halt`. Every call is a step of its
own with the outcomes it can have: done and answered, or failed, and then carried
out or not. What a handler read before the call is kept in `seen`, `goal` and
`ended`. Between any two steps the clock (`Elapse`), the battery's charge, the
price slot, a signal or a crash may move. `charging` and `discharging` sessions
share their actions, with `goal` for the difference.

Abstractions:

- *Time*: an instant becomes what is left of a timer (`stopWait`, `cooldown`,
  `solarCooldown`) or an age (`refreshAge`, `sessionAge`), capped where the code
  stops telling values apart. Durations are constants.
- *Prices*: one variable `slot` says how the present moment lies in the plan; it
  may change at any `Elapse`. `Replan` is `checkPriceFetch` seen from here.
- *Watts*: a reading is the comparison made with it: `surplus`, and `below`,
  `floor`, `adjust` for the smoothed surplus. They are chosen independently.
- *SOC*: `low`, `mid`, `full`; it may change with every `Elapse`.
- The battery's registers are one variable `mode`; the two client modules show how
  a command is really made, and how far they keep to what is assumed here
  (`BatteryPort`).
- `open` counts the sessions begun and not yet recorded (a history variable).

`SolarHistory` adds how the last sessions ended and how long ago the last one did,
and states about them what the anti-cycling counter and deadline are for. It only
adds to the loop (`HistoryIsEngine`), so that the run of `SolarHistory` is the run
of the loop as well.

### EspHomeClient

A command is the list `Writes(cmd)`; each write is a POST (`PostOk`,
`PostFails`) and a confirmation (`ConfirmOk`, `ConfirmFails`) against `shown`,
what the device published last. The device passes accepted writes on in order
(`Apply`, `Lose`) and publishes every `PublishEvery` units. A unit is a controller
update of 5 s. Three assumptions about the device, which is not in the
repository: it carries writes out in the order it accepted them; a Modbus write
and a POST take less than a unit; a POST the client has given up on is with the
device by then, or never arrives. `EspAssumption` has the confirmation's time
exceed the publication's (client.go:25). A Modbus write may be lost; `lost` (a history
variable) says that one was since the last call that began with nothing on its
way, and what the client can promise of the battery is stated where it is not. A
charge, a discharge and a stop are the three shapes of `Writes`; the tolerance for
0.5 W of a number is equality here.

### MarstekClient

The other implementation of `BatteryController`, which `cmd/trader` does not wire
up today. A call polls for the mutex (`Lock`), sends (`Send`, `SendFails`), reads
packets until one has its id (`Receive`), and disarms its watcher before it
gives the mutex back (`Close`); a status is up to three such requests. The network keeps
every request and answer: each may arrive now, later, again, or never; an answer
that arrives again is that of the latest arrival. The watcher of a cancelled
context is a goroutine of its own that moves the deadline of the shared socket.
`Lapse` is the end of a passive mode's `cd_time`: the battery leaves the mode by
itself. `overtaken` (a history variable) says that an earlier request that was
given up was carried out behind the last command, or that a mode ran out: until
then the client implements `BatteryPort`.

### PriceFeed

A day is a row of moments: 0 is 00:00 to 00:14, `Noon` 13:00 to 14:00, `Last`
contains 23:59. The date of a set of prices is the number of days it lies behind
the current one. A request is dated when it is sent and answered within two
moments. An answer for today that has no prices in it is no error to
`fetchTodayPrices`, and replaces prices and plan by none (`TodayEmpty`); one for
tomorrow changes nothing. The 15-minute ticker ticks once a moment into a channel
of one place.
`slipped` (a history variable) says that since the last swap a tick was still
unhandled when the next was due, or the start ran across midnight: what hangs on
the ticker being in time is stated with it.

### PriceAnalyzer, SessionPrice

`PriceAnalyzer` runs the loop of `AnalyzePrices` on every list of prices up to
`MaxSlots`, one cycle a step; averages are compared by cross-multiplication,
where the code divides decimals of 16 digits. `SessionPrice` then takes a session
that begins in a charge window of that plan and ends in it or up to `Delay`
later, and evaluates `calculateAveragePrice` for it; the property's definition
goes instant by instant.

### Recorder, TelegramChat, Restarts

`Recorder` takes a save apart into the write of the temporary file and the
rename, with a crash anywhere; a rename is atomic, as on POSIX. `unread` (a
history variable) says that a start could not read a file that was there.
`TelegramChat` has Telegram keep the updates until a poll names a later offset
(`Poll`), an answer of at most `Batch` updates, the client's acceptance of it, and
a handling of each command. `Restarts` puts the two in one goroutine, which a
crash ends wherever it is.

### TradeHistory, Bookkeeping

`TradeHistory` is the sums of `GetHistory`, `GetTodaySummary`, `GetTotalPnL` and
`GetLastChargeTrade`: each loop of the code is a recursive function over the places
of its list (`Summary`, `TotalPnL`, `LastChargePrice`; `Placed` and `Sorted` are the
two loops of the sort), and the days come to the sort in every order a map may yield. `Bookkeeping` produces the trades: a session takes its day and price at
its start, becomes a trade with its energy at its end, across midnights, failed saves
and crashes, and the summary of 23:59 is sent once a day by each process.

### P1Discovery, TraderProcess

`P1Discovery` is `Discover`: the mDNS browser and its reader, then workers that
take addresses, probe, offer a find to a channel of one place and cancel the
context, while the context may end at any time. `TraderProcess` is `main` from
there: the server's goroutine (`Serve`), then `NotifyContext` and the loop's
(`CatchSignals`), signals before, while they are caught, and after `stop`,
the server's failure (`os.Exit`), the loop's, the shutdown and the join; `state`
is all that is left of the engine, and `halt` how its last stop ended. Scrapes of
`/metrics` copy the state, reset the gauge and set it in separate steps, any
number of them at a time. Three history variables tell what a scrape may show:
`during`, the states the loop was in since it began, `beside`, those since a scrape
beside it began, and `apart`, that no two scrapes were between reading the state
and setting the gauge (`AtGauge`) at a time since.

## What is checked

| run | module | properties | states | shows |
|---|---|---|---|---|
| `engine` | `SolarHistory` | `TypeOK` `ForceIsOwned` `LedgerBalanced` `SurplusIsFresh` `StartsClean` `KeepsPromise` `BackoffHonoured` | 1.2 M | the loop never loses a running battery or a trade, starts nothing on stale grounds, keeps its rests, and implements `ForcedOperation` |
| `engine_liveness` | `TradingEngineLiveness` | `StoppingResolves` `SessionsEnd` `ShutdownEnds` `WindowIsUsed` | 16 750 | unconfirmed stops are resolved, sessions end, no lockout from a lasting charge window, a signal ends the process |
| `esphome` | `EspHomeClient` | `ConfirmationDecides` `DisabledWhenStopped` `KeepsPort` `CallEnds` | 1.0 M | a success sticks, the client implements `BatteryPort` while nothing is lost, every call ends |
| `marstek` | `MarstekClient` | `OwnDeadline` `ReadingIsFresh` `NothingSwallowed` `KeepsPort` `CallEnds` | 136 350 | no stale answer, none of another call and no deadline of one, `BatteryPort` up to late requests, every call ends |
| `prices` | `PriceFeed` | `NeverAhead` `OnceADay` `TomorrowIsTomorrow` `PlanRecovers` | 4 450 | never a plan of tomorrow, one fallback and one summary a day, with ticks in time the calendar is right, and a plan comes back |
| `trade_file` | `Restarts` | `FileKept` `FileGrows` `CommandNotLost` `HandledOnce` `CommandHandled` | 193 230 | no acknowledged trade is lost to crashes and failed saves, no torn or disordered file; no command is lost, none repeated by one process |
| `analyzer` | `MCPriceAnalyzer` | `WindowsAlternate` `GreedyToTheEnd` `AverageIsMean` | 367 606 | each cycle is the best pair of what is left, to the end; a session's price is the mean over its time |
| `history` | `MCBookkeeping` | `LastChargeKnown` `HistoryFits` `SummariesAddUp` | 432 328 | the last charge's price survives, sums and order are right below zero too, the summaries account for the total |
| `process` | `TraderProcess` | `ExitAfterStop` `MeterNotLost` `OneStateShown` `DiscoveryEnds` `ProcessEnds` | 273 816 | no find is dropped, none blocks; the process ends, behind the battery's stop; a scrape shows states of its time or of scrapes beside it, and one state where scrapes keep apart at the gauge |

Deadlock is checked except where a behaviour is meant to end: a plan that is
complete, a bounded list of trades, a process that has ended.

**Disagreements.** Three runs check what a comment, a test or the PRD says, and
TLC shows the program doing otherwise:

- `engine_minimum`: with no price for the present slot `tick` returns before it
  looks at the session, so the minimum charge is not kept while the price is
  missing. A discharge window that ends at midnight always overruns this way
  until the price ticker has swapped the days.
- `prices_midnight`: a start across midnight misses the swap; the prices that stay
  block the next fetch, and the next midnight takes them for the new day's.
- `trade_file_unreadable`: a file that could not be read at the start is replaced
  by the next save.

Smaller ones that the models follow and no run repeats:

- *Loop*: a full battery stays in a solar session as long as the P1 meter cannot
  be read (service.go:511, against the comment at 595; `SessionsEnd` has the
  meter's readings as a premise). The "consecutive" surplus readings before a
  solar start (line 47) may lie around an unreadable meter or a scheduled session
  (543); a pause clears them, which is `SurplusIsFresh`. A solar session may end
  without the debounced low readings (613) when the smoothed surplus is below
  75 W (643). A shutdown or a crash drops the open session's trade (326). The
  refresh of the passive mode at 80 % of its time (1166) matters to the UDP
  client alone.
- *Calendar and accounting*: a restart within 23:59 repeats the daily summary,
  whose flag is in memory (89, 1376); a trade recorded after the summary of its
  day is in no summary (1378); `GetTodaySummary` takes the day from `time.Now()`
  (recorder.go:212) where the rest of the engine asks `s.now()`; an average price of exactly 0 is
  taken for one that could not be computed, and the price of the start is recorded
  instead (936, against the comment at 937; `Bookkeeping` follows the code in
  `Charged`, so that no property of it says otherwise); an empty answer for today
  replaces the prices (1252), where one for tomorrow does not (1279); `lastChargePrice` is kept "for
  profitability check" and only logged.
- *Outside the loop*: the rate limit of the error messages is set before the
  message is sent (1426); a status is put together from two moments (1503);
  two scrapes that are between reset and label together (handler.go:118) show
  two states or none, and one of these may be that from before a scrape began, when
  one beside it had read it; `OneStateShown` says how far this goes;
  a poll of the chat holds the loop up for as long as its request takes; a
  failing HTTP server ends the process with the battery as it is (main.go).
- *Clients and analyzer*: a confirmed stop (esphome/client.go:254) may be one
  published before the write, which matters when the write is lost; taking the
  best pair of windows first is not optimal for two cycles (analyzer.go:65, 130).

### Bounds

- *Loop*: durations and thresholds are 1 to 3, apart wherever their order matters
  (`RestartCooldown` < `ShortCooldown` < `LongBackoff`, `MinSession` <
  `ShortSession`, `SettleTime` < `RefreshAt`); a threshold of 2 has a state below
  it and one at it, and `BackoffCount` 2 (3 in the code) tells one marginal end
  from a row of them. Nothing else is bounded: the state space is finite by the
  caps. The liveness runs take thresholds of 1 and leave `between` out or keep it
  alone: the properties speak of the other slots, `noplan` stands for a slot
  without a window, and a counter that is met at once is no obstacle the others
  would not be.
- *ESPHome client*: `Timeout` 3 and `PublishEvery` 2 are the code's 20 s and 15 s
  in units of 5 s, one unit shorter each: what counts is the unit between them.
  `MaxQueued` 2 is one write of a command that was given up and one of the next;
  two powers tell a stale value from the new one.
- *UDP client*: the loop and one reader, two requests on the network, which may
  arrive again. With `Lapse` two are enough for an answer that is stale, for one
  of the other caller's and for a request that overtakes a later command; the
  safety properties are proved for any number.
- *Prices*: six moments, two of them in the 13:00 hour, so that a failed fetch can
  be tried again. Days are unbounded.
- *Analyzer*: lists of up to six prices out of four, one below zero and one zero,
  windows of one and two slots, two cycles: room for two cycles and overlapping
  candidates. A slot is two units, so that a session may begin and end inside
  one, and it ends up to three units, one slot and a half, after its window.
- *Trade file and chat*: three trades, for saves that fail before, between and
  after ones that do not; three updates with two to an answer, so that an answer
  can be full of other chats'.
- *Accounting*: three trades over two days and the first moments of a third, two
  prices, one below zero, energies of zero and more, sessions against their
  direction.
- *Process*: three addresses, two of them meters, two workers: both may find one
  while the third address is open. Three scrapes: two may meet at the gauge while
  the third waits for the battery.

### Fairness

- *Loop*. `CallsReturn`: time passes, and every network call returns, since each
  has a timeout; the attempts of a shutdown end with theirs, none need succeed.
  `SelectIsFair` is strong fairness of the two ticks and the shutdown: Go's
  `select` picks at random among ready channels, and the tickers refill theirs.
  `BatteryAnswers` (strong fairness of a tick that gets its status and of a
  confirmed stop) says that a battery asked again and again answers in the end;
  without it no stop could be promised. `BatteryObeys` says the same of a start
  and is the premise of `WindowIsUsed` alone; that the meter is read again and
  again is a premise of `SessionsEnd` for charging by the sun. Nothing is assumed of
  the plan or the battery's charge, and a crash is never ruled out except where a
  property says so.
- *ESPHome client*. The HTTP client's timeout, the confirmation's deadline and a
  clock that goes on; `CallEnds` needs no answer of the device.
- *UDP client*. Deadlines pass (`Expire`), an armed watcher of a context that
  ended runs (`Wake`), a caller that can go on does (`Own`), the contexts of
  readers end (`Cancel`). The loop, whose context need not end, polls the mutex
  every few milliseconds between calls of others and gets it in the end
  (strong fairness of its `Lock`); no such luck is assumed of readers. Nothing is
  assumed of the network.
- *Price feed*. A process that is down is started, and the provider answers a
  request that is repeated for ever; crashes may happen.
- *Trade file and chat*. The process is started again, what it has begun ends,
  `select` is fair to the chat's ticker, and a poll repeated for ever succeeds
  again and again. `CommandHandled` has a process that lives on as its premise.
- *Process*. Contexts end, channels that are ready are read, a probe has a
  timeout, and so have a start, a shutdown of the server and the loop's last
  commands. No signal is assumed: `ProcessEnds` begins with one.

## What is proved

For every value of the constants that the named assumptions allow. Each
component's assumption is an `ASSUME` that TLC evaluates for its instance:

| assumption | says |
|---|---|
| `TypeAssumption` | positive durations and thresholds, any set of slots, with or without a meter |
| `EspAssumption` | there is a power to ask for, and a confirmation waits for longer than a publication cycle |
| `MarstekAssumption` | the loop is none of the readers |
| `DayAssumption` | a day has moments; those of 13:00 are neither its first nor its last |
| `RecorderAssumption`, `ChatAssumption` | bounds are numbers, an answer holds something |
| `AnalyzerAssumption`, `SessionPriceAssumption` | prices and powers are whole numbers, the efficiency a percentage, spread and usable energy not below zero, and a slot lasts |
| `HistoryAssumption`, `BookkeepingAssumption` | days and energies are natural numbers, prices whole ones; a session may bring no energy; 0 is no day |
| `DiscoveryAssumption` | meters are addresses |

No theorem rests on anything else.

| module | theorem | statement |
|---|---|---|
| `TradingEngineProofs` | `TypeCorrect`, `Invariance` | `Spec => []TypeOK`, `Spec => []IInv` |
| | `ForceOwned`, `LedgerIsBalanced`, `FreshQualification` | `Spec => []ForceIsOwned`, `[]LedgerBalanced`, `[]SurplusIsFresh` |
| | `CooldownKept`, `FreshStarts`, `CleanStarts` | `Spec => StartsClean`, from its two parts |
| | `PromiseKept` | `Spec => KeepsPromise` |
| | `HistoryIsEngine` | `HSpec => Spec` |
| | `HInvariance`, `RestsKept` | `HSpec => []HInv`, `HSpec => BackoffHonoured` |
| `EspHomeProofs` | `ConfirmationRight`, `DisableRight` | `Spec => []ConfirmationDecides`, `Spec => DisabledWhenStopped` |
| | `ClientKeepsPort` | `Spec => KeepsPort` |
| `MarstekProofs` | `DeadlineOwned` | `Spec => []OwnDeadline` |
| | `FreshReadings`, `AnswersKept` | `Spec => ReadingIsFresh`, `NothingSwallowed` |
| | `PortKept` | `Spec => KeepsPort` |
| `PriceFeedProofs` | `NeverAheadOfTime`, `OncePerDay`, `TomorrowKept` | `Spec => []NeverAhead`, `[]OnceADay`, `[]TomorrowIsTomorrow` |
| `RestartsProofs` | `KeptFile`, `GrowingFile` | `Spec => []FileKept`, `Spec => FileGrows` |
| | `NoCommandLost`, `OncePerProcess` | `RestartsSpec => []CommandNotLost`, `HandledOnce` |
| | `RestartsKeepFile` | `RestartsSpec => []FileKept /\ FileGrows` |
| `PriceAnalyzerProofs` | `BestWindowIsBest` | what `findBestWindow` returns, for any list |
| | `PlanAlternates`, `PlanIsGreedy` | `Spec => []WindowsAlternate`, `[]GreedyToTheEnd` |
| | `AveragesRight`, `SessionsFollowPlan` | `PriceSpec => []AverageIsMean`, `PriceSpec => Spec` |
| `BookkeepingProofs` | `SortedRight` | what the sort returns, for any row of days |
| | `LastChargeRight`, `SummariesRight`, `HistoryCorrect` | `Spec => []LastChargeKnown`, `[]SummariesAddUp`, `[]HistoryFits` |
| `TraderProofs` | `ExitsAfterStop` | `Spec => []ExitAfterStop` |
| | `NoMeterLost`, `OneStateScraped` | `Spec => MeterNotLost`, `OneStateShown` |

Each module also proves the type invariant and the inductive invariant its
theorems rest on (`Invariance`, `TypeCorrect`). TLC found these invariants to hold
on the runs' instances before they were proved, but for Bookkeeping's: its parts
`Known` and `Balanced` choose a function from no set, which TLC cannot evaluate,
and what they say is what `LastChargeKnown` and `SummariesAddUp` say to TLC.

**The loop.** `ForceIsOwned` is not inductive: that a battery at rest stays
nobody's needs to be known at every step of every handler. The invariant is

    IInv == TypeOK /\ Places /\ Owners /\ Rests /\ LedgerBalanced

- `Places`: which state goes with which call. A start and a record happen only
  when idle, a refresh only in a session, a stop only when not idle. This is what
  "the state has not changed while the lock was given up" amounts to.
- `Owners`: the battery's mode against state and call: at rest when idle and
  nothing is attempted, else at rest or in the direction of the attempt or
  session. With `Places` it gives `ForceIsOwned`.
- `Rests`: no stop is pending in idle, no cooldown runs in a session or at a
  command, nor behind a tick that saw none, no telemetry failure is counted at a
  solar start. The action properties follow from it.
- `LedgerBalanced`: the open sessions against the state.

`TypeOK` is proved preserved action by action, then the other parts, each from
the invariant before the step; `PromiseKept` maps each action to an action of
`ForcedOperation` or a stutter.

**The rests.** `HInv` adds `Remembered` to `IInv`: the counter of marginal
sessions is the length of the run of marginal ends at the head of `recent`
(`Streak`), and the time since the last end plus what is left of the deadline
covers what is due. `HistoryIsEngine` lends it every lemma about the loop.

**The ESPHome client.** What a register will hold once the device has worked off
its queue is `Final(control)`, and the argument is about how each action moves it
(`FinalIsLast`: the last write to the register, or what it holds). `Written`: the
writes of the call so far will all have come to what they asked for. `Guarded`: a
write on its way that switches the remote control off has a stop in front of it,
or a stopped battery, and nothing that starts it in between; this is what makes
`DisabledWhenStopped` inductive, since that write may come from a command that was
given up. `Published`: a confirmation that has waited for longer than the last
publication is old has seen what it wrote, so that its time cannot be up. This is
where the assumption on the two intervals is used, and nowhere else. For
`KeepsPort` the mode of the port is `Final("force")`: a write to it is the port's
`Obey`, at the POST and not when it reaches the battery.

**The UDP client.** One caller at a time has socket, deadline and watcher
(`Turns`); an id is given once (`Numbered`); an answer with the id of a pending
request tells of a mode since that request (`Fresh`); what a command that
runs has come to, and what the requests with its id are for (`Driven`, `Asked`).

**The price feed.** A pending request is for its day or was overtaken by one
midnight (`Requested`); what is done once a day is marked for the day (`Marked`);
prices for tomorrow come after 13:00 (`Afternoon`); and, unless something slipped,
prices that a midnight has made today's meet a tick that has yet to be handled
(`Awaited`), which is what `TomorrowIsTomorrow` lacks of being inductive.

**The trade file.** `Ledger(file)` and `Ledger(trades)` (numbered in the order
they were recorded), `Memory` (what is in
memory at each place of a save: the file is a prefix of the list, the temporary
file is the list, unless `unread`) and `AckedOnDisk`. **The chat.** The
offset stands for updates that some poll brought (`Offset`), and an accepted answer
has no gap (`Handling`). `RestartsProofs` proves the composition from both: a step
of one leaves the other's variables alone, a crash is a step of both.

**The process.** `Browsed` and `Scanned`: what mDNS or a worker has found is in a
channel or in a worker's hands, and the channel is closed behind the last worker.
`Halted`: a loop that has not run is idle, and one that is over has tried to stop
its battery. `Scraped`: what a scrape has copied it has witnessed, and every scrape
beside it counts that among its own (`Seen`); where scrapes keep apart, the one that
is at the gauge has it to itself, and what it is about to set is a state that those
waiting for the battery have witnessed as well (`Lone`).

**The algorithms.** The library's induction theorems cannot be used here, since
they take an operator for a parameter; but a fact about all natural numbers is
a set of numbers that contains 0 and, with each, the next (`Induction`, from
`NatLessThanWellFounded` and `WFMin`: no least number can be outside). With it

- *recursive functions* are unfolded: the function that a definition chooses
  exists (for example `SlidesExist`, `RowsExist`), so that what `CHOOSE` picks obeys
  its equation, and facts about its values follow by `Induction`;
- *folds over sets* are taken apart by their library definition, in which one
  element after another is chosen: that the sum does not depend on the order is
  by `Induction` over the cardinality (`CostAdd`, with `UpTo` for the sets so far).

*Analyzer*: `BestWindowIsBest` goes by the window's last slot. `Best` among the
candidates then pays most of all profitable pairs, although only the best
discharge window of each charge window is looked at (for one charge window, the
pair with the greatest sum is also the one that passes both tests if any does).
The invariant is `Typed /\ Behind /\ WindowsAlternate /\ GreedyToTheEnd`, where
`Behind` has the search go on right behind the last cycle. *Session price*:
`AverageAddsUp` goes slot by slot, each of which contributes `Weight` times its price
(`WeightIs`: the weight is the number of the session's instants in the slot), and
the instants before a slot and in it are a disjoint union (`CostAdd`).

*Books*: `Gain(list, S, n)` sums the profit of those of the first `n` trades whose
places are in `S`; it adds up over disjoint sets and days. The invariant is

    IInv == TypeOK /\ Dated /\ Shown /\ Known /\ Balanced

- `Dated`: no session and no trade is from a day to come, in memory or on disk.
  This makes a trade either of today, whose summary is yet to be sent or has been,
  or late.
- `Shown`: summaries go by the days, a late trade has missed its own, and a process
  that is down has none.
- `Known`: the price is that of the last charge in the list.
- `Balanced`: what was reported and what no summary accounts for is the total. A
  summary moves the day's trades from the one to the other; a trade goes to both
  sides, or is late and stays open.

`HistoryFits` holds of any list of trades (`TotalsRight`, `PricesRight`,
`DescendRight`, the last from `SortedRight`).

**Only model-checked** are the properties that need fairness, for which this
prover has no rules: `StoppingResolves`, `SessionsEnd`, `ShutdownEnds`,
`WindowIsUsed`, `CallEnds` of both clients, `PlanRecovers`, `CommandHandled`,
`DiscoveryEnds` and `ProcessEnds`. The three disagreements above are refuted by TLC
and have nothing to be proved.

## What is not modelled

- *Configuration*: parsing of environment variables; its values are the constants.
- *Texts*: messages, logging, JSON and HTML. `notifyError` compares and sets one
  time in one function.
- *Reads*: `/health` and `/status`, the P1 and battery readings, the NordPool
  request. They change no state; their results are the inputs of the models.
- `accumulateSolarEnergyLocked`: a sum of products of power and time, with no
  control in it beyond a first reading; its result is any of `Energies`.
- `Discover` and `GetESMode` of the UDP client have no operation of their own: each
  is one request, as `GetESStatus` is. `Start` calls the first, nothing the second.
- The SOC is not tied to the mode of the battery, and prices are not tied to the
  windows: both may do anything, which is more than they can.

## Plan

Done: all modules above, with the safety of each proved.

Next, proving: safety lemmas behind liveness (what is enabled in which states of
`IInv`, for `ShutdownEnds` and `CallEnds`), so that what remains of those
properties is fairness alone; for `P1Discovery`, an abstract specification of
`Discover` (one find of those that answered, or none) that it implements.

Next, modelling: the solar energy integral over readings that are missing or late;
`GetCurrentStatus` reading beside the loop.
