------------------------- MODULE TradingEngineProofs -------------------------
(***************************************************************************)
(* The safety of the trading engine, for all values of its constants: type *)
(* correctness, the inductive invariant IInv, what follows from it, and the*)
(* refinement of ForcedOperation; then the rests between solar sessions,   *)
(* against the memory of SolarHistory, for any thresholds and any order of *)
(* the pauses' lengths.                                                    *)
(***************************************************************************)
EXTENDS SolarHistory, SequenceTheorems, TLAPS

-----------------------------------------------------------------------------
(* Type correctness.                                                       *)

\* The constants, one by one.
LEMMA Bounds ==
  /\ MinSession \in Nat \ {0} /\ ShortSession \in Nat \ {0}
  /\ RestartCooldown \in Nat \ {0} /\ ShortCooldown \in Nat \ {0} /\ LongBackoff \in Nat \ {0}
  /\ FailureCooldown \in Nat \ {0} /\ StopRetry \in Nat \ {0}
  /\ SettleTime \in Nat \ {0} /\ RefreshAt \in Nat \ {0}
  /\ Qualification \in Nat \ {0} /\ Debounce \in Nat \ {0}
  /\ TelemetryThreshold \in Nat \ {0} /\ BackoffCount \in Nat \ {0}
BY TypeAssumption DEF TypeAssumption

\* The caps of the model are natural numbers and cover every pause and age.
LEMMA Caps ==
  /\ AgeCap \in Nat /\ RefreshCap \in Nat /\ SolarCap \in Nat
  /\ \A r \in {RestartCooldown, ShortCooldown, LongBackoff, FailureCooldown} : r \in 0..SolarCap
<1> DEFINE a == Most(RestartCooldown, ShortCooldown)
           b == Most(LongBackoff, FailureCooldown)
<1>1. a \in Nat /\ RestartCooldown <= a /\ ShortCooldown <= a
  BY Bounds DEF Most
<1>2. b \in Nat /\ LongBackoff <= b /\ FailureCooldown <= b
  BY Bounds DEF Most
<1>3. SolarCap \in Nat /\ a <= SolarCap /\ b <= SolarCap
  <2> HIDE DEF a, b
  <2>1. SolarCap = Most(a, b)
    BY DEF a, b, SolarCap
  <2> QED BY <2>1, <1>1, <1>2 DEF Most
<1>4. AgeCap \in Nat /\ RefreshCap \in Nat
  BY Bounds DEF AgeCap, RefreshCap, Most
<1> QED
  <2> HIDE DEF a, b
  <2> QED BY <1>1, <1>2, <1>3, <1>4, Bounds

\* Counting up stays within the cap.
LEMMA UpBounds == ASSUME NEW n \in Nat, NEW cap \in Nat, n <= cap
                  PROVE  Up(n, cap) \in 0..cap
BY DEF Up, Least

\* Running down stays within the cap.
LEMMA DownBounds == ASSUME NEW n \in Nat, NEW cap \in Nat, n <= cap
                    PROVE  Down(n) \in 0..cap
BY DEF Down

\* The empty records have their types.
LEMMA Nothing == NoView \in Views /\ NoEnd \in Ends
BY DEF NoView, NoEnd, Views, Ends, AllSlots, Reasons

\* A reading of the clock is a view.
LEMMA ViewTyped ==
  /\ \A b \in BOOLEAN : [NoView EXCEPT !.surplus = b] \in Views
  /\ \A t \in AllSlots, b \in BOOLEAN : [NoView EXCEPT !.slot = t, !.cooling = b] \in Views
BY DEF NoView, Views, AllSlots

\* What a handler may do to its own variables.
HandlerMoves ==
  /\ pc' \in PCs /\ seen' \in Views /\ goal' \in Sessions \cup {"none"} /\ ended' \in Ends
  /\ Attempting' => goal' # "none"

\* Return leaves a well-typed handler.
LEMMA ReturnMoves == Return => HandlerMoves
BY Nothing DEF Return, HandlerMoves, PCs, Attempting

\* Begin leaves a well-typed handler, with a session to start.
LEMMA BeginMoves == ASSUME NEW kind \in Sessions, Begin(kind)
                    PROVE  HandlerMoves
BY Nothing DEF Begin, HandlerMoves, PCs, Attempting, Sessions, Scheduled

\* Stop leaves a well-typed handler, in both of its branches.
LEMMA StopMoves == ASSUME NEW reason \in Reasons, NEW then \in Sessions \cup {"none"},
                          Stop(reason, then)
                   PROVE  HandlerMoves
<1>1. CASE Return
  BY <1>1, ReturnMoves
<1>2. CASE /\ pc' = "release" /\ goal' = then /\ seen' = NoView
           /\ ended' = [reason |-> reason, short |-> sessionAge < ShortSession]
  <2>1. [reason |-> reason, short |-> sessionAge < ShortSession] \in Ends
    BY DEF Ends
  <2> QED
    BY <1>2, <2>1, Nothing DEF HandlerMoves, PCs, Attempting
<1> QED
  BY <1>1, <1>2 DEF Stop

\* Stop leaves the retry delay within its bound.
LEMMA StopWaits == ASSUME NEW reason, NEW then, TypeOK, Stop(reason, then)
                   PROVE  stopWait' \in 0..StopRetry
BY Bounds DEF Stop, TypeOK, TimersTyped

\* Refresh leaves a well-typed handler.
LEMMA RefreshMoves == ASSUME HandlerTyped, Refresh PROVE HandlerMoves
BY ReturnMoves, Nothing DEF Refresh, HandlerTyped, HandlerMoves, PCs, Attempting

\* Only scheduled sessions are ever wanted by a tick.
LEMMA WantedTyped == \A allowed \in BOOLEAN : Wanted(allowed) \in Scheduled \cup {"none"}
BY DEF Wanted, Scheduled

\* The pause after a solar session is within its cap.
LEMMA PauseBounds == SolarPause \in 0..SolarCap
BY Caps DEF SolarPause

\* Every step keeps the timers in their bounds.
LEMMA TimersStep == TypeOK /\ [Next]_vars => TimersTyped'
<1> SUFFICES ASSUME TypeOK, [Next]_vars PROVE TimersTyped'
  OBVIOUS
<1> USE DEF TypeOK, TimersTyped
<1>1. CASE BootOk
  BY <1>1 DEF BootOk, timers
<1>2. CASE BootFails
  BY <1>2 DEF BootFails, timers
<1>3. CASE Launch
  BY <1>3 DEF Launch, timers
<1>4. CASE Signal
  BY <1>4 DEF Signal, timers
<1>5. CASE Crash
  BY <1>5, Bounds, Caps DEF Crash, Forget
<1>6. CASE Shutdown
  BY <1>6 DEF Shutdown, timers
<1>7. CASE HaltOk
  BY <1>7, Bounds, Caps DEF HaltOk, Forget
<1>8. CASE HaltFails
  BY <1>8, Bounds, Caps DEF HaltFails, timers, Forget
<1>9. CASE CommandOk
  BY <1>9 DEF CommandOk, timers
<1>10. CASE CommandFails
  BY <1>10 DEF CommandFails, timers
<1>11. CASE VerifyOk
  BY <1>11, Bounds, Caps DEF VerifyOk
<1>12. CASE VerifyFails
  BY <1>12 DEF VerifyFails, timers
<1>13. CASE UndoOk
  BY <1>13, Bounds DEF UndoOk, StartFailed
<1>14. CASE UndoFails
  BY <1>14, Bounds DEF UndoFails, StartFailed
<1>15. CASE ReleaseOk
  BY <1>15, Bounds DEF ReleaseOk
<1>16. CASE ReleaseFails
  BY <1>16 DEF ReleaseFails, timers
<1>17. CASE Record
  BY <1>17, Bounds, PauseBounds DEF Record, Recorded
<1>18. CASE RefreshOk
  BY <1>18, Bounds, Caps DEF RefreshOk
<1>19. CASE RefreshFails
  BY <1>19 DEF RefreshFails, timers
<1>20. CASE RetryStopping
  BY <1>20, Bounds DEF RetryStopping, Stop
<1>21. CASE Tick
  BY <1>21 DEF Tick, timers
<1>22. CASE TickStatusFails
  BY <1>22 DEF TickStatusFails, timers
<1>23. CASE TickDecide
  <2>1. stopWait' \in 0..StopRetry
    <3>1. ASSUME NEW allowed \in BOOLEAN, TickIdle(allowed) \/ TickSolar(allowed)
          PROVE  stopWait' \in 0..StopRetry
      BY <3>1, StopWaits DEF TickIdle, TickSolar, TimersTyped
    <3>2. CASE TickScheduled
      BY <3>2, StopWaits DEF TickScheduled, TimersTyped
    <3> QED
      BY <1>23, <3>1, <3>2 DEF TickDecide
  <2> QED
    BY <1>23, <2>1 DEF TickDecide
<1>24. CASE SolarTick
  BY <1>24 DEF SolarTick, timers
<1>25. CASE SolarStatusFails
  BY <1>25, Bounds DEF SolarStatusFails, Stop
<1>26. CASE SolarDecide
  BY <1>26, Bounds DEF SolarDecide, Stop, SolarIdle, SolarSession, SolarOther
<1>27. CASE Elapse
  <2>1. stopWait' \in 0..StopRetry /\ cooldown' \in 0..FailureCooldown
    BY <1>27, Bounds DEF Elapse, Down
  <2>2. solarCooldown' \in 0..SolarCap
    BY <1>27, Caps DEF Elapse, Down
  <2>3. refreshAge' \in 0..RefreshCap /\ sessionAge' \in 0..AgeCap
    BY <1>27, Caps, UpBounds DEF Elapse
  <2> QED
    BY <2>1, <2>2, <2>3
<1>28. CASE Replan
  BY <1>28 DEF Replan, timers
<1>29. CASE UNCHANGED vars
  BY <1>29 DEF vars, timers, counts, handler, world
<1>30. QED
  BY <1>1, <1>2, <1>3, <1>4, <1>5, <1>6, <1>7, <1>8, <1>9, <1>10, <1>11, <1>12, <1>13,
     <1>14, <1>15, <1>16, <1>17, <1>18, <1>19, <1>20, <1>21, <1>22, <1>23, <1>24, <1>25,
     <1>26, <1>27, <1>28, <1>29 DEF Next, Act, Call

\* Every step keeps the counters in their bounds.
LEMMA CountsStep == TypeOK /\ [Next]_vars => CountsTyped'
<1> SUFFICES ASSUME TypeOK, [Next]_vars PROVE CountsTyped'
  OBVIOUS
<1> USE DEF TypeOK, CountsTyped
<1>1. CASE BootOk
  BY <1>1 DEF BootOk, counts
<1>2. CASE BootFails
  BY <1>2 DEF BootFails, counts
<1>3. CASE Launch
  BY <1>3 DEF Launch, counts
<1>4. CASE Signal
  BY <1>4 DEF Signal, counts
<1>5. CASE Crash
  BY <1>5, Bounds DEF Crash, Forget
<1>6. CASE Shutdown
  BY <1>6 DEF Shutdown, counts
<1>7. CASE HaltOk
  BY <1>7, Bounds DEF HaltOk, Forget
<1>8. CASE HaltFails
  BY <1>8, Bounds DEF HaltFails, counts, Forget
<1>9. CASE CommandOk
  BY <1>9 DEF CommandOk, counts
<1>10. CASE CommandFails
  BY <1>10 DEF CommandFails, counts
<1>11. CASE VerifyOk
  BY <1>11, Bounds DEF VerifyOk
<1>12. CASE VerifyFails
  BY <1>12 DEF VerifyFails, counts
<1>13. CASE UndoOk
  BY <1>13, Bounds DEF UndoOk, StartFailed
<1>14. CASE UndoFails
  BY <1>14, Bounds DEF UndoFails, StartFailed
<1>15. CASE ReleaseOk
  BY <1>15 DEF ReleaseOk, counts
<1>16. CASE ReleaseFails
  BY <1>16 DEF ReleaseFails, counts
<1>17. CASE Record
  BY <1>17, Bounds, UpBounds DEF Record, Recorded, ShortSessions, counts
<1>18. CASE RefreshOk
  BY <1>18 DEF RefreshOk, counts
<1>19. CASE RefreshFails
  BY <1>19 DEF RefreshFails, counts
<1>20. CASE RetryStopping
  BY <1>20 DEF RetryStopping, counts
<1>21. CASE Tick
  BY <1>21 DEF Tick, counts
<1>22. CASE TickStatusFails
  BY <1>22 DEF TickStatusFails, counts
<1>23. CASE TickDecide
  BY <1>23 DEF TickDecide, counts
<1>24. CASE SolarTick
  BY <1>24 DEF SolarTick, counts
<1>25. CASE SolarStatusFails
  BY <1>25, Bounds, UpBounds DEF SolarStatusFails
<1>26. CASE SolarDecide
  BY <1>26, Bounds, UpBounds DEF SolarDecide, SolarIdle, SolarSession, SolarOther
<1>27. CASE Elapse
  BY <1>27 DEF Elapse, counts
<1>28. CASE Replan
  BY <1>28 DEF Replan, counts
<1>29. CASE UNCHANGED vars
  BY <1>29 DEF vars, timers, counts, handler, world
<1>30. QED
  BY <1>1, <1>2, <1>3, <1>4, <1>5, <1>6, <1>7, <1>8, <1>9, <1>10, <1>11, <1>12, <1>13,
     <1>14, <1>15, <1>16, <1>17, <1>18, <1>19, <1>20, <1>21, <1>22, <1>23, <1>24, <1>25,
     <1>26, <1>27, <1>28, <1>29 DEF Next, Act, Call

\* Every step keeps the state, the program counter and the handler typed.
LEMMA HandlerStep == TypeOK /\ [Next]_vars => HandlerTyped'
<1> SUFFICES ASSUME TypeOK, [Next]_vars PROVE HandlerTyped'
  OBVIOUS
<1> USE DEF TypeOK, HandlerTyped, WorldTyped, Attempting
<1>1. CASE BootOk
  BY <1>1 DEF BootOk, handler, PCs
<1>2. CASE BootFails
  BY <1>2 DEF BootFails, handler, PCs
<1>3. CASE Launch
  BY <1>3 DEF Launch, handler, PCs
<1>4. CASE Signal
  BY <1>4 DEF Signal, handler
<1>5. CASE Crash
  BY <1>5, Nothing DEF Crash, Forget, PCs, States
<1>6. CASE Shutdown
  BY <1>6 DEF Shutdown, handler, PCs
<1>7. CASE HaltOk
  BY <1>7, Nothing DEF HaltOk, Forget, PCs, States
<1>8. CASE HaltFails
  BY <1>8, Nothing DEF HaltFails, handler, Forget, PCs, States
<1>9. CASE CommandOk
  BY <1>9 DEF CommandOk, handler, PCs
<1>10. CASE CommandFails
  BY <1>10 DEF CommandFails, handler, PCs
<1>11. CASE VerifyOk
  <2>1. goal \in Sessions
    BY <1>11 DEF VerifyOk
  <2> QED
    BY <1>11, <2>1, ReturnMoves DEF VerifyOk, HandlerMoves, States
<1>12. CASE VerifyFails
  BY <1>12 DEF VerifyFails, handler, PCs
<1>13. CASE UndoOk
  BY <1>13, Nothing DEF UndoOk, Return, PCs, StartFailed, States
<1>14. CASE UndoFails
  BY <1>14, Nothing DEF UndoFails, Return, PCs, StartFailed, States
<1>15. CASE ReleaseOk
  BY <1>15, Nothing DEF ReleaseOk, Return, PCs, handler, States
<1>16. CASE ReleaseFails
  BY <1>16, Nothing DEF ReleaseFails, Return, PCs
<1>17. CASE Record
  BY <1>17, Nothing DEF Record, Return, PCs, Begin
<1>18. CASE RefreshOk
  BY <1>18, Nothing DEF RefreshOk, Return, PCs
<1>19. CASE RefreshFails
  BY <1>19, Nothing DEF RefreshFails, Return, PCs
<1>20. CASE RetryStopping
  <2>1. "none" \in Reasons
    BY DEF Reasons
  <2> QED
    BY <1>20, <2>1, StopMoves DEF RetryStopping, HandlerMoves
<1>21. CASE Tick
  <2>1. seen' \in Views
    <3>1. (cooldown > 0) \in BOOLEAN
      OBVIOUS
    <3> QED
      BY <1>21, <3>1, ViewTyped DEF Tick
  <2> QED
    BY <1>21, <2>1 DEF Tick, PCs
<1>22. CASE TickStatusFails
  BY <1>22, Nothing DEF TickStatusFails, Return, PCs
<1>23. CASE TickDecide
  <2>1. HandlerMoves
    <3>1. ASSUME NEW allowed \in BOOLEAN, TickIdle(allowed)
          PROVE  HandlerMoves
      BY <3>1, ReturnMoves, BeginMoves, WantedTyped DEF TickIdle, Sessions
    <3>2. ASSUME NEW allowed \in BOOLEAN, TickSolar(allowed)
          PROVE  HandlerMoves
      <4>1. "yield_window" \in Reasons
        BY DEF Reasons
      <4> QED
        BY <3>2, <4>1, ReturnMoves, StopMoves, WantedTyped DEF TickSolar, Sessions
    <3>3. CASE TickScheduled
      <4>1. "none" \in Reasons
        BY DEF Reasons
      <4> QED
        BY <3>3, <4>1, ReturnMoves, StopMoves, RefreshMoves DEF TickScheduled
    <3> QED
      BY <1>23, <3>1, <3>2, <3>3 DEF TickDecide
  <2> QED
    BY <1>23, <2>1 DEF TickDecide, HandlerMoves
<1>24. CASE SolarTick
  <2>1. seen' \in Views
    BY <1>24, ViewTyped DEF SolarTick
  <2> QED
    BY <1>24, <2>1 DEF SolarTick, PCs
<1>25. CASE SolarStatusFails
  <2>1. "telemetry" \in Reasons
    BY DEF Reasons
  <2>2. HandlerMoves
    BY <1>25, <2>1, ReturnMoves, StopMoves DEF SolarStatusFails
  <2> QED
    BY <1>25, <2>2 DEF SolarStatusFails, HandlerMoves
<1>26. CASE SolarDecide
  <2>1. HandlerMoves
    <3>1. CASE SolarIdle
      <4>1. "solar_charging" \in Sessions
        BY DEF Sessions
      <4> QED
        BY <3>1, <4>1, ReturnMoves, BeginMoves DEF SolarIdle
    <3>2. ASSUME NEW below \in BOOLEAN, NEW floor \in BOOLEAN, NEW adjust \in BOOLEAN,
                 SolarSession(below, floor, adjust)
          PROVE  HandlerMoves
      <4>1. {"surplus_gone", "battery_full", "yield_window"} \subseteq Reasons
        BY DEF Reasons
      <4>2. CASE Return \/ Refresh
        BY <4>2, ReturnMoves, RefreshMoves
      <4>3. CASE pc' = "refresh" /\ seen' = NoView /\ UNCHANGED <<goal, ended>>
        BY <4>3, Nothing DEF HandlerMoves, PCs
      <4>4. CASE \E r \in {"surplus_gone", "battery_full", "yield_window"} : Stop(r, "none")
        BY <4>1, <4>4, StopMoves
      <4> QED
        BY <3>2, <4>2, <4>3, <4>4 DEF SolarSession
    <3>3. CASE SolarOther
      BY <3>3, ReturnMoves DEF SolarOther
    <3> QED
      BY <1>26, <3>1, <3>2, <3>3 DEF SolarDecide
  <2> QED
    BY <1>26, <2>1 DEF SolarDecide, HandlerMoves
<1>27. CASE Elapse
  BY <1>27 DEF Elapse, handler
<1>28. CASE Replan
  BY <1>28 DEF Replan, handler
<1>29. CASE UNCHANGED vars
  BY <1>29 DEF vars, timers, counts, handler, world
<1>30. QED
  BY <1>1, <1>2, <1>3, <1>4, <1>5, <1>6, <1>7, <1>8, <1>9, <1>10, <1>11, <1>12, <1>13,
     <1>14, <1>15, <1>16, <1>17, <1>18, <1>19, <1>20, <1>21, <1>22, <1>23, <1>24, <1>25,
     <1>26, <1>27, <1>28, <1>29 DEF Next, Act, Call

\* Every step keeps the battery, the clock and the signal typed.
LEMMA WorldStep == TypeOK /\ [Next]_vars => WorldTyped'
<1> SUFFICES ASSUME TypeOK, [Next]_vars PROVE WorldTyped'
  OBVIOUS
<1> USE DEF TypeOK, WorldTyped
<1>1. CASE BootOk
  BY <1>1, TypeAssumption DEF BootOk, Modes
<1>2. CASE BootFails
  BY <1>2 DEF BootFails, Modes
<1>3. CASE Launch
  BY <1>3 DEF Launch
<1>4. CASE Signal
  BY <1>4 DEF Signal
<1>5. CASE Crash
  BY <1>5 DEF Crash, world
<1>6. CASE Shutdown
  BY <1>6 DEF Shutdown, world
<1>7. CASE HaltOk
  BY <1>7 DEF HaltOk, Modes
<1>8. CASE HaltFails
  BY <1>8 DEF HaltFails, Modes
<1>9. CASE CommandOk
  BY <1>9 DEF CommandOk, Modes, ModeOf
<1>10. CASE CommandFails
  BY <1>10 DEF CommandFails, Modes, ModeOf
<1>11. CASE VerifyOk
  BY <1>11 DEF VerifyOk, world
<1>12. CASE VerifyFails
  BY <1>12 DEF VerifyFails, world
<1>13. CASE UndoOk
  BY <1>13 DEF UndoOk, Modes, StartFailed
<1>14. CASE UndoFails
  BY <1>14 DEF UndoFails, Modes, StartFailed
<1>15. CASE ReleaseOk
  BY <1>15 DEF ReleaseOk, Modes
<1>16. CASE ReleaseFails
  BY <1>16 DEF ReleaseFails, Modes
<1>17. CASE Record
  BY <1>17 DEF Record, world
<1>18. CASE RefreshOk
  BY <1>18 DEF RefreshOk, Modes, ModeOf
<1>19. CASE RefreshFails
  BY <1>19 DEF RefreshFails, Modes, ModeOf
<1>20. CASE RetryStopping
  BY <1>20 DEF RetryStopping, world
<1>21. CASE Tick
  BY <1>21 DEF Tick, world
<1>22. CASE TickStatusFails
  BY <1>22 DEF TickStatusFails, world
<1>23. CASE TickDecide
  BY <1>23 DEF TickDecide, world
<1>24. CASE SolarTick
  BY <1>24 DEF SolarTick, world
<1>25. CASE SolarStatusFails
  BY <1>25 DEF SolarStatusFails, world
<1>26. CASE SolarDecide
  BY <1>26 DEF SolarDecide, world
<1>27. CASE Elapse
  BY <1>27, TypeAssumption DEF Elapse
<1>28. CASE Replan
  BY <1>28, TypeAssumption DEF Replan
<1>29. CASE UNCHANGED vars
  BY <1>29 DEF vars, timers, counts, handler, world
<1>30. QED
  BY <1>1, <1>2, <1>3, <1>4, <1>5, <1>6, <1>7, <1>8, <1>9, <1>10, <1>11, <1>12, <1>13,
     <1>14, <1>15, <1>16, <1>17, <1>18, <1>19, <1>20, <1>21, <1>22, <1>23, <1>24, <1>25,
     <1>26, <1>27, <1>28, <1>29 DEF Next, Act, Call

\* Every step keeps the type invariant.
LEMMA TypeStep == TypeOK /\ [Next]_vars => TypeOK'
BY TimersStep, CountsStep, HandlerStep, WorldStep DEF TypeOK

\* The initial states are typed.
LEMMA TypeInit == Init => TypeOK
<1> SUFFICES ASSUME Init PROVE TypeOK
  OBVIOUS
<1>1. TimersTyped
  BY Bounds, Caps DEF Init, Fresh, TimersTyped
<1>2. CountsTyped
  BY Bounds DEF Init, Fresh, CountsTyped
<1>3. HandlerTyped
  BY Nothing DEF Init, Fresh, HandlerTyped, PCs, States, Attempting
<1>4. WorldTyped
  BY TypeAssumption DEF Init, WorldTyped
<1> QED
  BY <1>1, <1>2, <1>3, <1>4 DEF TypeOK

(* Every variable keeps its type, whatever the durations and thresholds    *)
(* are: timers and counters stay within the caps the model gives them, and *)
(* an attempt to start always knows which session it is for.               *)
THEOREM TypeCorrect == Spec => []TypeOK
<1>1. Init => TypeOK
  BY TypeInit
<1>2. TypeOK /\ [Next]_vars => TypeOK'
  BY TypeStep
<1> QED
  BY <1>1, <1>2, PTL DEF Spec

-----------------------------------------------------------------------------
(* The invariant, and what follows from it.                                *)

\* Every step keeps the control places of the states.
LEMMA PlacesStep == IInv /\ [Next]_vars => Places'
<1> SUFFICES ASSUME IInv, [Next]_vars PROVE Places'
  OBVIOUS
<1> USE DEF IInv, TypeOK, HandlerTyped, Places, Running, Attempting, States, Sessions, Scheduled
<1>1. CASE BootOk
  BY <1>1 DEF BootOk, timers, counts, handler, world
<1>2. CASE BootFails
  BY <1>2 DEF BootFails, timers, counts, handler, world
<1>3. CASE Launch
  BY <1>3 DEF Launch, timers, counts, handler, world
<1>4. CASE Signal
  BY <1>4 DEF Signal, timers, counts, handler
<1>5. CASE Crash
  BY <1>5 DEF Crash, Forget
<1>6. CASE Shutdown
  BY <1>6 DEF Shutdown, timers, counts, handler, world
<1>7. CASE HaltOk
  BY <1>7 DEF HaltOk, Forget
<1>8. CASE HaltFails
  BY <1>8 DEF HaltFails, timers, counts, handler, Forget
<1>9. CASE CommandOk
  BY <1>9 DEF CommandOk, timers, counts, handler, world
<1>10. CASE CommandFails
  BY <1>10 DEF CommandFails, timers, counts, handler, world
<1>11. CASE VerifyOk
  BY <1>11 DEF VerifyOk, Return
<1>12. CASE VerifyFails
  BY <1>12 DEF VerifyFails, timers, counts, handler, world
<1>13. CASE UndoOk
  BY <1>13 DEF UndoOk, Return, StartFailed
<1>14. CASE UndoFails
  BY <1>14 DEF UndoFails, Return, StartFailed
<1>15. CASE ReleaseOk
  BY <1>15 DEF ReleaseOk, Return, handler
<1>16. CASE ReleaseFails
  BY <1>16 DEF ReleaseFails, Return, timers
<1>17. CASE Record
  BY <1>17 DEF Record, Return, Begin, Recorded
<1>18. CASE RefreshOk
  BY <1>18 DEF RefreshOk, Return
<1>19. CASE RefreshFails
  BY <1>19 DEF RefreshFails, Return, timers
<1>20. CASE RetryStopping
  BY <1>20 DEF RetryStopping, Return, Stop
<1>21. CASE Tick
  BY <1>21 DEF Tick, timers, counts, handler, world
<1>22. CASE TickStatusFails
  BY <1>22 DEF TickStatusFails, Return, timers
<1>23. CASE TickDecide
  BY <1>23 DEF TickDecide, Return, Stop, Begin, TickIdle, TickSolar, TickScheduled,
     Refresh, Wanted
<1>24. CASE SolarTick
  BY <1>24 DEF SolarTick, timers, counts, handler, world
<1>25. CASE SolarStatusFails
  BY <1>25 DEF SolarStatusFails, Return, Stop
<1>26. CASE SolarDecide
  BY <1>26 DEF SolarDecide, Return, Stop, Begin, SolarIdle, SolarSession, SolarOther,
     Refresh
<1>27. CASE Elapse
  BY <1>27 DEF Elapse, handler, counts
<1>28. CASE Replan
  BY <1>28 DEF Replan, timers, counts, handler
<1>29. CASE UNCHANGED vars
  BY <1>29 DEF vars, timers, counts, handler, world
<1>30. QED
  BY <1>1, <1>2, <1>3, <1>4, <1>5, <1>6, <1>7, <1>8, <1>9, <1>10, <1>11, <1>12, <1>13,
     <1>14, <1>15, <1>16, <1>17, <1>18, <1>19, <1>20, <1>21, <1>22, <1>23, <1>24, <1>25,
     <1>26, <1>27, <1>28, <1>29 DEF Next, Act, Call

\* Every step keeps the modes of the battery that go with the states.
LEMMA OwnersStep == IInv /\ [Next]_vars => Owners'
<1> SUFFICES ASSUME IInv, [Next]_vars PROVE Owners'
  OBVIOUS
<1> USE DEF IInv, TypeOK, HandlerTyped, WorldTyped, Places, Owners, Running, Attempting, States, Sessions, Scheduled, Modes, ModeOf
<1>1. CASE BootOk
  BY <1>1 DEF BootOk, timers, counts, handler, world
<1>2. CASE BootFails
  BY <1>2 DEF BootFails, timers, counts, handler, world
<1>3. CASE Launch
  BY <1>3 DEF Launch, timers, counts, handler, world
<1>4. CASE Signal
  BY <1>4 DEF Signal, timers, counts, handler
<1>5. CASE Crash
  BY <1>5 DEF Crash, world, Forget
<1>6. CASE Shutdown
  BY <1>6 DEF Shutdown, timers, counts, handler, world
<1>7. CASE HaltOk
  BY <1>7 DEF HaltOk, Forget
<1>8. CASE HaltFails
  BY <1>8 DEF HaltFails, timers, counts, handler, Forget
<1>9. CASE CommandOk
  BY <1>9 DEF CommandOk, timers, counts, handler, world
<1>10. CASE CommandFails
  BY <1>10 DEF CommandFails, timers, counts, handler, world
<1>11. CASE VerifyOk
  BY <1>11 DEF VerifyOk, Return, world
<1>12. CASE VerifyFails
  BY <1>12 DEF VerifyFails, timers, counts, handler, world
<1>13. CASE UndoOk
  BY <1>13 DEF UndoOk, Return, StartFailed
<1>14. CASE UndoFails
  BY <1>14 DEF UndoFails, Return, StartFailed
<1>15. CASE ReleaseOk
  BY <1>15 DEF ReleaseOk, Return, handler
<1>16. CASE ReleaseFails
  BY <1>16 DEF ReleaseFails, Return, timers
<1>17. CASE Record
  BY <1>17 DEF Record, Return, Begin, Recorded, world, world
<1>18. CASE RefreshOk
  BY <1>18 DEF RefreshOk, Return
<1>19. CASE RefreshFails
  BY <1>19 DEF RefreshFails, Return, timers
<1>20. CASE RetryStopping
  BY <1>20 DEF RetryStopping, Return, Stop, world
<1>21. CASE Tick
  BY <1>21 DEF Tick, timers, counts, handler, world
<1>22. CASE TickStatusFails
  BY <1>22 DEF TickStatusFails, Return, timers, world
<1>23. CASE TickDecide
  BY <1>23 DEF TickDecide, Return, Stop, Begin, TickIdle, TickSolar, TickScheduled,
     Refresh, world, world
<1>24. CASE SolarTick
  BY <1>24 DEF SolarTick, timers, counts, handler, world
<1>25. CASE SolarStatusFails
  BY <1>25 DEF SolarStatusFails, Return, Stop, world
<1>26. CASE SolarDecide
  BY <1>26 DEF SolarDecide, Return, Stop, Begin, SolarIdle, SolarSession, SolarOther,
     Refresh, world, world
<1>27. CASE Elapse
  BY <1>27 DEF Elapse, handler, counts
<1>28. CASE Replan
  BY <1>28 DEF Replan, timers, counts, handler
<1>29. CASE UNCHANGED vars
  BY <1>29 DEF vars, timers, counts, handler, world
<1>30. QED
  BY <1>1, <1>2, <1>3, <1>4, <1>5, <1>6, <1>7, <1>8, <1>9, <1>10, <1>11, <1>12, <1>13,
     <1>14, <1>15, <1>16, <1>17, <1>18, <1>19, <1>20, <1>21, <1>22, <1>23, <1>24, <1>25,
     <1>26, <1>27, <1>28, <1>29 DEF Next, Act, Call

\* Every step keeps the timers at rest that must be.
LEMMA RestsStep == IInv /\ [Next]_vars => Rests'
<1> SUFFICES ASSUME IInv, [Next]_vars PROVE Rests'
  OBVIOUS
<1> USE DEF IInv, TypeOK, HandlerTyped, TimersTyped, Places, Rests, Attempting, States, Sessions, Scheduled
<1>1. CASE BootOk
  BY <1>1 DEF BootOk, timers, counts, handler, world
<1>2. CASE BootFails
  BY <1>2 DEF BootFails, timers, counts, handler, world
<1>3. CASE Launch
  BY <1>3 DEF Launch, timers, counts, handler, world
<1>4. CASE Signal
  BY <1>4 DEF Signal, timers, counts, handler
<1>5. CASE Crash
  BY <1>5 DEF Crash, Forget
<1>6. CASE Shutdown
  BY <1>6 DEF Shutdown, timers, counts, handler, world
<1>7. CASE HaltOk
  BY <1>7 DEF HaltOk, Forget
<1>8. CASE HaltFails
  BY <1>8 DEF HaltFails, timers, counts, handler, Forget
<1>9. CASE CommandOk
  BY <1>9 DEF CommandOk, timers, counts, handler, world
<1>10. CASE CommandFails
  BY <1>10 DEF CommandFails, timers, counts, handler, world
<1>11. CASE VerifyOk
  BY <1>11 DEF VerifyOk, Return
<1>12. CASE VerifyFails
  BY <1>12 DEF VerifyFails, timers, counts, handler, world
<1>13. CASE UndoOk
  BY <1>13 DEF UndoOk, Return, StartFailed
<1>14. CASE UndoFails
  BY <1>14 DEF UndoFails, Return, StartFailed
<1>15. CASE ReleaseOk
  BY <1>15 DEF ReleaseOk, Return, handler
<1>16. CASE ReleaseFails
  BY <1>16 DEF ReleaseFails, Return, timers
<1>17. CASE Record
  BY <1>17 DEF Record, Return, Begin, Recorded
<1>18. CASE RefreshOk
  BY <1>18 DEF RefreshOk, Return
<1>19. CASE RefreshFails
  BY <1>19 DEF RefreshFails, Return, timers
<1>20. CASE RetryStopping
  BY <1>20 DEF RetryStopping, Return, Stop
<1>21. CASE Tick
  <2>1. ~seen'.cooling => cooldown = 0
    <3>1. seen'.cooling = (cooldown > 0)
      BY <1>21, Zenon DEF Tick, NoView
    <3>2. ~(cooldown > 0) => cooldown = 0
      BY Bounds
    <3> HIDE DEF TimersTyped, Rests, Places
    <3> QED
      BY <3>1, <3>2, Zenon
  <2> QED
    BY <1>21, <2>1 DEF Tick, timers, counts
<1>22. CASE TickStatusFails
  BY <1>22 DEF TickStatusFails, Return, timers
<1>23. CASE TickDecide
  BY <1>23 DEF TickDecide, Return, Stop, Begin, TickIdle, TickSolar, TickScheduled,
     Refresh, Wanted
<1>24. CASE SolarTick
  BY <1>24 DEF SolarTick, timers, counts, handler, world, NoView
<1>25. CASE SolarStatusFails
  BY <1>25 DEF SolarStatusFails, Return, Stop
<1>26. CASE SolarDecide
  BY <1>26 DEF SolarDecide, Return, Stop, Begin, SolarIdle, SolarSession, SolarOther,
     Refresh
<1>27. CASE Elapse
  BY <1>27 DEF Elapse, handler, counts, Down
<1>28. CASE Replan
  BY <1>28 DEF Replan, timers, counts, handler
<1>29. CASE UNCHANGED vars
  BY <1>29 DEF vars, timers, counts, handler, world
<1>30. QED
  BY <1>1, <1>2, <1>3, <1>4, <1>5, <1>6, <1>7, <1>8, <1>9, <1>10, <1>11, <1>12, <1>13,
     <1>14, <1>15, <1>16, <1>17, <1>18, <1>19, <1>20, <1>21, <1>22, <1>23, <1>24, <1>25,
     <1>26, <1>27, <1>28, <1>29 DEF Next, Act, Call

\* Every step keeps the ledger balanced.
LEMMA LedgerStep == IInv /\ [Next]_vars => LedgerBalanced'
<1> SUFFICES ASSUME IInv, [Next]_vars PROVE LedgerBalanced'
  OBVIOUS
<1> USE DEF IInv, TypeOK, HandlerTyped, CountsTyped, Places, LedgerBalanced, Attempting, Running, States, Sessions, Scheduled
<1>1. CASE BootOk
  BY <1>1 DEF BootOk, timers, counts, handler, world
<1>2. CASE BootFails
  BY <1>2 DEF BootFails, timers, counts, handler, world
<1>3. CASE Launch
  BY <1>3 DEF Launch, timers, counts, handler, world
<1>4. CASE Signal
  BY <1>4 DEF Signal, timers, counts, handler
<1>5. CASE Crash
  BY <1>5 DEF Crash, Forget
<1>6. CASE Shutdown
  BY <1>6 DEF Shutdown, timers, counts, handler, world
<1>7. CASE HaltOk
  BY <1>7 DEF HaltOk, Forget
<1>8. CASE HaltFails
  BY <1>8 DEF HaltFails, timers, counts, handler, Forget
<1>9. CASE CommandOk
  BY <1>9 DEF CommandOk, timers, counts, handler, world
<1>10. CASE CommandFails
  BY <1>10 DEF CommandFails, timers, counts, handler, world
<1>11. CASE VerifyOk
  BY <1>11 DEF VerifyOk, Return
<1>12. CASE VerifyFails
  BY <1>12 DEF VerifyFails, timers, counts, handler, world
<1>13. CASE UndoOk
  BY <1>13 DEF UndoOk, Return, StartFailed
<1>14. CASE UndoFails
  BY <1>14 DEF UndoFails, Return, StartFailed
<1>15. CASE ReleaseOk
  BY <1>15 DEF ReleaseOk, Return, handler
<1>16. CASE ReleaseFails
  BY <1>16 DEF ReleaseFails, Return, timers
<1>17. CASE Record
  BY <1>17 DEF Record, Return, Begin, Recorded
<1>18. CASE RefreshOk
  BY <1>18 DEF RefreshOk, Return
<1>19. CASE RefreshFails
  BY <1>19 DEF RefreshFails, Return, timers
<1>20. CASE RetryStopping
  BY <1>20 DEF RetryStopping, Return, Stop
<1>21. CASE Tick
  BY <1>21 DEF Tick, timers, counts, handler, world
<1>22. CASE TickStatusFails
  BY <1>22 DEF TickStatusFails, Return, timers
<1>23. CASE TickDecide
  BY <1>23 DEF TickDecide, Return, Stop, Begin, TickIdle, TickSolar, TickScheduled,
     Refresh
<1>24. CASE SolarTick
  BY <1>24 DEF SolarTick, timers, counts, handler, world
<1>25. CASE SolarStatusFails
  BY <1>25 DEF SolarStatusFails, Return, Stop
<1>26. CASE SolarDecide
  BY <1>26 DEF SolarDecide, Return, Stop, Begin, SolarIdle, SolarSession, SolarOther,
     Refresh
<1>27. CASE Elapse
  BY <1>27 DEF Elapse, handler, counts
<1>28. CASE Replan
  BY <1>28 DEF Replan, timers, counts, handler
<1>29. CASE UNCHANGED vars
  BY <1>29 DEF vars, timers, counts, handler, world
<1>30. QED
  BY <1>1, <1>2, <1>3, <1>4, <1>5, <1>6, <1>7, <1>8, <1>9, <1>10, <1>11, <1>12, <1>13,
     <1>14, <1>15, <1>16, <1>17, <1>18, <1>19, <1>20, <1>21, <1>22, <1>23, <1>24, <1>25,
     <1>26, <1>27, <1>28, <1>29 DEF Next, Act, Call

\* The initial states satisfy the inductive invariant.
LEMMA InvInit == Init => IInv
<1> SUFFICES ASSUME Init PROVE IInv
  OBVIOUS
<1>1. TypeOK
  BY TypeInit
<1>2. Places /\ Owners /\ Rests /\ LedgerBalanced
  BY DEF Init, Fresh, Places, Owners, Rests, LedgerBalanced, Running, Attempting,
     Sessions, Scheduled
<1> QED
  BY <1>1, <1>2 DEF IInv

\* Every step keeps the inductive invariant.
LEMMA InvStep == IInv /\ [Next]_vars => IInv'
BY TypeStep, PlacesStep, OwnersStep, RestsStep, LedgerStep DEF IInv

\* The inductive invariant: types, places, owners, rests and the ledger.
THEOREM Invariance == Spec => []IInv
<1>1. Init => IInv
  BY InvInit
<1>2. IInv /\ [Next]_vars => IInv'
  BY InvStep
<1> QED
  BY <1>1, <1>2, PTL DEF Spec

(* A forced battery is always in the hands of a session, of an attempt or  *)
(* of the stopping state, in their direction: whatever commands fail, are  *)
(* obeyed without an answer, or are cut short by the shutdown signal.      *)
THEOREM ForceOwned == Spec => []ForceIsOwned
<1>1. IInv => ForceIsOwned
  BY DEF IInv, TypeOK, HandlerTyped, WorldTyped, Places, Owners, ForceIsOwned, Attempting,
     States, Modes
<1> QED
  BY <1>1, Invariance, PTL

(* Every session that begins is recorded once, and before the next begins. *)
THEOREM LedgerIsBalanced == Spec => []LedgerBalanced
<1>1. IInv => LedgerBalanced
  BY DEF IInv
<1> QED
  BY <1>1, Invariance, PTL

\* Every step keeps the surplus counter at zero during the pause.
LEMMA SurplusStep == TypeOK /\ SurplusIsFresh /\ [Next]_vars => SurplusIsFresh'
<1> SUFFICES ASSUME TypeOK, SurplusIsFresh, [Next]_vars PROVE SurplusIsFresh'
  OBVIOUS
<1> USE DEF TypeOK, TimersTyped, SurplusIsFresh, timers, counts
<1>1. CASE BootOk
  BY <1>1 DEF BootOk
<1>2. CASE BootFails
  BY <1>2 DEF BootFails
<1>3. CASE Launch
  BY <1>3 DEF Launch
<1>4. CASE Signal
  BY <1>4 DEF Signal
<1>5. CASE Crash
  BY <1>5 DEF Crash, Forget
<1>6. CASE Shutdown
  BY <1>6 DEF Shutdown
<1>7. CASE HaltOk
  BY <1>7 DEF HaltOk, Forget
<1>8. CASE HaltFails
  BY <1>8 DEF HaltFails, Forget
<1>9. CASE CommandOk
  BY <1>9 DEF CommandOk
<1>10. CASE CommandFails
  BY <1>10 DEF CommandFails
<1>11. CASE VerifyOk
  BY <1>11 DEF VerifyOk, Return
<1>12. CASE VerifyFails
  BY <1>12 DEF VerifyFails
<1>13. CASE UndoOk
  BY <1>13 DEF UndoOk, Return, StartFailed
<1>14. CASE UndoFails
  BY <1>14 DEF UndoFails, Return, StartFailed
<1>15. CASE ReleaseOk
  BY <1>15 DEF ReleaseOk, Return
<1>16. CASE ReleaseFails
  BY <1>16 DEF ReleaseFails, Return
<1>17. CASE Record
  BY <1>17 DEF Record, Recorded
<1>18. CASE RefreshOk
  BY <1>18 DEF RefreshOk, Return
<1>19. CASE RefreshFails
  BY <1>19 DEF RefreshFails, Return
<1>20. CASE RetryStopping
  BY <1>20 DEF RetryStopping, Return, Stop
<1>21. CASE Tick
  BY <1>21 DEF Tick
<1>22. CASE TickStatusFails
  BY <1>22 DEF TickStatusFails, Return
<1>23. CASE TickDecide
  BY <1>23 DEF TickDecide, Return, Stop, Begin, TickIdle, TickSolar, TickScheduled,
     Refresh, Wanted
<1>24. CASE SolarTick
  BY <1>24 DEF SolarTick, NoView
<1>25. CASE SolarStatusFails
  BY <1>25 DEF SolarStatusFails, Return, Stop
<1>26. CASE SolarDecide
  BY <1>26 DEF SolarDecide, Return, Stop, Begin, SolarIdle, SolarSession, SolarOther,
     Refresh
<1>27. CASE Elapse
  BY <1>27, Bounds DEF Elapse, Down
<1>28. CASE Replan
  BY <1>28 DEF Replan
<1>29. CASE UNCHANGED vars
  BY <1>29 DEF vars
<1>30. QED
  BY <1>1, <1>2, <1>3, <1>4, <1>5, <1>6, <1>7, <1>8, <1>9, <1>10, <1>11, <1>12, <1>13,
     <1>14, <1>15, <1>16, <1>17, <1>18, <1>19, <1>20, <1>21, <1>22, <1>23, <1>24, <1>25,
     <1>26, <1>27, <1>28, <1>29 DEF Next, Act, Call

(* A solar session qualifies with readings from after the pause only: the  *)
(* surplus counter is zero while solarCooldown runs (service.go 543-545).  *)
THEOREM FreshQualification == Spec => []SurplusIsFresh
<1>1. Init => SurplusIsFresh
  BY DEF Init, Fresh, SurplusIsFresh
<1>2. TypeOK /\ SurplusIsFresh /\ [Next]_vars => SurplusIsFresh'
  BY SurplusStep
<1> QED
  BY <1>1, <1>2, TypeCorrect, PTL DEF Spec

\* From the invariant, a step that commands a start is taken in no pause.
LEMMA CooldownStep == IInv /\ [Next]_vars => (Commands => cooldown = 0)
<1> SUFFICES ASSUME IInv, [Next]_vars PROVE (Commands => cooldown = 0)
  OBVIOUS
<1> USE DEF Commands, IInv, Places, Rests
<1>1. CASE BootOk
  BY <1>1 DEF BootOk, timers, counts, handler, world
<1>2. CASE BootFails
  BY <1>2 DEF BootFails, timers, counts, handler, world
<1>3. CASE Launch
  BY <1>3 DEF Launch, timers, counts, handler, world
<1>4. CASE Signal
  BY <1>4 DEF Signal, timers, counts, handler
<1>5. CASE Crash
  BY <1>5 DEF Crash, Forget
<1>6. CASE Shutdown
  BY <1>6 DEF Shutdown, timers, counts, handler, world
<1>7. CASE HaltOk
  BY <1>7 DEF HaltOk, Forget
<1>8. CASE HaltFails
  BY <1>8 DEF HaltFails, timers, counts, handler, Forget
<1>9. CASE CommandOk
  BY <1>9 DEF CommandOk, timers, counts, handler, world
<1>10. CASE CommandFails
  BY <1>10 DEF CommandFails, timers, counts, handler, world
<1>11. CASE VerifyOk
  BY <1>11 DEF VerifyOk, Return
<1>12. CASE VerifyFails
  BY <1>12 DEF VerifyFails, timers, counts, handler, world
<1>13. CASE UndoOk
  BY <1>13 DEF UndoOk, Return, StartFailed
<1>14. CASE UndoFails
  BY <1>14 DEF UndoFails, Return, StartFailed
<1>15. CASE ReleaseOk
  BY <1>15 DEF ReleaseOk, Return, handler
<1>16. CASE ReleaseFails
  BY <1>16 DEF ReleaseFails, Return, timers
<1>17. CASE Record
  BY <1>17 DEF Record, Return, Begin, Recorded
<1>18. CASE RefreshOk
  BY <1>18 DEF RefreshOk, Return
<1>19. CASE RefreshFails
  BY <1>19 DEF RefreshFails, Return, timers
<1>20. CASE RetryStopping
  BY <1>20 DEF RetryStopping, Return, Stop
<1>21. CASE Tick
  BY <1>21 DEF Tick, timers, counts, handler, world
<1>22. CASE TickStatusFails
  BY <1>22 DEF TickStatusFails, Return, timers
<1>23. CASE TickDecide
  BY <1>23 DEF TickDecide, Return, Stop, Begin, TickIdle, TickSolar, TickScheduled,
     Refresh, Wanted
<1>24. CASE SolarTick
  BY <1>24 DEF SolarTick, timers, counts, handler, world
<1>25. CASE SolarStatusFails
  BY <1>25 DEF SolarStatusFails, Return, Stop
<1>26. CASE SolarDecide
  BY <1>26 DEF SolarDecide, Return, Stop, Begin, SolarIdle, SolarSession, SolarOther,
     Refresh
<1>27. CASE Elapse
  BY <1>27 DEF Elapse, handler, counts
<1>28. CASE Replan
  BY <1>28 DEF Replan, timers, counts, handler
<1>29. CASE UNCHANGED vars
  BY <1>29 DEF vars, timers, counts, handler, world
<1>30. QED
  BY <1>1, <1>2, <1>3, <1>4, <1>5, <1>6, <1>7, <1>8, <1>9, <1>10, <1>11, <1>12, <1>13,
     <1>14, <1>15, <1>16, <1>17, <1>18, <1>19, <1>20, <1>21, <1>22, <1>23, <1>24, <1>25,
     <1>26, <1>27, <1>28, <1>29 DEF Next, Act, Call

(* No session is started before the pause after a failed start is over.    *)
THEOREM CooldownKept == Spec => NoStartInCooldown
<1>1. IInv /\ [Next]_vars => [Commands => cooldown = 0]_vars
  BY CooldownStep
<1> QED
  BY <1>1, Invariance, PTL DEF Spec, NoStartInCooldown

\* From the invariant, a step that begins a session begins it fresh.
LEMMA FreshStep == IInv /\ [Next]_vars => BeginsFresh
<1> SUFFICES ASSUME IInv, [Next]_vars PROVE BeginsFresh
  OBVIOUS
<1> USE DEF BeginsFresh, IInv, Places, Rests, Attempting, Sessions, Scheduled
<1>1. CASE BootOk
  BY <1>1 DEF BootOk, timers, counts, handler, world
<1>2. CASE BootFails
  BY <1>2 DEF BootFails, timers, counts, handler, world
<1>3. CASE Launch
  BY <1>3 DEF Launch, timers, counts, handler, world
<1>4. CASE Signal
  BY <1>4 DEF Signal, timers, counts, handler
<1>5. CASE Crash
  BY <1>5 DEF Crash, Forget
<1>6. CASE Shutdown
  BY <1>6 DEF Shutdown, timers, counts, handler, world
<1>7. CASE HaltOk
  BY <1>7 DEF HaltOk, Forget
<1>8. CASE HaltFails
  BY <1>8 DEF HaltFails, timers, counts, handler, Forget
<1>9. CASE CommandOk
  BY <1>9 DEF CommandOk, timers, counts, handler, world
<1>10. CASE CommandFails
  BY <1>10 DEF CommandFails, timers, counts, handler, world
<1>11. CASE VerifyOk
  BY <1>11 DEF VerifyOk, Return
<1>12. CASE VerifyFails
  BY <1>12 DEF VerifyFails, timers, counts, handler, world
<1>13. CASE UndoOk
  BY <1>13 DEF UndoOk, Return, StartFailed
<1>14. CASE UndoFails
  BY <1>14 DEF UndoFails, Return, StartFailed
<1>15. CASE ReleaseOk
  BY <1>15 DEF ReleaseOk, Return, handler
<1>16. CASE ReleaseFails
  BY <1>16 DEF ReleaseFails, Return, timers
<1>17. CASE Record
  BY <1>17 DEF Record, Return, Begin, Recorded
<1>18. CASE RefreshOk
  BY <1>18 DEF RefreshOk, Return
<1>19. CASE RefreshFails
  BY <1>19 DEF RefreshFails, Return, timers
<1>20. CASE RetryStopping
  BY <1>20 DEF RetryStopping, Return, Stop
<1>21. CASE Tick
  BY <1>21 DEF Tick, timers, counts, handler, world
<1>22. CASE TickStatusFails
  BY <1>22 DEF TickStatusFails, Return, timers
<1>23. CASE TickDecide
  BY <1>23 DEF TickDecide, Return, Stop, Begin, TickIdle, TickSolar, TickScheduled,
     Refresh, Wanted
<1>24. CASE SolarTick
  BY <1>24 DEF SolarTick, timers, counts, handler, world
<1>25. CASE SolarStatusFails
  BY <1>25 DEF SolarStatusFails, Return, Stop
<1>26. CASE SolarDecide
  BY <1>26 DEF SolarDecide, Return, Stop, Begin, SolarIdle, SolarSession, SolarOther,
     Refresh
<1>27. CASE Elapse
  BY <1>27 DEF Elapse, handler, counts
<1>28. CASE Replan
  BY <1>28 DEF Replan, timers, counts, handler
<1>29. CASE UNCHANGED vars
  BY <1>29 DEF vars, timers, counts, handler, world
<1>30. QED
  BY <1>1, <1>2, <1>3, <1>4, <1>5, <1>6, <1>7, <1>8, <1>9, <1>10, <1>11, <1>12, <1>13,
     <1>14, <1>15, <1>16, <1>17, <1>18, <1>19, <1>20, <1>21, <1>22, <1>23, <1>24, <1>25,
     <1>26, <1>27, <1>28, <1>29 DEF Next, Act, Call

(* A session starts with nothing left of an earlier one.                   *)
THEOREM FreshStarts == Spec => SessionStartsFresh
<1>1. IInv /\ [Next]_vars => [BeginsFresh]_vars
  BY FreshStep
<1> QED
  BY <1>1, Invariance, PTL DEF Spec, SessionStartsFresh

(* Both, as the run states them.                                           *)
THEOREM CleanStarts == Spec => StartsClean
  BY CooldownKept, FreshStarts DEF StartsClean

\* Between states of the invariant, every step is one of the promise or none.
LEMMA PromiseStep == IInv /\ IInv' /\ [Next]_vars => [Promise!Next]_(Promise!vars)
<1> SUFFICES ASSUME IInv /\ IInv', [Next]_vars PROVE [Promise!Next]_(Promise!vars)
  OBVIOUS
<1> USE DEF IInv, TypeOK, HandlerTyped, WorldTyped, Places, Owners, Phase, Counted, Running, Attempting, States, Sessions, Scheduled, Modes, ModeOf, Promise!Next, Promise!Modes
<1>1. CASE BootOk
  BY <1>1 DEF BootOk, timers, counts, handler, world, Promise!Start, Promise!vars
<1>2. CASE BootFails
  BY <1>2 DEF BootFails, timers, counts, handler, world, Promise!Reset, Promise!vars
<1>3. CASE Launch
  BY <1>3 DEF Launch, timers, counts, handler, world, Promise!vars
<1>4. CASE Signal
  BY <1>4 DEF Signal, timers, counts, handler, Promise!vars
<1>5. CASE Crash
  BY <1>5 DEF Crash, Forget, world, Promise!Die, Promise!vars
<1>6. CASE Shutdown
  BY <1>6 DEF Shutdown, timers, counts, handler, world, Promise!vars
<1>7. CASE HaltOk
  BY <1>7 DEF HaltOk, Forget, Promise!Leave
<1>8. CASE HaltFails
  <2>1. CASE UNCHANGED <<state, timers, counts, pc, handler, open>>
    BY <1>8, <2>1 DEF HaltFails, timers, counts, handler, Promise!Drive, Promise!vars
  <2>2. CASE Forget /\ pc' = "down" /\ mode' = mode
    BY <1>8, <2>2 DEF HaltFails, Forget, Promise!Die
  <2>3. CASE Forget /\ pc' = "down" /\ mode' = "stop"
    BY <1>8, <2>3 DEF HaltFails, Forget, Promise!Leave
  <2> QED
    BY <1>8, <2>1, <2>2, <2>3 DEF HaltFails
<1>9. CASE CommandOk
  BY <1>9 DEF CommandOk, timers, counts, handler, world, Promise!Drive, Promise!vars
<1>10. CASE CommandFails
  BY <1>10 DEF CommandFails, timers, counts, handler, world, Promise!Drive, Promise!vars
<1>11. CASE VerifyOk
  BY <1>11 DEF VerifyOk, Return, world, Promise!Confirm
<1>12. CASE VerifyFails
  BY <1>12 DEF VerifyFails, timers, counts, handler, world, Promise!vars
<1>13. CASE UndoOk
  BY <1>13 DEF UndoOk, Return, StartFailed, Promise!Abandon
<1>14. CASE UndoFails
  BY <1>14 DEF UndoFails, Return, StartFailed, Promise!Drive, Promise!vars
<1>15. CASE ReleaseOk
  BY <1>15 DEF ReleaseOk, Return, handler, Promise!Settle, Promise!Abandon
<1>16. CASE ReleaseFails
  BY <1>16 DEF ReleaseFails, Return, timers, Promise!Drive, Promise!vars
<1>17. CASE Record
  BY <1>17 DEF Record, Return, Begin, Recorded, world, Promise!Record
<1>18. CASE RefreshOk
  BY <1>18 DEF RefreshOk, Return, Promise!Drive, Promise!vars
<1>19. CASE RefreshFails
  BY <1>19 DEF RefreshFails, Return, timers, Promise!Drive, Promise!vars
<1>20. CASE RetryStopping
  BY <1>20 DEF RetryStopping, Return, Stop, world, Promise!vars
<1>21. CASE Tick
  BY <1>21 DEF Tick, timers, counts, handler, world, Promise!vars
<1>22. CASE TickStatusFails
  BY <1>22 DEF TickStatusFails, Return, timers, world, Promise!vars
<1>23. CASE TickDecide
  BY <1>23 DEF TickDecide, Return, Stop, Begin, TickIdle, TickSolar, TickScheduled,
     Refresh, Wanted, world, Promise!Engage, Promise!vars
<1>24. CASE SolarTick
  BY <1>24 DEF SolarTick, timers, counts, handler, world, Promise!vars
<1>25. CASE SolarStatusFails
  BY <1>25 DEF SolarStatusFails, Return, Stop, world, Promise!vars
<1>26. CASE SolarDecide
  BY <1>26 DEF SolarDecide, Return, Stop, Begin, SolarIdle, SolarSession, SolarOther,
     Refresh, world, Promise!Engage, Promise!vars
<1>27. CASE Elapse
  BY <1>27 DEF Elapse, handler, counts, Promise!vars
<1>28. CASE Replan
  BY <1>28 DEF Replan, timers, counts, handler, Promise!vars
<1>29. CASE UNCHANGED vars
  BY <1>29 DEF Promise!vars, vars, timers, counts, handler, world
<1>30. QED
  BY <1>1, <1>2, <1>3, <1>4, <1>5, <1>6, <1>7, <1>8, <1>9, <1>10, <1>11, <1>12, <1>13,
     <1>14, <1>15, <1>16, <1>17, <1>18, <1>19, <1>20, <1>21, <1>22, <1>23, <1>24, <1>25,
     <1>26, <1>27, <1>28, <1>29 DEF Next, Act, Call

(* The engine implements ForcedOperation: every step of the loop, of the   *)
(* clock, of a signal or of a crash is a step of the promise, or none.     *)
THEOREM PromiseKept == Spec => KeepsPromise
<1>1. Init => Promise!Init
  BY DEF Init, Fresh, Promise!Init, Promise!Modes, Modes, Phase, Counted, Running,
     Sessions, Scheduled
<1>2. IInv /\ IInv' /\ [Next]_vars => [Promise!Next]_(Promise!vars)
  BY PromiseStep
<1> QED
  BY <1>1, <1>2, Invariance, PTL DEF Spec, KeepsPromise, Promise!Spec

-----------------------------------------------------------------------------
(* The rests between solar sessions: the counter and the deadline of the   *)
(* code against the memory of what happened.                               *)

Kinds == {"telemetry", "marginal", "other"}

\* solarConsecutiveShortSessions is the number of marginal ends in a row.
Streak ==
  /\ shortSessions <= Len(recent)
  /\ \A i \in 1..shortSessions : recent[i] = "marginal"
  /\ shortSessions < Len(recent) => recent[shortSessions + 1] # "marginal"

\* A process that is down has forgotten everything, one that starts knows nothing.
Remembered ==
  /\ recent \in Seq(Kinds) /\ Len(recent) <= BackoffCount
  /\ sinceEnd \in 0..SolarCap
  /\ pc \in {"down", "exited"} => shortSessions = 0
  /\ pc = "boot" => recent = <<>>
  /\ pc \notin {"down", "exited"} => Streak /\ sinceEnd + solarCooldown >= RestDue

HInv == IInv /\ Remembered

-----------------------------------------------------------------------------
(* The memory adds nothing to what the engine does.                        *)

(***************************************************************************)
(* The memory adds nothing to what the engine does: whatever holds of      *)
(* every behaviour of the engine holds with the memory as well.            *)
(***************************************************************************)
THEOREM HistoryIsEngine == HSpec => Spec
<1>1. HInit => Init
  BY DEF HInit
<1>2. [HNext]_<<vars, history>> => [Next]_vars
  BY DEF HNext, Next
<1> QED
  BY <1>1, <1>2, PTL DEF HSpec, Spec

-----------------------------------------------------------------------------
\* One more end at the head of the memory.
LEMMA Longer ==
  ASSUME NEW kind \in Kinds, NEW row \in Seq(Kinds), NEW max \in Nat \ {0}, Len(row) <= max
  PROVE  LET longer == SubSeq(<<kind>> \o row, 1, Least(Len(row) + 1, max))
         IN  /\ longer \in Seq(Kinds) /\ Len(longer) = Least(Len(row) + 1, max)
             /\ longer[1] = kind
             /\ \A i \in 2..Len(longer) : longer[i] = row[i - 1]
<1> DEFINE full == <<kind>> \o row
           n == Least(Len(row) + 1, max)
           longer == SubSeq(full, 1, n)
<1>1. Len(row) \in Nat /\ n \in Nat /\ 1 <= n /\ n <= Len(row) + 1
  <2>1. Len(row) \in Nat
    BY LenProperties
  <2> QED
    BY <2>1 DEF Least
<1>2. <<kind>> \in Seq(Kinds) /\ Len(<<kind>>) = 1 /\ <<kind>>[1] = kind
  OBVIOUS
<1>3. /\ full \in Seq(Kinds) /\ Len(full) = Len(row) + 1
      /\ \A i \in 1..(Len(row) + 1) : full[i] = IF i <= 1 THEN kind ELSE row[i - 1]
  <2>1. /\ full \in Seq(Kinds) /\ Len(full) = 1 + Len(row)
        /\ \A i \in 1..(1 + Len(row)) :
             full[i] = IF i <= 1 THEN <<kind>>[i] ELSE row[i - 1]
    BY <1>2, ConcatProperties
  <2> QED
    BY <1>1, <1>2, <2>1
<1>4. \A i \in 1..n : full[i] \in Kinds
  BY <1>1, <1>3, ElementOfSeq
<1>5. /\ longer \in Seq(Kinds) /\ Len(longer) = n
      /\ \A i \in 1..n : longer[i] = full[i]
  <2> HIDE DEF full, n
  <2>1. /\ SubSeq(full, 1, n) \in Seq(Kinds)
        /\ Len(SubSeq(full, 1, n)) = IF 1 <= n THEN n - 1 + 1 ELSE 0
        /\ \A i \in 1..(n - 1 + 1) : SubSeq(full, 1, n)[i] = full[1 + i - 1]
    BY <1>1, <1>4, SubSeqProperties
  <2> QED
    BY <1>1, <2>1
<1>6. longer[1] = kind /\ \A i \in 2..n : longer[i] = row[i - 1]
  <2> HIDE DEF full, n, longer
  <2> QED
    BY <1>1, <1>3, <1>5
<1> QED
  BY <1>5, <1>6

\* The rest that is due is one of the four, or none.
LEMMA RestBounds ==
  ASSUME recent \in Seq(Kinds)
  PROVE  RestDue \in 0..SolarCap
BY Caps DEF RestDue

\* What a step of the engine does to the counter and the deadline.
Frame ==
  \/ /\ SolarEnd
     /\ shortSessions' = ShortSessions /\ solarCooldown' = SolarPause
  \/ /\ ~SolarEnd /\ pc' \in {"down", "exited"} /\ shortSessions' = 0
  \/ /\ ~SolarEnd /\ UNCHANGED <<shortSessions, solarCooldown>>
     /\ pc' \in {"down", "exited", "boot"} => pc \in {"down", "exited", "boot"}
     /\ pc \in {"down", "exited"} => pc' \in {pc, "boot"}

LEMMA ActFrame == TypeOK /\ Act => Frame
<1> SUFFICES ASSUME TypeOK, Act PROVE Frame
  OBVIOUS
<1> USE DEF Frame, SolarEnd
<1>1. CASE BootOk
  BY <1>1 DEF BootOk, timers, counts, handler
<1>2. CASE BootFails
  BY <1>2 DEF BootFails, timers, counts, handler
<1>3. CASE Launch
  BY <1>3 DEF Launch, timers, counts, handler
<1>4. CASE Signal
  BY <1>4 DEF Signal, timers, counts, handler
<1>5. CASE Crash
  BY <1>5 DEF Crash, Forget
<1>6. CASE Shutdown
  BY <1>6 DEF Shutdown, timers, counts, handler
<1>7. CASE HaltOk
  BY <1>7 DEF HaltOk, Forget
<1>8. CASE HaltFails
  BY <1>8 DEF HaltFails, timers, counts, handler, Forget
<1>9. CASE CommandOk
  BY <1>9 DEF CommandOk, timers, counts, handler
<1>10. CASE CommandFails
  BY <1>10 DEF CommandFails, timers, counts, handler
<1>11. CASE VerifyOk
  BY <1>11 DEF VerifyOk, Return
<1>12. CASE VerifyFails
  BY <1>12 DEF VerifyFails, timers, counts, handler
<1>13. CASE UndoOk
  BY <1>13 DEF UndoOk, Return, StartFailed
<1>14. CASE UndoFails
  BY <1>14 DEF UndoFails, Return, StartFailed
<1>15. CASE ReleaseOk
  BY <1>15 DEF ReleaseOk, Return, counts, handler
<1>16. CASE ReleaseFails
  BY <1>16 DEF ReleaseFails, Return, timers, counts
<1>17. CASE Record
  BY <1>17 DEF Record, Return, Begin, Recorded, counts
<1>18. CASE RefreshOk
  BY <1>18 DEF RefreshOk, Return, counts
<1>19. CASE RefreshFails
  BY <1>19 DEF RefreshFails, Return, timers, counts
<1>20. CASE RetryStopping
  BY <1>20 DEF RetryStopping, Return, Stop, counts
<1>21. CASE Tick
  BY <1>21 DEF Tick, timers, counts, handler
<1>22. CASE TickStatusFails
  BY <1>22 DEF TickStatusFails, Return, timers, counts
<1>23. CASE TickDecide
  BY <1>23 DEF TickDecide, Return, Stop, Begin, TickIdle, TickSolar, TickScheduled, Refresh, counts
<1>24. CASE SolarTick
  BY <1>24 DEF SolarTick, timers, counts, handler
<1>25. CASE SolarStatusFails
  BY <1>25 DEF SolarStatusFails, Return, Stop
<1>26. CASE SolarDecide
  BY <1>26 DEF SolarDecide, Return, Stop, Begin, SolarIdle, SolarSession, SolarOther, Refresh
<1>27. CASE Replan
  BY <1>27 DEF Replan, timers, counts, handler
<1> QED
  BY <1>1, <1>2, <1>3, <1>4, <1>5, <1>6, <1>7, <1>8, <1>9, <1>10, <1>11, <1>12, <1>13, <1>14, <1>15, <1>16, <1>17, <1>18, <1>19, <1>20, <1>21, <1>22, <1>23, <1>24, <1>25, <1>26, <1>27
     DEF Act, Call

\* The counter and the rest, when a solar session is recorded.
LEMMA EndStep ==
  ASSUME HInv, SolarEnd, Remember,
         shortSessions' = ShortSessions, solarCooldown' = SolarPause
  PROVE  /\ recent' \in Seq(Kinds) /\ Len(recent') <= BackoffCount
         /\ sinceEnd' = 0 /\ Streak' /\ solarCooldown' >= RestDue'
<1> USE DEF HInv, Remembered
<1>0. BackoffCount \in Nat \ {0} /\ Len(recent) \in Nat /\ shortSessions \in Nat
  BY Bounds, LenProperties DEF IInv, TypeOK, CountsTyped
<1>1. Kind \in Kinds
  BY DEF Kind, Kinds
<1>2. Streak
  BY DEF SolarEnd
<1>3. /\ recent' = SubSeq(<<Kind>> \o recent, 1, Least(Len(recent) + 1, BackoffCount))
      /\ sinceEnd' = 0
  BY DEF Remember, SolarEnd
<1>4. /\ recent' \in Seq(Kinds) /\ Len(recent') = Least(Len(recent) + 1, BackoffCount)
      /\ recent'[1] = Kind
      /\ \A i \in 2..Len(recent') : recent'[i] = recent[i - 1]
  <2>1. recent \in Seq(Kinds) /\ Len(recent) <= BackoffCount
    OBVIOUS
  <2> DEFINE longer == SubSeq(<<Kind>> \o recent, 1, Least(Len(recent) + 1, BackoffCount))
  <2>2. /\ longer \in Seq(Kinds) /\ Len(longer) = Least(Len(recent) + 1, BackoffCount)
        /\ longer[1] = Kind
        /\ \A i \in 2..Len(longer) : longer[i] = recent[i - 1]
    <3> HIDE DEF HInv, Remembered
    <3> QED
      BY <1>0, <1>1, <2>1, Longer
  <2>3. recent' = longer
    BY <1>3
  <2> HIDE DEF longer
  <2> QED
    BY <2>2, <2>3
<1>5. /\ Len(recent') \in Nat /\ 1 <= Len(recent') /\ Len(recent') <= BackoffCount
      /\ Len(recent') <= Len(recent) + 1
      /\ Len(recent') < BackoffCount => Len(recent') = Len(recent) + 1
  BY <1>0, <1>4 DEF Least
<1>6. Kind = "marginal" <=> ended.reason = "surplus_gone" /\ ended.short
  BY DEF Kind
<1>7. CASE Kind = "marginal"
  <2>1. shortSessions' = Least(shortSessions + 1, BackoffCount)
    BY <1>6, <1>7 DEF ShortSessions, Up
  <2>2. /\ shortSessions' \in Nat /\ shortSessions' <= Len(recent') /\ 1 <= shortSessions'
        /\ shortSessions' <= shortSessions + 1
        /\ shortSessions' < BackoffCount => shortSessions' = shortSessions + 1
    BY <1>0, <1>2, <1>4, <2>1 DEF Streak, Least
  <2>3. ASSUME NEW i \in 1..shortSessions' PROVE recent'[i] = "marginal"
    <3>1. CASE i = 1
      BY <1>4, <1>7, <3>1
    <3>2. CASE i # 1
      <4>1. i \in 2..Len(recent') /\ i - 1 \in 1..shortSessions
        BY <1>0, <1>5, <2>2, <3>2
      <4> QED
        BY <1>2, <1>4, <4>1 DEF Streak
    <3> QED
      BY <3>1, <3>2
  <2>4. ASSUME shortSessions' < Len(recent') PROVE recent'[shortSessions' + 1] # "marginal"
    <3>1. shortSessions' = shortSessions + 1 /\ shortSessions < Len(recent)
      BY <1>0, <1>5, <2>2, <2>4
    <3>2. shortSessions' + 1 \in 2..Len(recent') /\ shortSessions' + 1 - 1 = shortSessions + 1
      BY <1>0, <1>5, <2>2, <2>4, <3>1
    <3>3. recent'[shortSessions' + 1] = recent[shortSessions + 1]
      <4> DEFINE i == shortSessions' + 1
      <4>1. i \in 2..Len(recent') /\ i - 1 = shortSessions + 1
        BY <1>0, <3>1, <3>2
      <4> HIDE DEF i
      <4>2. recent'[i] = recent[i - 1]
        BY <1>4, <4>1
      <4> QED
        BY <4>1, <4>2 DEF i
    <3> QED
      BY <1>2, <3>1, <3>3 DEF Streak
  <2>5. Streak'
    BY <2>2, <2>3, <2>4 DEF Streak
  <2>6. shortSessions' >= BackoffCount
          <=> Len(recent') = BackoffCount /\ \A i \in DOMAIN recent' : recent'[i] = "marginal"
    <3>1. DOMAIN recent' = 1..Len(recent')
      BY <1>4, LenProperties
    <3>2. ASSUME shortSessions' < BackoffCount, Len(recent') = BackoffCount
          PROVE  ~(\A i \in DOMAIN recent' : recent'[i] = "marginal")
      <4>1. shortSessions' + 1 \in 1..Len(recent')
        BY <1>0, <2>2, <3>2
      <4>2. recent'[shortSessions' + 1] # "marginal"
        BY <2>4, <3>2
      <4> QED
        BY <3>1, <4>1, <4>2
    <3>3. ASSUME shortSessions' >= BackoffCount
          PROVE  Len(recent') = BackoffCount /\ \A i \in DOMAIN recent' : recent'[i] = "marginal"
      <4>1. Len(recent') = BackoffCount /\ shortSessions' = Len(recent')
        BY <1>0, <1>5, <2>2, <3>3
      <4> QED
        BY <2>3, <3>1, <4>1
    <3> QED
      BY <1>0, <1>5, <2>2, <3>2, <3>3
  <2>7. SolarPause = IF shortSessions' >= BackoffCount THEN LongBackoff ELSE ShortCooldown
    BY <1>6, <1>7 DEF SolarPause
  <2>8. RestDue' = IF Len(recent') = BackoffCount /\ \A i \in DOMAIN recent' : recent'[i] = "marginal"
                     THEN LongBackoff ELSE ShortCooldown
    <3>1. recent' # <<>> /\ recent'[1] = "marginal"
      BY <1>4, <1>5, <1>7, EmptySeq
    <3> QED
      BY <3>1 DEF RestDue
  <2>9. solarCooldown' = RestDue' /\ RestDue' \in Nat
    BY <2>6, <2>7, <2>8, Bounds
  <2> QED
    BY <1>3, <1>4, <1>5, <2>5, <2>9
<1>8. CASE Kind # "marginal"
  <2>1. shortSessions' = 0
    BY <1>6, <1>8 DEF ShortSessions
  <2>2. Streak'
    BY <1>4, <1>5, <1>8, <2>1 DEF Streak
  <2>3. recent' # <<>> /\ recent'[1] = Kind
    BY <1>4, <1>5, EmptySeq
  <2>4. CASE Kind = "telemetry"
    <3>1. ended.reason = "telemetry"
      BY <2>4 DEF Kind
    <3>2. SolarPause = FailureCooldown /\ RestDue' = FailureCooldown
      BY <2>3, <2>4, <3>1 DEF RestDue, SolarPause
    <3> QED
      BY <1>3, <1>4, <1>5, <2>2, <3>2, Bounds
  <2>5. CASE Kind = "other"
    <3>1. SolarPause = RestartCooldown /\ RestDue' = RestartCooldown
      BY <2>3, <2>5 DEF Kind, RestDue, SolarPause
    <3> QED
      BY <1>3, <1>4, <1>5, <2>2, <3>1, Bounds
  <2> QED
    BY <1>1, <1>8, <2>4, <2>5 DEF Kinds
<1> QED
  BY <1>7, <1>8

LEMMA RememberedStep == HInv /\ [HNext]_<<vars, history>> => Remembered'
<1> SUFFICES ASSUME HInv, [HNext]_<<vars, history>> PROVE Remembered'
  OBVIOUS
<1>0. /\ SolarCap \in Nat /\ solarCooldown \in 0..SolarCap /\ sinceEnd \in 0..SolarCap
      /\ RestDue \in 0..SolarCap /\ TypeOK
  BY Caps, RestBounds DEF HInv, Remembered, IInv, TypeOK, TimersTyped
<1> USE DEF HInv, Remembered
<1>1. CASE Elapse /\ sinceEnd' = Up(sinceEnd, SolarCap) /\ UNCHANGED recent
  <2>1. UNCHANGED <<recent, shortSessions, pc>> /\ solarCooldown' = Down(solarCooldown)
    BY <1>1 DEF Elapse, counts
  <2>2. RestDue' = RestDue /\ Streak' = Streak
    BY <2>1 DEF RestDue, Streak
  <2>3. sinceEnd' \in 0..SolarCap
    BY <1>0, <1>1 DEF Up, Least
  <2>4. sinceEnd + solarCooldown >= RestDue => sinceEnd' + solarCooldown' >= RestDue
    BY <1>0, <1>1, <2>1 DEF Up, Least, Down
  <2> QED
    BY <2>1, <2>2, <2>3, <2>4
<1>2. CASE Act /\ Remember
  <2>1. Frame
    BY <1>0, <1>2, ActFrame
  <2>2. CASE SolarEnd
    <3>1. /\ shortSessions' = ShortSessions /\ solarCooldown' = SolarPause
          /\ pc' \in {"loop", "command"}
      BY <2>1, <2>2 DEF Frame, SolarEnd
    <3>2. /\ recent' \in Seq(Kinds) /\ Len(recent') <= BackoffCount
          /\ sinceEnd' = 0 /\ Streak' /\ solarCooldown' >= RestDue'
      BY <1>2, <2>2, <3>1, EndStep
    <3>3. solarCooldown' \in 0..SolarCap
      BY <3>1, PauseBounds
    <3> QED
      BY <1>0, <3>1, <3>2, <3>3
  <2>3. CASE ~SolarEnd /\ pc' = "boot"
    <3>1. recent' = <<>> /\ sinceEnd' = SolarCap
      BY <1>2, <2>3 DEF Remember
    <3>2. shortSessions' = 0 /\ solarCooldown' = solarCooldown
      <4>1. UNCHANGED <<shortSessions, solarCooldown>> /\ pc \in {"down", "exited", "boot"}
        BY <2>1, <2>3 DEF Frame
      <4>2. pc = "boot" => shortSessions = 0
        BY DEF Streak, IInv, TypeOK, CountsTyped
      <4> QED
        BY <4>1, <4>2
    <3>3. RestDue' = 0 /\ Streak'
      BY <3>1, <3>2 DEF RestDue, Streak
    <3>4. recent' \in Seq(Kinds) /\ Len(recent') = 0
      BY <3>1
    <3> QED
      BY <1>0, <2>3, <3>1, <3>2, <3>3, <3>4, Bounds
  <2>4. CASE ~SolarEnd /\ pc' # "boot"
    <3>1. recent' = recent /\ sinceEnd' = sinceEnd
      BY <1>2, <2>4 DEF Remember
    <3>2. CASE pc' \in {"down", "exited"}
      <4>1. shortSessions' = 0
        <5>1. pc = "boot" => shortSessions = 0
          BY DEF Streak, IInv, TypeOK, CountsTyped
        <5> QED
          BY <2>1, <2>4, <3>2, <5>1 DEF Frame
      <4> QED
        BY <1>0, <3>1, <3>2, <4>1
    <3>3. CASE pc' \notin {"down", "exited"}
      <4>1. UNCHANGED <<shortSessions, solarCooldown>> /\ pc \notin {"down", "exited"}
        BY <2>1, <2>4, <3>3 DEF Frame
      <4>2. RestDue' = RestDue /\ Streak'
        BY <3>1, <4>1 DEF RestDue, Streak
      <4> QED
        BY <1>0, <2>4, <3>1, <3>3, <4>1, <4>2
    <3> QED
      BY <3>2, <3>3
  <2> QED
    BY <2>2, <2>3, <2>4
<1>3. CASE UNCHANGED <<vars, history>>
  <2>1. UNCHANGED <<pc, shortSessions, solarCooldown, recent, sinceEnd>>
    BY <1>3 DEF vars, timers, counts, history
  <2>2. RestDue' = RestDue /\ Streak' = Streak
    BY <2>1 DEF RestDue, Streak
  <2> QED
    BY <2>1, <2>2
<1> QED
  BY <1>1, <1>2, <1>3 DEF HNext

(***************************************************************************)
(* The counter of marginal solar sessions is the number of marginal ends   *)
(* since the last one that was not, and the deadline covers the rest they  *)
(* call for.                                                               *)
(***************************************************************************)
THEOREM HInvariance == HSpec => []HInv
<1>1. HInit => Remembered
  BY Caps, Bounds DEF HInit, Init, Fresh, Remembered
<1>2. HSpec => []IInv
  BY HistoryIsEngine, Invariance
<1>3. IInv /\ Remembered /\ [HNext]_<<vars, history>> => Remembered'
  BY RememberedStep DEF HInv
<1> QED
  BY <1>1, <1>2, <1>3, PTL DEF HSpec, HInv

\* Only solarTick starts a solar session, and only after the pause.
LEMMA SolarStart == IInv /\ Next /\ StartsSolar => solarCooldown = 0
<1> SUFFICES ASSUME IInv, Next, StartsSolar PROVE solarCooldown = 0
  OBVIOUS
<1> USE DEF StartsSolar
<1>1. CASE SolarDecide
  <2>1. CASE SolarIdle
    BY <1>1, <2>1, Bounds DEF SolarIdle, Return, IInv, TypeOK, TimersTyped
  <2>2. CASE ~SolarIdle
    BY <1>1, <2>2 DEF SolarDecide, SolarSession, SolarOther, Stop, Return, Refresh
  <2> QED
    BY <2>1, <2>2
<1>2. CASE TickDecide
  BY <1>2, WantedTyped
     DEF TickDecide, TickIdle, TickSolar, TickScheduled, Begin, Stop, Return, Refresh, Scheduled
<1>3. CASE Record
  BY <1>3 DEF Record, Begin, Return, IInv, Places
<1>4. CASE RetryStopping
  BY <1>4 DEF RetryStopping, Stop, Return
<1>5. CASE pc' \in {"down", "exited", "boot", "loop", "halt", "verify", "undo", "record", "tick",
                    "solar", "release"} \/ pc' = pc
  BY <1>5
<1>6. CASE SolarStatusFails
  BY <1>6 DEF SolarStatusFails, Stop, Return
<1> QED
  BY <1>1, <1>2, <1>3, <1>4, <1>5, <1>6
     DEF Next, Act, Call, Elapse, CommandOk, CommandFails, VerifyOk, VerifyFails, UndoOk, UndoFails,
         StartFailed, ReleaseOk, ReleaseFails, RefreshOk, RefreshFails, TickStatusFails, BootOk,
         BootFails, HaltOk, HaltFails, Forget, Tick, SolarTick, Replan, Launch, Signal, Crash,
         Shutdown, Return

(* Anti-cycling: no solar session starts before the rest is over that the  *)
(* way the last ones ended calls for (stopSolarChargingLocked, solarTick). *)
THEOREM RestsKept == HSpec => BackoffHonoured
<1>1. HInv /\ [HNext]_<<vars, history>> =>
        [StartsSolar => sinceEnd >= RestDue]_<<vars, history>>
  <2> SUFFICES ASSUME HInv, HNext, StartsSolar PROVE sinceEnd >= RestDue
    OBVIOUS
  <2>1. Next
    BY DEF HNext, Next
  <2>2. solarCooldown = 0
    BY <2>1, SolarStart DEF HInv
  <2>3. pc \notin {"down", "exited"}
    BY ActFrame DEF HNext, HInv, IInv, Frame, SolarEnd, StartsSolar, Elapse
  <2> QED
    BY <2>2, <2>3, Caps DEF HInv, Remembered
<1> QED
  BY <1>1, HInvariance, PTL DEF HSpec, BackoffHonoured
==============================================================================
