------------------------- MODULE CircuitBreakerProofs -------------------------
(***************************************************************************)
(* Proofs about CircuitBreaker for every set of callers, threshold, window *)
(* and cooldown.                                                           *)
(*   anywhere           BreakerTypeOK                                             *)
(*   worker threads     FlightOwned: the flag belongs to a probe           *)
(*   event loop         StateAccounted and CooldownKept, from LoopInv,     *)
(*                      which says what an unfinished method has still to  *)
(*                      do                                                 *)
(* Recovers is a liveness property and stays with TLC.                     *)
(***************************************************************************)
EXTENDS CircuitBreaker, SequenceTheorems, TLAPS

-----------------------------------------------------------------------------
(* The actions of one caller, and the window *)

\* Every step is a step of one caller, or of the clock, or of the dependency.
LEMMA StepCases ==
    ASSUME [BreakerNext]_breakerVars
    PROVE  \/ \E c \in Callers :
              \/ Ask(c)
              \/ ReadOpen(c)
              \/ ReadAge(c)
              \/ SetHalf(c)
              \/ ResetFlight(c)
              \/ ReadHalf(c)
              \/ ReadFlight(c)
              \/ TakeFlight(c)
              \/ Answer(c)
              \/ AppendSuccess(c)
              \/ CloseState(c)
              \/ CloseAge(c)
              \/ CloseFlight(c)
              \/ AppendFailure(c)
              \/ FailFlight(c)
              \/ FailState(c)
              \/ FailSum(c)
              \/ FailSumTorn(c)
              \/ OpenState(c)
              \/ OpenAge(c)
              \/ Cancel(c)
           \/ Tick \/ Health \/ UNCHANGED breakerVars
BY DEF BreakerNext, Call, Allow, Record

\* deque.append keeps the window within maxlen and ends it with the new outcome.
LEMMA WindowAppend ==
    ASSUME BreakerTypeOK, NEW o \in BOOLEAN, Append1(o)
    PROVE  /\ outcomes' \in Seq(BOOLEAN) /\ Len(outcomes') <= WindowSize
           /\ outcomes' # <<>> /\ outcomes'[Len(outcomes')] = o
<1>1. WindowSize \in Nat \ {0} /\ outcomes \in Seq(BOOLEAN) /\ Len(outcomes) \in Nat
      /\ Len(outcomes) <= WindowSize
  BY BreakerAssumption, LenProperties DEF BreakerTypeOK
<1>2. CASE Len(outcomes) < WindowSize
  <2>1. outcomes' = Append(outcomes, o)
    BY <1>2 DEF Append1
  <2> QED
    BY <1>1, <1>2, <2>1, AppendProperties
<1>3. CASE Len(outcomes) = WindowSize
  <2>1. outcomes' = Append(Tail(outcomes), o)
    BY <1>1, <1>3 DEF Append1
  <2>2. outcomes # <<>>
    BY <1>1, <1>3, EmptySeq
  <2>3. Tail(outcomes) \in Seq(BOOLEAN) /\ Len(Tail(outcomes)) = Len(outcomes) - 1
    BY <1>1, <2>2, HeadTailProperties
  <2> QED
    BY <1>1, <1>3, <2>1, <2>3, AppendProperties
<1> QED
  BY <1>1, <1>2, <1>3

-----------------------------------------------------------------------------
(* Type correctness *)

\* The attributes start in their types.
LEMMA InitType == BreakerInit => BreakerTypeOK
<1>1. <<>> \in Seq(BOOLEAN) /\ Len(<<>>) = 0 /\ 0 <= WindowSize
  BY BreakerAssumption, EmptySeq
<1>2. Cooldown \in Nat /\ WindowSize \in Nat /\ Never \in 0..Never
  BY BreakerAssumption DEF Never
<1>3. ASSUME BreakerInit PROVE pc \in [Callers -> Steps] /\ probing \subseteq Callers
  BY <1>3 DEF BreakerInit, Steps
<1>4. ASSUME BreakerInit PROVE /\ outcomes \in Seq(BOOLEAN) /\ Len(outcomes) <= WindowSize
                        /\ openedAt \in 0..Never
  BY <1>1, <1>2, <1>4, BreakerAssumption DEF BreakerInit
<1> QED
  BY <1>3, <1>4 DEF BreakerInit, BreakerTypeOK

\* No step, interleaved in any way, takes an attribute out of its type.
LEMMA TypeStep ==
    ASSUME BreakerTypeOK, [BreakerNext]_breakerVars
    PROVE  BreakerTypeOK'
<1> USE BreakerAssumption
<1>0. Cooldown \in Nat /\ Never = Cooldown + 1
  BY DEF Never
<1>1. ASSUME NEW c \in Callers, Ask(c) PROVE BreakerTypeOK'
  BY <1>1, <1>0
  DEF Ask, Go, BreakerTypeOK, breaker, Steps, AllowSteps, SuccessSteps, FailureSteps
<1>2. ASSUME NEW c \in Callers, ReadOpen(c) PROVE BreakerTypeOK'
  BY <1>2, <1>0
  DEF ReadOpen, Go, BreakerTypeOK, breaker, Steps, AllowSteps, SuccessSteps, FailureSteps
<1>3. ASSUME NEW c \in Callers, ReadAge(c) PROVE BreakerTypeOK'
  BY <1>3, <1>0
  DEF ReadAge, Go, BreakerTypeOK, breaker, Steps, AllowSteps, SuccessSteps, FailureSteps
<1>4. ASSUME NEW c \in Callers, SetHalf(c) PROVE BreakerTypeOK'
  BY <1>4, <1>0
  DEF SetHalf, Go, BreakerTypeOK, breaker, Steps, AllowSteps, SuccessSteps, FailureSteps
<1>5. ASSUME NEW c \in Callers, ResetFlight(c) PROVE BreakerTypeOK'
  BY <1>5, <1>0
  DEF ResetFlight, Go, BreakerTypeOK, breaker, Steps, AllowSteps, SuccessSteps,
      FailureSteps
<1>6. ASSUME NEW c \in Callers, ReadHalf(c) PROVE BreakerTypeOK'
  BY <1>6, <1>0
  DEF ReadHalf, Go, BreakerTypeOK, breaker, Steps, AllowSteps, SuccessSteps, FailureSteps
<1>7. ASSUME NEW c \in Callers, ReadFlight(c) PROVE BreakerTypeOK'
  BY <1>7, <1>0
  DEF ReadFlight, Go, BreakerTypeOK, breaker, Steps, AllowSteps, SuccessSteps,
      FailureSteps
<1>8. ASSUME NEW c \in Callers, TakeFlight(c) PROVE BreakerTypeOK'
  BY <1>8, <1>0
  DEF TakeFlight, Go, BreakerTypeOK, breaker, Steps, AllowSteps, SuccessSteps,
      FailureSteps
<1>9. ASSUME NEW c \in Callers, Answer(c) PROVE BreakerTypeOK'
  BY <1>9, <1>0
  DEF Answer, Go, BreakerTypeOK, breaker, Steps, AllowSteps, SuccessSteps, FailureSteps
<1>10. ASSUME NEW c \in Callers, AppendSuccess(c) PROVE BreakerTypeOK'
  <2>1. Append1(TRUE)
    BY <1>10 DEF AppendSuccess
  <2>2. outcomes' \in Seq(BOOLEAN) /\ Len(outcomes') <= WindowSize
    BY <2>1, WindowAppend
  <2> QED
    BY <1>10, <2>2
    DEF AppendSuccess, Go, BreakerTypeOK, Never, Steps, AllowSteps, SuccessSteps,
        FailureSteps
<1>11. ASSUME NEW c \in Callers, CloseState(c) PROVE BreakerTypeOK'
  BY <1>11, <1>0
  DEF CloseState, Go, BreakerTypeOK, breaker, Steps, AllowSteps, SuccessSteps,
      FailureSteps
<1>12. ASSUME NEW c \in Callers, CloseAge(c) PROVE BreakerTypeOK'
  BY <1>12, <1>0
  DEF CloseAge, Go, BreakerTypeOK, breaker, Steps, AllowSteps, SuccessSteps, FailureSteps
<1>13. ASSUME NEW c \in Callers, CloseFlight(c) PROVE BreakerTypeOK'
  BY <1>13, <1>0
  DEF CloseFlight, AfterSuccess, Go, BreakerTypeOK, breaker, Steps, AllowSteps, SuccessSteps,
      FailureSteps
<1>14. ASSUME NEW c \in Callers, AppendFailure(c) PROVE BreakerTypeOK'
  <2>1. Append1(FALSE)
    BY <1>14 DEF AppendFailure
  <2>2. outcomes' \in Seq(BOOLEAN) /\ Len(outcomes') <= WindowSize
    BY <2>1, WindowAppend
  <2> QED
    BY <1>14, <2>2
    DEF AppendFailure, Go, BreakerTypeOK, Never, Steps, AllowSteps, SuccessSteps,
        FailureSteps
<1>15. ASSUME NEW c \in Callers, FailFlight(c) PROVE BreakerTypeOK'
  BY <1>15, <1>0
  DEF FailFlight, Go, BreakerTypeOK, breaker, Steps, AllowSteps, SuccessSteps,
      FailureSteps
<1>16. ASSUME NEW c \in Callers, FailState(c) PROVE BreakerTypeOK'
  BY <1>16, <1>0
  DEF FailState, Go, BreakerTypeOK, breaker, Steps, AllowSteps, SuccessSteps,
      FailureSteps
<1>17. ASSUME NEW c \in Callers, FailSum(c) PROVE BreakerTypeOK'
  BY <1>17, <1>0
  DEF FailSum, Go, BreakerTypeOK, breaker, Steps, AllowSteps, SuccessSteps, FailureSteps
<1>18. ASSUME NEW c \in Callers, FailSumTorn(c) PROVE BreakerTypeOK'
  <2>1. PICK d \in Callers : /\ Append1(pc[d] = "append_success")
                            /\ pc' = [pc EXCEPT ![c] = "idle",
                                 ![d] = IF @ = "append_success" THEN "close_state"
                                        ELSE "fail_flight"]
    BY <1>18 DEF FailSumTorn
  <2>2. outcomes' \in Seq(BOOLEAN) /\ Len(outcomes') <= WindowSize
    BY <2>1, WindowAppend
  <2>3. pc' \in [Callers -> Steps]
    BY <2>1 DEF BreakerTypeOK, Steps, SuccessSteps, FailureSteps
  <2> QED
    BY <1>18, <2>2, <2>3 DEF FailSumTorn, BreakerTypeOK, Never
<1>19. ASSUME NEW c \in Callers, OpenState(c) PROVE BreakerTypeOK'
  BY <1>19, <1>0
  DEF OpenState, Go, BreakerTypeOK, breaker, Steps, AllowSteps, SuccessSteps,
      FailureSteps
<1>20. ASSUME NEW c \in Callers, OpenAge(c) PROVE BreakerTypeOK'
  BY <1>20, <1>0
  DEF OpenAge, Go, BreakerTypeOK, breaker, Steps, AllowSteps, SuccessSteps, FailureSteps
<1>21. ASSUME NEW c \in Callers, Cancel(c) PROVE BreakerTypeOK'
  BY <1>21, <1>0
  DEF Cancel, Go, BreakerTypeOK, breaker, Steps, AllowSteps, SuccessSteps, FailureSteps
<1>22. CASE Tick
  BY <1>22, <1>0 DEF Tick, BreakerTypeOK
<1>23. CASE Health
  BY <1>23 DEF Health, BreakerTypeOK, breaker, Never
<1>24. CASE UNCHANGED breakerVars
  BY <1>24 DEF breakerVars, BreakerTypeOK, breaker, Never
<1> QED
  BY <1>1, <1>2, <1>3, <1>4, <1>5, <1>6, <1>7, <1>8, <1>9, <1>10, <1>11, <1>12,
     <1>13, <1>14, <1>15, <1>16, <1>17, <1>18, <1>19, <1>20, <1>21, <1>22, <1>23,
     <1>24, StepCases

\* The attributes and the callers stay in the states the class knows.
THEOREM TypeCorrect == BreakerSpec => []BreakerTypeOK
  BY InitType, TypeStep, PTL DEF BreakerSpec

-----------------------------------------------------------------------------
(* Worker threads *)

\* Without a lock, a probe still clears the flag it set: the flag alone never
\* denies the dependency for ever.  (A thread is not cancelled.)
THEOREM FlagHasAProbe == BreakerSpec => []FlightOwned
<1>1. BreakerInit => FlightOwned
  BY DEF BreakerInit, FlightOwned
<1>2. ASSUME FlightOwned, [BreakerNext]_breakerVars PROVE FlightOwned'
  <2>1. ASSUME NEW c \in Callers, Ask(c) PROVE FlightOwned'
    BY <1>2, <2>1 DEF Ask, Go, breaker, FlightOwned
  <2>2. ASSUME NEW c \in Callers, ReadOpen(c) PROVE FlightOwned'
    BY <1>2, <2>2 DEF ReadOpen, Go, breaker, FlightOwned
  <2>3. ASSUME NEW c \in Callers, ReadAge(c) PROVE FlightOwned'
    BY <1>2, <2>3 DEF ReadAge, Go, breaker, FlightOwned
  <2>4. ASSUME NEW c \in Callers, SetHalf(c) PROVE FlightOwned'
    BY <1>2, <2>4 DEF SetHalf, Go, breaker, FlightOwned
  <2>5. ASSUME NEW c \in Callers, ResetFlight(c) PROVE FlightOwned'
    BY <1>2, <2>5 DEF ResetFlight, Go, breaker, FlightOwned
  <2>6. ASSUME NEW c \in Callers, ReadHalf(c) PROVE FlightOwned'
    BY <1>2, <2>6 DEF ReadHalf, Go, breaker, FlightOwned
  <2>7. ASSUME NEW c \in Callers, ReadFlight(c) PROVE FlightOwned'
    BY <1>2, <2>7 DEF ReadFlight, Go, breaker, FlightOwned
  <2>8. ASSUME NEW c \in Callers, TakeFlight(c) PROVE FlightOwned'
    BY <1>2, <2>8 DEF TakeFlight, Go, breaker, FlightOwned
  <2>9. ASSUME NEW c \in Callers, Answer(c) PROVE FlightOwned'
    BY <1>2, <2>9 DEF Answer, Go, breaker, FlightOwned
  <2>10. ASSUME NEW c \in Callers, AppendSuccess(c) PROVE FlightOwned'
    BY <1>2, <2>10 DEF AppendSuccess, Go, breaker, FlightOwned
  <2>11. ASSUME NEW c \in Callers, CloseState(c) PROVE FlightOwned'
    BY <1>2, <2>11 DEF CloseState, Go, breaker, FlightOwned
  <2>12. ASSUME NEW c \in Callers, CloseAge(c) PROVE FlightOwned'
    BY <1>2, <2>12 DEF CloseAge, Go, breaker, FlightOwned
  <2>13. ASSUME NEW c \in Callers, CloseFlight(c) PROVE FlightOwned'
    BY <1>2, <2>13 DEF CloseFlight, Go, breaker, FlightOwned
  <2>14. ASSUME NEW c \in Callers, AppendFailure(c) PROVE FlightOwned'
    BY <1>2, <2>14 DEF AppendFailure, Go, breaker, FlightOwned
  <2>15. ASSUME NEW c \in Callers, FailFlight(c) PROVE FlightOwned'
    BY <1>2, <2>15 DEF FailFlight, Go, breaker, FlightOwned
  <2>16. ASSUME NEW c \in Callers, FailState(c) PROVE FlightOwned'
    BY <1>2, <2>16 DEF FailState, Go, breaker, FlightOwned
  <2>17. ASSUME NEW c \in Callers, FailSum(c) PROVE FlightOwned'
    BY <1>2, <2>17 DEF FailSum, Go, breaker, FlightOwned
  <2>18. ASSUME NEW c \in Callers, FailSumTorn(c) PROVE FlightOwned'
    BY <1>2, <2>18 DEF FailSumTorn, breaker, FlightOwned
  <2>19. ASSUME NEW c \in Callers, OpenState(c) PROVE FlightOwned'
    BY <1>2, <2>19 DEF OpenState, Go, breaker, FlightOwned
  <2>20. ASSUME NEW c \in Callers, OpenAge(c) PROVE FlightOwned'
    BY <1>2, <2>20 DEF OpenAge, Go, breaker, FlightOwned
  <2>21. ASSUME NEW c \in Callers, Cancel(c) PROVE FlightOwned'
    BY <1>2, <2>21 DEF Cancel, Go, breaker, FlightOwned
  <2>22. CASE Tick \/ Health \/ UNCHANGED breakerVars
    BY <1>2, <2>22 DEF Tick, Health, breakerVars, breaker, FlightOwned
  <2> QED
    BY <1>2, <2>1, <2>2, <2>3, <2>4, <2>5, <2>6, <2>7, <2>8, <2>9, <2>10, <2>11,
       <2>12, <2>13, <2>14, <2>15, <2>16, <2>17, <2>18, <2>19, <2>20, <2>21, <2>22,
       StepCases
<1> QED
  BY <1>1, <1>2, PTL DEF BreakerSpec

-----------------------------------------------------------------------------
(* The event loop *)

LastFailed == outcomes # <<>> /\ ~outcomes[Len(outcomes)]

\* Between two methods the breaker is as the class means it to be; what is not
\* yet so is what the one unfinished method has still to do.
AgeInv  == state = "open" => openedAt # Never \/ \E c \in Callers : pc[c] = "open_age"
SlotInv == state = "half_open" /\ ~inFlight =>
             \E c \in Callers : pc[c] \in {"reset_flight", "read_half", "read_flight",
                                         "take_flight", "fail_state", "open_state"}
LastInv == state = "open" => LastFailed \/ \E c \in Callers : pc[c] = "close_state"
FailInv == \A c \in Callers :
             pc[c] \in {"fail_flight", "fail_state", "fail_sum", "open_state"} => LastFailed
HereInv == \A c \in Callers :
             /\ pc[c] = "read_age" => state = "open"
             /\ pc[c] = "set_half" => state = "open" /\ openedAt = Cooldown
             /\ pc[c] \in {"close_age", "close_flight"} => state = "closed"
LoopInv == BreakerTypeOK /\ AgeInv /\ SlotInv /\ LastInv /\ FailInv /\ HereInv

LoopKept == BreakerTypeOK /\ (onEventLoop => LoopInv)

\* The breaker starts closed, with no method under way.
LEMMA InitLoop == BreakerInit => LoopInv
  BY InitType DEF BreakerInit, LoopInv, AgeInv, SlotInv, LastInv, FailInv, HereInv

\* On the event loop every step keeps it: nobody else moves inside a method.
LEMMA LoopStep ==
    ASSUME onEventLoop, LoopInv, [BreakerNext]_breakerVars
    PROVE  LoopInv'
<1>0. BreakerTypeOK /\ BreakerTypeOK'
  BY TypeStep DEF LoopInv
<1>a. Cooldown \in Nat /\ Never = Cooldown + 1
  BY BreakerAssumption DEF Never
<1> DEFINE Rest == AgeInv /\ SlotInv /\ LastInv /\ FailInv /\ HereInv
<1>b. Rest
  BY DEF LoopInv
<1> SUFFICES Rest'
  BY <1>0 DEF LoopInv
<1>1. ASSUME NEW c \in Callers, Ask(c) PROVE Rest'
  BY <1>1, <1>0, <1>a, <1>b
  DEF Ask, Go, Outside, BreakerTypeOK, breaker, AgeInv, SlotInv, LastInv, FailInv,
      HereInv, LastFailed
<1>2. ASSUME NEW c \in Callers, ReadOpen(c) PROVE Rest'
  BY <1>2, <1>0, <1>a, <1>b
  DEF ReadOpen, Go, Outside, BreakerTypeOK, breaker, AgeInv, SlotInv, LastInv, FailInv,
      HereInv, LastFailed
<1>3. ASSUME NEW c \in Callers, ReadAge(c) PROVE Rest'
  BY <1>3, <1>0, <1>a, <1>b
  DEF ReadAge, Go, Outside, BreakerTypeOK, breaker, Cooled, AgeInv, SlotInv, LastInv,
      FailInv, HereInv, LastFailed
<1>4. ASSUME NEW c \in Callers, SetHalf(c) PROVE Rest'
  BY <1>4, <1>0, <1>a, <1>b
  DEF SetHalf, Go, Outside, BreakerTypeOK, breaker, AgeInv, SlotInv, LastInv, FailInv,
      HereInv, LastFailed
<1>5. ASSUME NEW c \in Callers, ResetFlight(c) PROVE Rest'
  BY <1>5, <1>0, <1>a, <1>b
  DEF ResetFlight, Go, Outside, BreakerTypeOK, breaker, AgeInv, SlotInv, LastInv,
      FailInv, HereInv, LastFailed
<1>6. ASSUME NEW c \in Callers, ReadHalf(c) PROVE Rest'
  BY <1>6, <1>0, <1>a, <1>b
  DEF ReadHalf, Go, Outside, BreakerTypeOK, breaker, AgeInv, SlotInv, LastInv, FailInv,
      HereInv, LastFailed
<1>7. ASSUME NEW c \in Callers, ReadFlight(c) PROVE Rest'
  BY <1>7, <1>0, <1>a, <1>b
  DEF ReadFlight, Go, Outside, BreakerTypeOK, breaker, AgeInv, SlotInv, LastInv, FailInv,
      HereInv, LastFailed
<1>8. ASSUME NEW c \in Callers, TakeFlight(c) PROVE Rest'
  BY <1>8, <1>0, <1>a, <1>b
  DEF TakeFlight, Go, Outside, BreakerTypeOK, breaker, AgeInv, SlotInv, LastInv, FailInv,
      HereInv, LastFailed
<1>9. ASSUME NEW c \in Callers, Answer(c) PROVE Rest'
  BY <1>9, <1>0, <1>a, <1>b
  DEF Answer, Go, Outside, BreakerTypeOK, breaker, AgeInv, SlotInv, LastInv, FailInv,
      HereInv, LastFailed
<1>10. ASSUME NEW c \in Callers, AppendSuccess(c) PROVE Rest'
  <2>1. Append1(TRUE)
    BY <1>10 DEF AppendSuccess
  <2>2. outcomes' # <<>> /\ outcomes'[Len(outcomes')] = TRUE
    BY <1>0, <2>1, WindowAppend
  <2> QED
    BY <1>10, <1>0, <1>a, <1>b, <2>2
    DEF AppendSuccess, Go, Outside, BreakerTypeOK, Never, AgeInv, SlotInv, LastInv,
        FailInv, HereInv, LastFailed
<1>11. ASSUME NEW c \in Callers, CloseState(c) PROVE Rest'
  BY <1>11, <1>0, <1>a, <1>b
  DEF CloseState, Go, Outside, BreakerTypeOK, breaker, AgeInv, SlotInv, LastInv, FailInv,
      HereInv, LastFailed
<1>12. ASSUME NEW c \in Callers, CloseAge(c) PROVE Rest'
  BY <1>12, <1>0, <1>a, <1>b
  DEF CloseAge, Go, Outside, BreakerTypeOK, breaker, AgeInv, SlotInv, LastInv, FailInv,
      HereInv, LastFailed
<1>13. ASSUME NEW c \in Callers, CloseFlight(c) PROVE Rest'
  BY <1>13, <1>0, <1>a, <1>b
  DEF CloseFlight, AfterSuccess, Go, Outside, BreakerTypeOK, breaker, AgeInv, SlotInv, LastInv,
      FailInv, HereInv, LastFailed
<1>14. ASSUME NEW c \in Callers, AppendFailure(c) PROVE Rest'
  <2>1. Append1(FALSE)
    BY <1>14 DEF AppendFailure
  <2>2. outcomes' # <<>> /\ outcomes'[Len(outcomes')] = FALSE
    BY <1>0, <2>1, WindowAppend
  <2> QED
    BY <1>14, <1>0, <1>a, <1>b, <2>2
    DEF AppendFailure, Go, Outside, BreakerTypeOK, Never, AgeInv, SlotInv, LastInv,
        FailInv, HereInv, LastFailed
<1>15. ASSUME NEW c \in Callers, FailFlight(c) PROVE Rest'
  BY <1>15, <1>0, <1>a, <1>b
  DEF FailFlight, Go, Outside, BreakerTypeOK, breaker, AgeInv, SlotInv, LastInv, FailInv,
      HereInv, LastFailed
<1>16. ASSUME NEW c \in Callers, FailState(c) PROVE Rest'
  BY <1>16, <1>0, <1>a, <1>b
  DEF FailState, Go, Outside, BreakerTypeOK, breaker, AgeInv, SlotInv, LastInv, FailInv,
      HereInv, LastFailed
<1>17. ASSUME NEW c \in Callers, FailSum(c) PROVE Rest'
  BY <1>17, <1>0, <1>a, <1>b
  DEF FailSum, Go, Outside, BreakerTypeOK, breaker, AgeInv, SlotInv, LastInv, FailInv,
      HereInv, LastFailed
<1>18. ASSUME NEW c \in Callers, FailSumTorn(c) PROVE Rest'
  BY <1>18, <1>0, <1>a, <1>b
  DEF FailSumTorn, Go, Outside, BreakerTypeOK, breaker, AgeInv, SlotInv, LastInv,
      FailInv, HereInv, LastFailed
<1>19. ASSUME NEW c \in Callers, OpenState(c) PROVE Rest'
  BY <1>19, <1>0, <1>a, <1>b
  DEF OpenState, Go, Outside, BreakerTypeOK, breaker, AgeInv, SlotInv, LastInv, FailInv,
      HereInv, LastFailed
<1>20. ASSUME NEW c \in Callers, OpenAge(c) PROVE Rest'
  BY <1>20, <1>0, <1>a, <1>b
  DEF OpenAge, Go, Outside, BreakerTypeOK, breaker, AgeInv, SlotInv, LastInv, FailInv,
      HereInv, LastFailed
<1>21. ASSUME NEW c \in Callers, Cancel(c) PROVE Rest'
  BY <1>21, <1>0, <1>a, <1>b
  DEF Cancel, Go, Outside, BreakerTypeOK, breaker, AgeInv, SlotInv, LastInv, FailInv,
      HereInv, LastFailed
<1>22. CASE Tick
  BY <1>22, <1>0, <1>a, <1>b
  DEF Tick, BreakerTypeOK, AgeInv, SlotInv, LastInv, FailInv, HereInv, LastFailed
<1>23. CASE Health \/ UNCHANGED breakerVars
  BY <1>23, <1>b
  DEF Health, breakerVars, breaker, Never, AgeInv, SlotInv, LastInv, FailInv, HereInv,
      LastFailed
<1> QED
  BY <1>1, <1>2, <1>3, <1>4, <1>5, <1>6, <1>7, <1>8, <1>9, <1>10, <1>11, <1>12,
     <1>13, <1>14, <1>15, <1>16, <1>17, <1>18, <1>19, <1>20, <1>21, <1>22, <1>23,
     StepCases

\* No step changes which breaker this is.
LEMMA SameBreaker == [BreakerNext]_breakerVars => UNCHANGED onEventLoop
<1> SUFFICES ASSUME [BreakerNext]_breakerVars PROVE UNCHANGED onEventLoop
  OBVIOUS
<1>1. ASSUME NEW c \in Callers,
             \/ Ask(c) \/ ReadOpen(c) \/ ReadAge(c) \/ SetHalf(c) \/ ResetFlight(c)
             \/ ReadHalf(c) \/ ReadFlight(c) \/ TakeFlight(c) \/ Answer(c)
             \/ AppendSuccess(c) \/ CloseState(c) \/ CloseAge(c) \/ CloseFlight(c)
             \/ AppendFailure(c) \/ FailFlight(c) \/ FailState(c) \/ FailSum(c)
             \/ FailSumTorn(c) \/ OpenState(c) \/ OpenAge(c) \/ Cancel(c)
      PROVE UNCHANGED onEventLoop
  BY <1>1
  DEF Go, Ask, ReadOpen, ReadAge, SetHalf, ResetFlight, ReadHalf, ReadFlight, TakeFlight,
      Answer, AppendSuccess, CloseState, CloseAge, CloseFlight, AppendFailure, FailFlight,
      FailState, FailSum, FailSumTorn, OpenState, OpenAge, Cancel
<1>2. CASE Tick \/ Health \/ UNCHANGED breakerVars
  BY <1>2 DEF Tick, Health, breakerVars
<1> QED
  BY <1>1, <1>2, StepCases

\* LoopInv is an invariant of a breaker used on the event loop.
THEOREM LoopInvariance == BreakerSpec => []LoopKept
<1>1. BreakerInit => LoopKept
  BY InitLoop, InitType DEF LoopKept
<1>2. LoopKept /\ [BreakerNext]_breakerVars => LoopKept'
  BY LoopStep, TypeStep, SameBreaker DEF LoopKept
<1> QED
  BY <1>1, <1>2, PTL DEF BreakerSpec

\* A half-open breaker between two methods has its probe slot taken, and an open one has
\* a failure as its latest outcome.
THEOREM StatesAccounted == BreakerSpec => []StateAccounted
<1>1. LoopKept => StateAccounted
  <2> SUFFICES ASSUME LoopInv, Quiet
               PROVE  /\ state = "half_open" => inFlight
                      /\ state = "open" => outcomes # <<>> /\ ~outcomes[Len(outcomes)]
    BY DEF StateAccounted, LoopKept
  <2>1. state = "half_open" => inFlight
    BY DEF LoopInv, SlotInv, Quiet, Outside
  <2>2. state = "open" => outcomes # <<>> /\ ~outcomes[Len(outcomes)]
    BY DEF LoopInv, LastInv, LastFailed, Quiet, Outside
  <2> QED
    BY <2>1, <2>2
<1> QED
  BY <1>1, LoopInvariance, PTL

\* An open breaker becomes half-open only when its cooldown has passed.
THEOREM CooldownPasses == BreakerSpec => CooldownKept
<1> DEFINE A == onEventLoop /\ state = "open" /\ state' = "half_open" => openedAt = Cooldown
<1>1. LoopKept /\ [BreakerNext]_breakerVars => [A]_breakerVars
  <2> SUFFICES ASSUME LoopInv, [BreakerNext]_breakerVars PROVE A
    BY DEF LoopKept
  <2>1. ASSUME NEW c \in Callers, SetHalf(c) PROVE A
    BY <2>1 DEF SetHalf, Go, LoopInv, HereInv
  <2>2. ASSUME NEW c \in Callers, CloseState(c) \/ OpenState(c) PROVE A
    BY <2>2 DEF CloseState, OpenState
  <2>3. ASSUME NEW c \in Callers,
               \/ Ask(c) \/ ReadOpen(c) \/ ReadAge(c) \/ ResetFlight(c)
               \/ ReadHalf(c) \/ ReadFlight(c) \/ TakeFlight(c) \/ Answer(c)
               \/ AppendSuccess(c) \/ CloseAge(c) \/ CloseFlight(c) \/ AppendFailure(c)
               \/ FailFlight(c) \/ FailState(c) \/ FailSum(c) \/ FailSumTorn(c)
               \/ OpenAge(c) \/ Cancel(c)
        PROVE A
    BY <2>3
    DEF breaker, Ask, ReadOpen, ReadAge, ResetFlight, ReadHalf, ReadFlight,
        TakeFlight, Answer, AppendSuccess, CloseAge, CloseFlight, AppendFailure,
        FailFlight, FailState, FailSum, FailSumTorn, OpenAge, Cancel
  <2>4. CASE Tick \/ Health \/ UNCHANGED breakerVars
    BY <2>4 DEF Tick, Health, breakerVars, breaker
  <2> QED
    BY <2>1, <2>2, <2>3, <2>4, StepCases
<1> QED
  BY <1>1, LoopInvariance, PTL DEF BreakerSpec, CooldownKept
=============================================================================
