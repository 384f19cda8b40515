---------------------------- MODULE EspTimerProofs ----------------------------
(***************************************************************************)
(* Proofs about EspTimer, for any delays, any number of starts, and with   *)
(* or without late starts and deletes.                                     *)
(***************************************************************************)
EXTENDS EspTimer, TLAPS

(* What run_loop reads before a callback has the types of the fields.      *)
LEMMA CallbackSnapshot ==
  ASSUME TimerTypeOK, UnlockForCallback
  PROVE  /\ snapshot' \in [periodic : BOOLEAN, period : Nat]
         /\ snapshot'.period = 0 => snapshot'.periodic = FALSE
<1>1. snapshot' \in [periodic : BOOLEAN, period : Nat]
  BY DEF TimerTypeOK, UnlockForCallback
<1>2. snapshot'.period = period_us /\ snapshot'.periodic = periodic
  BY Zenon DEF UnlockForCallback
<1>3. period_us = 0 => periodic = FALSE
  BY DEF TimerTypeOK
<1> QED
  BY <1>1, <1>2, <1>3, Zenon

(* The type invariant; the period of a periodic timer stays positive.      *)
THEOREM TimerTypeCorrect == TimerSpec => []TimerTypeOK
<1>1. TimerInit => TimerTypeOK
  <2> SUFFICES ASSUME TimerInit PROVE TimerTypeOK
    OBVIOUS
  <2>1. snapshot \in [periodic : BOOLEAN, period : Nat]
    BY DEF TimerInit
  <2>2. snapshot.period = 0 => snapshot.periodic = FALSE
    BY Zenon DEF TimerInit
  <2> QED
    BY <2>1, <2>2 DEF TimerInit, TimerTypeOK, LoopPcs
<1>2. TimerTypeOK /\ [TimerNext]_timer_vars => TimerTypeOK'
  <2> SUFFICES ASSUME TimerTypeOK, [TimerNext]_timer_vars PROVE TimerTypeOK'
    OBVIOUS
  <2> USE TimerAssumption DEF TimerTypeOK, LoopPcs, timer, calls, history
  <2>1. CASE Top \/ ArmedWaits \/ ArmedIsDue
    BY <2>1 DEF Top, ArmedWaits, ArmedIsDue
  <2>2. CASE UnlockForCallback
    BY <2>2, CallbackSnapshot DEF UnlockForCallback
  <2>3. CASE Sleep \/ Timeout \/ TimerSpuriousWake
    BY <2>3 DEF Sleep, Timeout, TimerSpuriousWake, Woken
  <2>4. CASE IdleWakes \/ TimedWakes
    BY <2>4 DEF IdleWakes, TimedWakes
  <2>5. CASE BeginCallback
    BY <2>5 DEF BeginCallback
  <2>6. CASE CallbackReturns
    BY <2>6 DEF CallbackReturns
  <2>7. ASSUME NEW repeats \in BOOLEAN, NEW delay \in Delays, Start(repeats, delay)
        PROVE  TimerTypeOK'
    BY <2>7 DEF Start
  <2>8. CASE Stop
    BY <2>8 DEF Stop, Silenced
  <2>9. CASE TimerNotifies \/ DeleteNotifies
    <3>1. Woken \in LoopPcs
      BY DEF Woken
    <3>2. CASE TimerNotifies
      <4>1. /\ notify' \in BOOLEAN /\ loop_pc' \in LoopPcs
            /\ UNCHANGED <<timer, left, target, snapshot, destructor, starts, history>>
        BY <3>1, <3>2, Zenon DEF TimerNotifies
      <4> QED
        BY <4>1
    <3>3. CASE DeleteNotifies
      BY <3>1, <3>3 DEF DeleteNotifies
    <3> QED
      BY <2>9, <3>2, <3>3
  <2>10. CASE DeleteBegins
    BY <2>10 DEF DeleteBegins, Silenced
  <2>11. CASE Tick
    BY <2>11 DEF Tick
  <2>12. CASE UNCHANGED timer_vars
    BY <2>12 DEF timer_vars
  <2>13. CASE Relock
    BY <2>13 DEF Relock
  <2>14. CASE DeleteJoins
    BY <2>14 DEF DeleteJoins
  <2> QED
    BY <2>1, <2>2, <2>3, <2>4, <2>5, <2>6, <2>7, <2>8, <2>9, <2>10, <2>11, <2>12,
       <2>13, <2>14
    DEF TimerNext, RunLoop
<1> QED
  BY <1>1, <1>2, PTL DEF TimerSpec
------------------------------------------------------------------------------
(* The inductive invariant.  An armed timer is owed a callback, except     *)
(* from the beginning of one callback to the re-arming after it.  run_loop *)
(* decides to sleep without a deadline only for a timer that is not armed, *)
(* and no start can come before it sleeps, because it still holds mu.      *)
(* From its last look at the flags to the callback the timer stays armed   *)
(* and due, unless it is overtaken.  And a timer that was stopped is not   *)
(* armed, so that run_loop does not make up its mind a second time.        *)
ArmedIsOwed == running /\ loop_pc \notin {"callback", "relock"} => owed
EntersIdle == loop_pc = "idle_enter" => ~running
StaysDue ==
  MadeUpItsMind /\ ~overtaken => running /\ (loop_pc # "armed" => left = 0)
SilencedIsOff ==
  /\ quiet # "may" => ~running
  /\ quiet = "none" => ~MadeUpItsMind

TimerInv ==
  ArmedIsOwed /\ EntersIdle /\ StaysDue /\ SilencedIsOff /\ IdleMeansIdle

LEMMA InductiveInvariant == TimerSpec => []TimerInv
<1>1. TimerInit => TimerInv
  BY DEF TimerInit, TimerInv, ArmedIsOwed, EntersIdle, StaysDue, SilencedIsOff,
         IdleMeansIdle, MadeUpItsMind
<1>2. TimerTypeOK /\ TimerInv /\ [TimerNext]_timer_vars => TimerInv'
  <2> SUFFICES ASSUME TimerTypeOK, TimerInv, [TimerNext]_timer_vars PROVE TimerInv'
    OBVIOUS
  <2> USE DEF TimerInv, ArmedIsOwed, EntersIdle, StaysDue, SilencedIsOff,
              IdleMeansIdle, MadeUpItsMind, timer, calls, history
  <2>1. CASE Top \/ ArmedWaits \/ ArmedIsDue
    BY <2>1 DEF Top, ArmedWaits, ArmedIsDue
  <2>2. CASE UnlockForCallback \/ BeginCallback
    BY <2>2 DEF UnlockForCallback, BeginCallback
  <2>3. CASE Sleep \/ Timeout \/ TimerSpuriousWake
    BY <2>3 DEF Sleep, Timeout, TimerSpuriousWake, Woken
  <2>4. CASE IdleWakes
    BY <2>4 DEF IdleWakes
  <2>5. CASE TimedWakes
    BY <2>5 DEF TimedWakes, TimerTypeOK
  <2>6. CASE CallbackReturns \/ Relock
    BY <2>6 DEF CallbackReturns, Relock
  <2>7. ASSUME NEW repeats \in BOOLEAN, NEW delay \in Delays, Start(repeats, delay)
        PROVE  TimerInv'
    BY <2>7 DEF Start, MayCall, HoldsMu
  <2>8. CASE Stop
    BY <2>8 DEF Stop, Silenced
  <2>9. CASE TimerNotifies
    BY <2>9 DEF TimerNotifies, Woken
  <2>10. CASE DeleteBegins
    BY <2>10 DEF DeleteBegins, Silenced
  <2>11. CASE DeleteNotifies \/ DeleteJoins
    BY <2>11 DEF DeleteNotifies, DeleteJoins, Woken
  <2>12. CASE Tick
    BY <2>12 DEF Tick
  <2>13. CASE UNCHANGED timer_vars
    BY <2>13 DEF timer_vars
  <2> QED
    BY <2>1, <2>2, <2>3, <2>4, <2>5, <2>6, <2>7, <2>8, <2>9, <2>10, <2>11,
       <2>12, <2>13
    DEF TimerNext, RunLoop
<1> QED
  BY <1>1, <1>2, TimerTypeCorrect, PTL DEF TimerSpec

(* No start is slept through: run_loop sleeps without a deadline only      *)
(* while the timer is not armed, or before the notify_all that will wake   *)
(* it.                                                                     *)
THEOREM IdleTimersAreIdle == TimerSpec => []IdleMeansIdle
  BY InductiveInvariant, PTL DEF TimerInv

(* A callback begins nowhere but after the unlock.                         *)
LEMMA CallbackBegins ==
  ASSUME TimerNext, loop_pc # "callback", loop_pc' = "callback"
  PROVE  loop_pc = "unlocked"
<1> USE DEF timer, calls, history
<1>1. CASE RunLoop \/ TimerSpuriousWake
  BY <1>1 DEF RunLoop, Top, ArmedWaits, ArmedIsDue, Sleep, Timeout, IdleWakes,
    TimedWakes, UnlockForCallback, BeginCallback, CallbackReturns, Relock,
    TimerSpuriousWake, Woken
<1>2. ASSUME NEW repeats \in BOOLEAN, NEW delay \in Delays, Start(repeats, delay)
      PROVE  FALSE
  BY <1>2 DEF Start
<1>3. CASE Stop \/ TimerNotifies \/ DeleteBegins \/ DeleteNotifies \/ DeleteJoins \/ Tick
  BY <1>3 DEF Stop, TimerNotifies, DeleteBegins, DeleteNotifies, DeleteJoins, Tick, Woken
<1> QED
  BY <1>1, <1>2, <1>3 DEF TimerNext

(* A callback begins only for an armed timer whose deadline has passed and *)
(* that has not fired for it yet, unless a call overtook run_loop between  *)
(* its decision and the callback.                                          *)
THEOREM CallbacksAreDue == TimerSpec => FiresOnlyWhenDue
<1>1. TimerInv /\ [TimerNext]_timer_vars =>
        [loop_pc # "callback" /\ loop_pc' = "callback" =>
           (running /\ owed /\ left = 0) \/ overtaken]_timer_vars
  <2> SUFFICES ASSUME TimerInv, TimerNext, loop_pc # "callback", loop_pc' = "callback"
               PROVE  (running /\ owed /\ left = 0) \/ overtaken
    OBVIOUS
  <2>1. loop_pc = "unlocked"
    BY CallbackBegins
  <2> QED
    BY <2>1 DEF TimerInv, StaysDue, ArmedIsOwed, MadeUpItsMind
<1> QED
  BY <1>1, InductiveInvariant, PTL DEF TimerSpec, FiresOnlyWhenDue

(* From a stop or a delete to the next start at most one callback begins:  *)
(* the one run_loop had made up its mind about.                            *)
THEOREM StoppedTimersAreQuiet == TimerSpec => StoppedStaysQuiet
<1>1. TimerInv /\ [TimerNext]_timer_vars =>
        [loop_pc # "callback" /\ loop_pc' = "callback" => quiet # "none"]_timer_vars
  <2> SUFFICES ASSUME TimerInv, TimerNext, loop_pc # "callback", loop_pc' = "callback"
               PROVE  quiet # "none"
    OBVIOUS
  <2>1. loop_pc = "unlocked"
    BY CallbackBegins
  <2> QED
    BY <2>1 DEF TimerInv, SilencedIsOff, MadeUpItsMind
<1> QED
  BY <1>1, InductiveInvariant, PTL DEF TimerSpec, StoppedStaysQuiet
=============================================================================
