------------------------------- MODULE EspTimer -------------------------------
(***************************************************************************)
(* One timer of esp_timer.h: its run_loop thread, the calls of the program *)
(* (from any thread, the callback included) and the destructor.            *)
(*                                                                         *)
(* run_loop holds Timer::mu except while it waits and from the unlock      *)
(* before the callback to the lock after it.  start and stop take mu too,  *)
(* so they run only then, and their notify_all comes after the unlock; but *)
(* that includes the moment between the unlock and the callback.  The      *)
(* DESTRUCTOR takes no lock at all: it may set its flags and notify        *)
(* between run_loop's look at the predicate and its going to sleep, and    *)
(* between its tests and the callback, so those are steps of their own.    *)
(*                                                                         *)
(* Time is kept relative: a deadline is the time left to it, and Tick      *)
(* brings every deadline nearer.  A deadline that has passed is 0.         *)
(***************************************************************************)
EXTENDS Naturals

CONSTANTS
  Delays,             (* timeouts and periods, in ticks of the clock       *)
  MaxStarts,          (* bound: calls of start_once and start_periodic     *)
  LateStarts,         (* where run_loop may be, between the unlock before  *)
                      (* the callback and the lock after it, when the      *)
                      (* program starts the timer                          *)
  Deletes             (* the program deletes the timer                     *)

ASSUME TimerAssumption ==
  /\ Delays \subseteq Nat
  /\ MaxStarts \in Nat
  /\ LateStarts \subseteq {"unlocked", "callback", "relock"}
  /\ Deletes \in BOOLEAN

VARIABLES
  running, stop_requested, periodic, period_us,  (* Timer's atomics        *)
  left,       (* next_fire_us, as the time left to it                      *)
  loop_pc,    (* where run_loop is                                         *)
  target,     (* run_loop's target, as the time left to it                 *)
  snapshot,   (* periodic and period as run_loop read them before cb       *)
  notify,     (* a notify_all of start or stop is still to come            *)
  destructor, (* how far ~Timer has come                                   *)
  starts,     (* number of starts so far                                   *)
  owed,       (* history: a start or re-arming has not fired yet           *)
  overtaken,  (* history: a call came after run_loop had made up its mind  *)
              (* to call back, and before the callback began               *)
  quiet       (* history: may a callback begin, since the last stop or     *)
              (* delete: "may", only the "late" one, or "none"             *)

timer == <<running, stop_requested, periodic, period_us>>
calls == <<notify, destructor, starts>>
history == <<owed, overtaken, quiet>>
timer_vars == <<timer, left, loop_pc, target, snapshot, calls, history>>

(* none: no thread yet.  top: at the while.  armed: past the tests for     *)
(* stop and running.  *_enter: the predicate was false, mu is still held.  *)
(* *_wait: asleep.  *_woken: mu to be taken again.  due: going to call     *)
(* back.  unlocked: mu released for it.  relock: the callback has          *)
(* returned.  done: left the loop.                                         *)
LoopPcs == {"none", "top", "armed", "idle_enter", "idle_wait", "idle_woken",
            "timed_enter", "timed_wait", "timed_woken", "due", "unlocked",
            "callback", "relock", "done"}

HoldsMu == loop_pc \in {"top", "armed", "idle_enter", "timed_enter", "due"}

TimerInit ==
  /\ running = FALSE /\ stop_requested = FALSE
  /\ periodic = FALSE /\ period_us = 0 /\ left = 0
  /\ loop_pc = "none"
  /\ target = 0
  /\ snapshot = [periodic |-> FALSE, period |-> 0]
  /\ notify = FALSE
  /\ destructor = "no"
  /\ starts = 0
  /\ owed = FALSE /\ overtaken = FALSE /\ quiet = "may"
------------------------------------------------------------------------------
(* The steps of run_loop.                                                  *)
Top ==
  /\ loop_pc = "top"
  /\ loop_pc' = IF stop_requested THEN "done"
                ELSE IF running THEN "armed" ELSE "idle_enter"
  /\ UNCHANGED <<timer, left, target, snapshot, calls, history>>

(* The deadline is in the future: the wait, whose predicate is looked at   *)
(* before it goes to sleep and knows of a destructor that has come.        *)
ArmedWaits ==
  /\ loop_pc = "armed" /\ left > 0
  /\ target' = left
  /\ loop_pc' = IF stop_requested THEN "done" ELSE "timed_enter"
  /\ UNCHANGED <<timer, left, snapshot, calls, history>>

(* The deadline has passed: no flag is looked at again. *)
ArmedIsDue ==
  /\ loop_pc = "armed" /\ left = 0
  /\ loop_pc' = "due"
  /\ UNCHANGED <<timer, left, target, snapshot, calls, history>>

(* Releasing mu and going to sleep. *)
Sleep ==
  /\ \/ loop_pc = "idle_enter" /\ loop_pc' = "idle_wait"
     \/ loop_pc = "timed_enter" /\ loop_pc' = "timed_wait"
  /\ UNCHANGED <<timer, left, target, snapshot, calls, history>>

(* The waits end at a notification, for no reason, or at the deadline. *)
Woken == IF loop_pc = "idle_wait" THEN "idle_woken"
         ELSE IF loop_pc = "timed_wait" THEN "timed_woken" ELSE loop_pc

TimerSpuriousWake ==
  /\ loop_pc \in {"idle_wait", "timed_wait"}
  /\ loop_pc' = Woken
  /\ UNCHANGED <<timer, left, target, snapshot, calls, history>>

Timeout ==
  /\ loop_pc = "timed_wait" /\ target = 0
  /\ loop_pc' = "timed_woken"
  /\ UNCHANGED <<timer, left, target, snapshot, calls, history>>

(* The idle wait's predicate; once it holds, the test that follows it.     *)
IdleWakes ==
  /\ loop_pc = "idle_woken"
  /\ loop_pc' = IF stop_requested THEN "done"
                ELSE IF running THEN "armed" ELSE "idle_enter"
  /\ UNCHANGED <<timer, left, target, snapshot, calls, history>>

(* The timed wait's predicate and the tests that follow it: the timer was  *)
(* deleted, stopped or started again, or the deadline has come.            *)
MutantTimedWakes ==
  /\ loop_pc = "timed_woken"
  /\ loop_pc' = IF stop_requested THEN "done"
                ELSE IF left = target /\ target > 0 THEN "timed_enter" ELSE "due"
  /\ UNCHANGED <<timer, left, target, snapshot, calls, history>>

TimedWakes ==
  /\ loop_pc = "timed_woken"
  /\ loop_pc' = IF stop_requested THEN "done"
                ELSE IF ~running \/ left # target THEN "top"
                ELSE IF target > 0 THEN "timed_enter" ELSE "due"
  /\ UNCHANGED <<timer, left, target, snapshot, calls, history>>

(* The settings are read and mu is released ...                            *)
UnlockForCallback ==
  /\ loop_pc = "due"
  /\ snapshot' = [periodic |-> periodic, period |-> period_us]
  /\ loop_pc' = "unlocked"
  /\ UNCHANGED <<timer, left, target, calls, history>>

(* ... and then the callback begins, whatever was called in between.  What *)
(* it serves is the start that was owed when mu was released.              *)
BeginCallback ==
  /\ loop_pc = "unlocked"
  /\ loop_pc' = "callback"
  /\ owed' = (owed /\ overtaken)
  /\ overtaken' = FALSE
  /\ quiet' = IF quiet = "late" THEN "none" ELSE quiet
  /\ UNCHANGED <<timer, left, target, snapshot, calls>>

CallbackReturns ==
  /\ loop_pc = "callback"
  /\ loop_pc' = "relock"
  /\ UNCHANGED <<timer, left, target, snapshot, calls, history>>

(* With mu again: a periodic timer still running is armed with the period  *)
(* read BEFORE the callback; any other timer is marked as not running.     *)
MutantRelock ==
  /\ loop_pc = "relock"
  /\ \/ /\ snapshot.periodic
        /\ left' = snapshot.period
        /\ owed' = TRUE
        /\ running' = TRUE
     \/ /\ ~snapshot.periodic
        /\ running' = FALSE
        /\ UNCHANGED <<left, owed>>
  /\ loop_pc' = "top"
  /\ UNCHANGED <<stop_requested, periodic, period_us, target, snapshot, calls,
                 overtaken, quiet>>

Relock ==
  /\ loop_pc = "relock"
  /\ \/ /\ snapshot.periodic /\ running
        /\ left' = snapshot.period
        /\ owed' = TRUE
        /\ running' = running
     \/ /\ ~(snapshot.periodic /\ running)
        /\ running' = FALSE
        /\ UNCHANGED <<left, owed>>
  /\ loop_pc' = "top"
  /\ UNCHANGED <<stop_requested, periodic, period_us, target, snapshot, calls,
                 overtaken, quiet>>

RunLoop ==
  \/ Top \/ ArmedWaits \/ ArmedIsDue \/ Sleep \/ Timeout
  \/ IdleWakes \/ TimedWakes
  \/ UnlockForCallback \/ BeginCallback \/ CallbackReturns \/ Relock
------------------------------------------------------------------------------
(* The calls of the program.  After esp_timer_delete was called the handle *)
(* is not used again.                                                      *)
MayCall == ~HoldsMu /\ destructor = "no"

(* run_loop is going to call back whatever happens now, if a deadline it   *)
(* is about to read has passed.                                            *)
MadeUpItsMind == loop_pc \in {"armed", "due", "unlocked"}

(* What a stop or a delete means for the callbacks to come. *)
Silenced ==
  IF quiet # "may" THEN quiet ELSE IF MadeUpItsMind THEN "late" ELSE "none"

(* esp_timer_start_once and esp_timer_start_periodic; a period of 0 is     *)
(* refused.  The first start creates the run_loop thread.                  *)
Start(repeats, delay) ==
  /\ MayCall
  /\ starts < MaxStarts
  /\ loop_pc \in {"unlocked", "callback", "relock"} => loop_pc \in LateStarts
  /\ repeats => delay > 0
  /\ periodic' = repeats
  /\ period_us' = IF repeats THEN delay ELSE 0
  /\ left' = delay
  /\ running' = TRUE
  /\ loop_pc' = IF loop_pc = "none" THEN "top" ELSE loop_pc
  /\ notify' = TRUE
  /\ starts' = starts + 1
  /\ owed' = TRUE /\ quiet' = "may"
  /\ overtaken' = (overtaken \/ MadeUpItsMind)
  /\ UNCHANGED <<stop_requested, target, snapshot, destructor>>

(* esp_timer_stop: a callback that has begun, or for which mu was released *)
(* already, goes on.                                                       *)
Stop ==
  /\ MayCall
  /\ running' = FALSE
  /\ notify' = TRUE
  /\ owed' = FALSE /\ quiet' = Silenced
  /\ overtaken' = (overtaken \/ MadeUpItsMind)
  /\ UNCHANGED <<stop_requested, periodic, period_us, left, loop_pc, target,
                 snapshot, destructor, starts>>

MutantTimerNotifies ==
  /\ notify
  /\ notify' = FALSE
  /\ UNCHANGED <<timer, left, loop_pc, target, snapshot, destructor, starts,
                 history>>

TimerNotifies ==
  /\ notify
  /\ notify' = FALSE
  /\ loop_pc' = Woken
  /\ UNCHANGED <<timer, left, target, snapshot, destructor, starts, history>>

(* ~Timer, without mu: the flags, notify_all, then the join.  A timer that *)
(* deletes itself in its callback joins its own thread, which std::thread  *)
(* refuses with an exception: the program does not do it.                  *)
DeleteBegins ==
  /\ Deletes
  /\ destructor = "no" /\ ~notify
  /\ destructor' = "flags"
  /\ stop_requested' = TRUE
  /\ running' = FALSE
  /\ owed' = FALSE /\ quiet' = Silenced
  /\ overtaken' = (overtaken \/ MadeUpItsMind)
  /\ UNCHANGED <<periodic, period_us, left, loop_pc, target, snapshot, notify,
                 starts>>

DeleteNotifies ==
  /\ destructor = "flags"
  /\ destructor' = "join"
  /\ loop_pc' = Woken
  /\ UNCHANGED <<timer, left, target, snapshot, notify, starts, history>>

DeleteJoins ==
  /\ destructor = "join"
  /\ loop_pc \in {"none", "done"}
  /\ destructor' = "deleted"
  /\ UNCHANGED <<timer, left, loop_pc, target, snapshot, notify, starts,
                 history>>

Tick ==
  /\ left > 0 \/ target > 0
  /\ left' = IF left > 0 THEN left - 1 ELSE 0
  /\ target' = IF target > 0 THEN target - 1 ELSE 0
  /\ UNCHANGED <<timer, loop_pc, snapshot, calls, history>>
------------------------------------------------------------------------------
TimerNext ==
  \/ RunLoop \/ TimerSpuriousWake
  \/ \E repeats \in BOOLEAN, delay \in Delays : Start(repeats, delay)
  \/ Stop \/ TimerNotifies
  \/ DeleteBegins \/ DeleteNotifies \/ DeleteJoins
  \/ Tick

TimerSpec == TimerInit /\ [][TimerNext]_timer_vars

(* The run_loop thread is scheduled, time passes, a call that was made     *)
(* runs to its end and the callback returns.  Nobody has to make calls.    *)
TimerFairness ==
  /\ WF_timer_vars(RunLoop)
  /\ WF_timer_vars(Tick)
  /\ WF_timer_vars(TimerNotifies)
  /\ WF_timer_vars(DeleteNotifies)
  /\ WF_timer_vars(DeleteJoins)

TimerFairSpec == TimerSpec /\ TimerFairness
------------------------------------------------------------------------------
(* The type invariant; a periodic timer's period is positive, so it never  *)
(* fires without pause.                                                    *)
TimerTypeOK ==
  /\ running \in BOOLEAN /\ stop_requested \in BOOLEAN /\ periodic \in BOOLEAN
  /\ period_us \in Nat /\ (period_us = 0 => periodic = FALSE)
  /\ left \in Nat /\ target \in Nat
  /\ loop_pc \in LoopPcs
  /\ snapshot \in [periodic : BOOLEAN, period : Nat]
  /\ snapshot.period = 0 => snapshot.periodic = FALSE
  /\ notify \in BOOLEAN
  /\ destructor \in {"no", "flags", "join", "deleted"}
  /\ starts \in Nat
  /\ owed \in BOOLEAN /\ overtaken \in BOOLEAN
  /\ quiet \in {"may", "late", "none"}

(* A callback begins for an armed timer whose time has come, as the last   *)
(* start left it: never early, never on the deadline of a start that a     *)
(* later one replaced.  The exception is a call that overtakes run_loop    *)
(* after it made up its mind (esp_timer.h:124-129): esp_timer_stop may     *)
(* return there, and the callback begins all the same.                     *)
FiresOnlyWhenDue ==
  [][loop_pc # "callback" /\ loop_pc' = "callback" =>
       (running /\ owed /\ left = 0) \/ overtaken]_timer_vars

(* That is one callback at most: between esp_timer_stop or esp_timer_delete*)
(* and the next start no callback begins, except a single one for which    *)
(* run_loop had made up its mind before the call; a periodic timer that is *)
(* stopped while its callback runs is not armed again (esp_timer.h:131).   *)
StoppedStaysQuiet ==
  [][loop_pc # "callback" /\ loop_pc' = "callback" => quiet # "none"]_timer_vars

(* Whoever sleeps with no deadline has nothing to do, or is about to be    *)
(* told: while the destructor is not involved, no start is slept through.  *)
IdleMeansIdle ==
  loop_pc \in {"idle_enter", "idle_wait"} /\ destructor = "no" =>
    ~running \/ notify

(* A start that returned ESP_OK fires, unless the timer is stopped or      *)
(* deleted first; a periodic timer fires again and again.                  *)
StartFires == owed ~> ~owed

(* esp_timer_delete returns. *)
DeleteReturns == destructor = "flags" ~> destructor = "deleted"
=============================================================================
