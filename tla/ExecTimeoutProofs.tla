------------------------ MODULE ExecTimeoutProofs ------------------------
(***************************************************************************)
(* Theorems about ExecTimeout, for any length of a second, any width of a  *)
(* duration, any default, grace, lag and any value of timeout_seconds.     *)
(***************************************************************************)
EXTENDS ExecTimeout, TLAPS

USE DurationAssumption, AskAssumption, ClockAssumption

---------------------------------------------------------------------------
(* A duration is kept as it is if it fits, and turns negative if it is     *)
(* less than twice too long.                                               *)
LEMMA WrapRange ==
  ASSUME NEW x \in Int
  PROVE  Wrap(x) \in (-Half)..(Half - 1)
BY DEF Wrap

LEMMA WrapFits ==
  ASSUME NEW x \in Int, -Half <= x, x < Half
  PROVE  Wrap(x) = x
<1>1. (x + Half) % (2 * Half) = x + Half
  OBVIOUS
<1>2. QED
  BY <1>1 DEF Wrap

LEMMA WrapOver ==
  ASSUME NEW x \in Int, Half <= x, x < 2 * Half
  PROVE  Wrap(x) < 0
<1>1. (x + Half) % (2 * Half) = x - Half
  OBVIOUS
<1>2. QED
  BY <1>1 DEF Wrap

---------------------------------------------------------------------------
(* What the server makes of timeout_seconds: a limit within a duration, or *)
(* none; none for a negative one; and what was asked for, if that fits.    *)
LEMMA TimeoutIs ==
  ASSUME NEW s \in Int
  PROVE  /\ Timeout(s) \in Int
         /\ Limited(s) => 0 < Timeout(s) /\ Timeout(s) < Half
         /\ s < 0 => ~Limited(s)
         /\ 0 <= s /\ Fits(s) => Timeout(s) = Wanted(s)
<1>1. s * Second \in Int
  OBVIOUS
<1>2. Wrap(s * Second) \in (-Half)..(Half - 1)
  BY <1>1, WrapRange
<1>3. ASSUME 0 < s, Fits(s) PROVE Wrap(s * Second) = s * Second
  <2>1. -Half <= s * Second
    <3>1. 0 <= s * Second
      BY <1>3
    <3>2. QED
      BY <1>1, <3>1
  <2>2. QED
    BY <1>1, <1>3, <2>1, WrapFits DEF Fits
<1>4. QED
  BY <1>2, <1>3 DEF Timeout, Limited, Wanted

(* The watchdog sleeps for the limit or longer, by less than a second.     *)
LEMMA SleepIs ==
  ASSUME NEW s \in Int
  PROVE  /\ Sleep(s) \in Nat
         /\ Limited(s) => Timeout(s) <= Sleep(s) /\ Sleep(s) < Timeout(s) + Second
<1> DEFINE t == Timeout(s)
           c == Ceil(t)
<1>1. t \in Int
  BY TimeoutIs
<1>2. c \in Int /\ t <= c * Second /\ c * Second < t + Second
  <2> HIDE DEF t
  <2>1. /\ (t + Second - 1) \div Second \in Int
        /\ ((t + Second - 1) \div Second) * Second <= t + Second - 1
        /\ t + Second - 1 < ((t + Second - 1) \div Second) * Second + Second
    BY <1>1
  <2>2. QED
    BY <1>1, <2>1 DEF Ceil
<1>3. Limited(s) => c >= 1
  <2> SUFFICES ASSUME 0 < t, c <= 0 PROVE FALSE
    BY <1>1, <1>2 DEF Limited
  <2> HIDE DEF c, t
  <2>1. c * Second <= 0
    BY <1>2
  <2>2. QED
    BY <1>1, <1>2, <2>1
<1>4. Secs(t) \in Nat /\ (Limited(s) => Secs(t) = c)
  BY <1>2, <1>3 DEF Secs
<1>5. QED
  <2> HIDE DEF c
  <2>1. Sleep(s) = Secs(t) * Second
    BY DEF Sleep
  <2>2. Sleep(s) \in Nat
    BY <1>4, <2>1
  <2>3. QED
    BY <1>2, <1>4, <2>1, <2>2

(* Nothing is rounded up of a limit that fits: it is whole seconds.        *)
LEMMA SleepExact ==
  ASSUME NEW s \in Int, 0 <= s, Fits(s)
  PROVE  Limited(s) /\ Sleep(s) = Wanted(s)
<1> DEFINE t == Timeout(s)
<1>1. PICK k \in Int : Wanted(s) = k * Second
  <2>1. CASE s = 0
    BY <2>1 DEF Wanted
  <2>2. CASE s # 0
    BY <2>2 DEF Wanted
  <2>3. QED
    BY <2>1, <2>2
<1>2. t = Wanted(s) /\ t \in Int /\ Wanted(s) > 0
  <2>1. s > 0 => s * Second > 0
    OBVIOUS
  <2>2. QED
    BY <2>1, TimeoutIs DEF Wanted
<1>3. Limited(s)
  BY <1>2 DEF Limited
<1>4. k >= 1
  <2>1. k <= 0 => k * Second <= 0
    OBVIOUS
  <2>2. QED
    BY <1>1, <1>2, <2>1
<1>5. (k * Second + Second - 1) \div Second = k
  <2> DEFINE c == (k * Second + Second - 1) \div Second
  <2>1. /\ c \in Int /\ k * Second \in Int
        /\ c * Second <= k * Second + Second - 1
        /\ k * Second + Second - 1 < c * Second + Second
    OBVIOUS
  <2> HIDE DEF c
  <2>2. c >= k + 1 => c * Second >= k * Second + Second
    BY <2>1
  <2>3. c <= k - 1 => c * Second + Second <= k * Second
    BY <2>1
  <2>4. QED
    BY <2>1, <2>2, <2>3
<1>6. Ceil(t) = k
  BY <1>1, <1>2, <1>5 DEF Ceil
<1> HIDE DEF t
<1>7. QED
  BY <1>1, <1>3, <1>4, <1>6 DEF Sleep, Secs, t

(* A deadline, if there is one, is the limit and all of the grace.         *)
LEMMA DeadlineIs ==
  ASSUME NEW s \in Int, Deadline(s) > 0
  PROVE  Limited(s) /\ Deadline(s) = Timeout(s) + Grace
<1>1. Limited(s)
  BY TimeoutIs DEF Limited, Deadline
<1>2. Timeout(s) + Grace \in Int /\ 0 < Timeout(s) + Grace /\ Timeout(s) + Grace < 2 * Half
  BY <1>1, TimeoutIs
<1>3. CASE Timeout(s) + Grace < Half
  BY <1>1, <1>2, <1>3, WrapFits DEF Deadline
<1>4. CASE Half <= Timeout(s) + Grace
  <2>1. Wrap(Timeout(s) + Grace) < 0
    BY <1>2, <1>4, WrapOver
  <2>2. Wrap(Timeout(s) + Grace) > 0
    BY <1>1 DEF Deadline
  <2>3. QED
    BY <1>2, <2>1, <2>2, WrapRange
<1>5. QED
  BY <1>2, <1>3, <1>4

---------------------------------------------------------------------------
(* The times of a call are in order: nothing is later than the lag and the *)
(* limit allow while the sandbox has never been frozen.                    *)
LEMMA OnTimeInit == Init => TypeOK /\ OnTime
<1> SUFFICES ASSUME Init PROVE TypeOK /\ OnTime
  OBVIOUS
<1>1. TypeOK
  <2>1. 0 \in Times
    BY DEF Times
  <2>2. QED
    BY <2>1 DEF Init, TypeOK, Ended
<1>2. OnTime
  BY DEF Init, OnTime, Ended
<1>3. QED
  BY <1>1, <1>2

LEMMA OnTimeStep ==
  ASSUME TypeOK, OnTime, [Next]_vars
  PROVE  TypeOK' /\ OnTime'
<1> DEFINE z == Sleep(ask)
<1> USE DEF Times, Ended, Waiting, Replies
<1>1. /\ clock \in Nat /\ startAt \in Nat /\ endAt \in Nat
      /\ ask \in Int /\ z \in Nat
  BY SleepIs DEF TypeOK
<1>2. CASE Start
  BY <1>1, <1>2 DEF Start, TypeOK, OnTime
<1>3. CASE Refused
  BY <1>1, <1>3 DEF Refused, TypeOK, OnTime
<1>4. CASE Finish
  BY <1>1, <1>4 DEF Finish, Ends, TypeOK, OnTime
<1>5. CASE Kill
  BY <1>1, <1>5 DEF Kill, Watchdog, Due, Ends, TypeOK, OnTime
<1>6. CASE Answer \/ GiveUp \/ ServerDies
  BY <1>1, <1>6 DEF Answer, GiveUp, ServerDies, TypeOK, OnTime
<1>7. CASE Freeze \/ Thaw
  BY <1>1, <1>7 DEF Freeze, Thaw, TypeOK, OnTime
<1>8. CASE Tick
  BY <1>1, <1>8 DEF Tick, Prompt, Due, TypeOK, OnTime
<1>9. CASE UNCHANGED vars
  BY <1>1, <1>9 DEF vars, TypeOK, OnTime
<1>10. QED
  BY <1>2, <1>3, <1>4, <1>5, <1>6, <1>7, <1>8, <1>9 DEF Next

LEMMA CallsOnTime == Spec => [](TypeOK /\ OnTime)
BY OnTimeInit, OnTimeStep, PTL DEF Spec

(* Every variable keeps its type, and a command ends after it started.     *)
THEOREM ExecTypes == Spec => []TypeOK
BY CallsOnTime, PTL

(* A command without a limit is never killed, one with a limit that a      *)
(* duration can hold not before it has run for it, and in a sandbox never  *)
(* frozen it outruns its limit by no more than the engine's lag.           *)
THEOREM KillInTime == Spec => []KilledInTime
<1>1. TypeOK /\ OnTime => KilledInTime
  <2> SUFFICES ASSUME TypeOK, OnTime PROVE KilledInTime
    OBVIOUS
  <2> DEFINE t == Timeout(ask)
             z == Sleep(ask)
  <2>1. /\ clock \in Nat /\ startAt \in Nat /\ endAt \in Nat /\ ask \in Int
    BY DEF TypeOK, Times
  <2>2. ASSUME cmd = "killed"
        PROVE  ask >= 0 /\ (Fits(ask) => RunTime >= Wanted(ask))
    <3>1. Limited(ask) /\ endAt >= startAt + z
      BY <2>2 DEF OnTime
    <3>2. ask >= 0
      BY <2>1, <3>1, TimeoutIs
    <3>3. t \in Int /\ z \in Nat /\ t <= z /\ (Fits(ask) => Wanted(ask) = t)
      BY <2>1, <3>1, <3>2, TimeoutIs, SleepIs
    <3> HIDE DEF t, z
    <3>4. QED
      BY <2>1, <2>2, <3>1, <3>2, <3>3 DEF RunTime
  <2>3. ASSUME cmd # "none", ask >= 0, Fits(ask), ~froze
        PROVE  RunTime <= Wanted(ask) + Lag
    <3>1. Limited(ask) /\ z = Wanted(ask) /\ z \in Nat
      BY <2>1, <2>3, SleepExact, SleepIs
    <3>2. RunTime <= z + Lag
      <4> HIDE DEF z
      <4>1. CASE cmd = "runs"
        <5>1. clock <= startAt + z + Lag
          BY <2>3, <3>1, <4>1 DEF OnTime, z
        <5>2. QED
          BY <2>1, <3>1, <4>1, <5>1 DEF RunTime
      <4>2. CASE cmd \in Ended
        <5>1. endAt <= startAt + z + Lag
          BY <2>3, <3>1, <4>2 DEF OnTime, z
        <5>2. QED
          BY <2>1, <3>1, <4>2, <5>1 DEF RunTime, Ended
      <4>3. QED
        BY <2>3, <4>1, <4>2 DEF TypeOK, Ended
    <3>3. QED
      BY <3>1, <3>2
  <2>4. QED
    BY <2>2, <2>3 DEF KilledInTime
<1>2. QED
  BY <1>1, CallsOnTime, PTL

---------------------------------------------------------------------------
(* The client gives up on a sandbox never frozen only if the engine is     *)
(* later than the grace allows for.                                        *)
LEMMA GiveUpLate ==
  ASSUME TypeOK, OnTime, GiveUp, 3 * Lag + Second <= Grace
  PROVE  froze
<1> SUFFICES ASSUME ~froze PROVE FALSE
  OBVIOUS
<1> DEFINE t == Timeout(ask)
           z == Sleep(ask)
<1>1. /\ clock \in Nat /\ startAt \in Nat /\ endAt \in Nat /\ ask \in Int
  BY DEF TypeOK, Times
<1>2. /\ t \in Int /\ 0 < t /\ Limited(ask) /\ clock >= t + Grace
      /\ z \in Nat /\ z < t + Second
  BY <1>1, DeadlineIs, TimeoutIs, SleepIs DEF GiveUp
<1> HIDE DEF t, z
<1>3. CASE cmd = "none"
  BY <1>1, <1>2, <1>3 DEF OnTime, GiveUp
<1>4. CASE cmd = "runs"
  <2>1. clock <= startAt + z + Lag /\ startAt <= Lag
    BY <1>2, <1>4 DEF OnTime, z
  <2>2. QED
    BY <1>1, <1>2, <2>1
<1>5. CASE cmd \in Ended
  <2>1. endAt <= startAt + z + Lag /\ startAt <= Lag /\ clock <= endAt + Lag
    BY <1>2, <1>5 DEF OnTime, GiveUp, z
  <2>2. QED
    BY <1>1, <1>2, <2>1
<1>6. QED
  BY <1>3, <1>4, <1>5 DEF TypeOK, Ended

(* The watchdog wins: whoever is told of the deadline, and not of the      *)
(* command's end, asked of a sandbox that was frozen.                      *)
THEOREM WatchdogFirst == Spec => []WatchdogWins
<1>1. Init => WatchdogWins
  BY DEF Init, WatchdogWins
<1>2. TypeOK /\ OnTime /\ WatchdogWins /\ [Next]_vars => WatchdogWins'
  <2> SUFFICES ASSUME TypeOK, OnTime, WatchdogWins, [Next]_vars,
                      3 * Lag + Second <= Grace, reply' = "deadline"
               PROVE  froze'
    BY DEF WatchdogWins
  <2>1. CASE GiveUp
    BY <2>1, GiveUpLate DEF GiveUp, Replies
  <2>2. CASE ~GiveUp
    <3>1. reply = "deadline"
      BY <2>2 DEF Next, vars, Start, Refused, Finish, Kill, Ends, Answer, ServerDies, Replies,
                  Freeze, Thaw, Tick
    <3>2. froze
      BY <3>1 DEF WatchdogWins
    <3>3. QED
      BY <3>2 DEF Next, vars, Start, Refused, Finish, Kill, Ends, Answer, GiveUp, ServerDies,
                  Replies, Freeze, Thaw, Tick
  <2>3. QED
    BY <2>1, <2>2
<1>3. QED
  BY <1>1, <1>2, CallsOnTime, PTL DEF Spec
==========================================================================
