---------------------------- MODULE ExecTimeout ----------------------------
(***************************************************************************)
(* One peapod_exec with a time limit: what the MCP server makes of         *)
(* timeout_seconds (internal/mcpserver/server.go), what Manager.Exec makes *)
(* of that (internal/sandbox/manager.go: a watchdog in the sandbox, a      *)
(* later deadline for the client) and the race of the two, while the       *)
(* sandbox may be frozen under the command (internal/driver/oci/oci.go).   *)
(* Durations are ticks: Second of them are a second, and they wrap around  *)
(* as an int64 of nanoseconds does.                                        *)
(***************************************************************************)
EXTENDS Integers

CONSTANTS
    Second,    \* ticks in a second: time.Second
    Half,      \* durations are in -Half .. Half - 1
    Default,   \* defaultExecTimeout
    Grace,     \* timeoutGrace
    Asks,      \* the values of timeout_seconds
    Lag,       \* the longest a start, a kill or an answer may be late
    MaxClock,  \* bound: the clock stops here
    Faults     \* "freeze": the sandbox is paused; "client": the server dies

ASSUME DurationAssumption ==
    /\ Second \in Nat \ {0} /\ Half \in Nat \ {0}
    /\ Default \in 1..(Half - 1) /\ \E k \in 1..Default : Default = k * Second
    /\ Grace \in 0..(Half - 1)
ASSUME AskAssumption == Asks \subseteq Int
ASSUME ClockAssumption == Lag \in Nat /\ MaxClock \in Nat

VARIABLES
    clock,     \* ticks since the server called docker exec
    ask,       \* timeout_seconds of this call
    cmd,       \* the command: "none", "runs", "exited", "killed"
    startAt,   \* when it started
    endAt,     \* when it ended
    frozen,    \* is the sandbox paused
    froze,     \* history: it has been, since the call
    reply      \* how the call came back: see TypeOK

vars == <<clock, ask, cmd, startAt, endAt, frozen, froze, reply>>

Times == 0..MaxClock
Ended == {"exited", "killed"}

TypeOK ==
    /\ clock \in Times
    /\ ask \in Asks
    /\ cmd \in {"none", "runs", "exited", "killed"}
    /\ startAt \in Times /\ endAt \in Times
    /\ frozen \in BOOLEAN /\ froze \in BOOLEAN
    /\ reply \in {"none", "exit", "refused", "deadline", "dead"}
    /\ frozen => froze
    /\ cmd \in Ended => startAt <= endAt

---------------------------------------------------------------------------
(* The limits.                                                             *)

(* Arithmetic on time.Duration.                                            *)
Wrap(x) == ((x + Half) % (2 * Half)) - Half

(* The handler's switch, and the product that may wrap around.             *)
Timeout(s) == IF s = 0 THEN Default ELSE IF s < 0 THEN 0 ELSE Wrap(s * Second)

(* Mutant: a timeout of zero is a limit too.                               *)
LimitedAtZero(s) == Timeout(s) >= 0

Limited(s) == Timeout(s) > 0

Ceil(t) == (t + Second - 1) \div Second

(* timeoutWrap: the whole seconds the watchdog sleeps.                     *)
Secs(t) == IF Ceil(t) < 1 THEN 1 ELSE Ceil(t)

Sleep(s) == Secs(Timeout(s)) * Second

(* Mutant: the client waits no longer than the watchdog.                   *)
NoGrace(s) == Timeout(s)

Deadline(s) == IF Limited(s) THEN Wrap(Timeout(s) + Grace) ELSE Timeout(s)

---------------------------------------------------------------------------
Init ==
    /\ clock = 0
    /\ ask \in Asks
    /\ cmd = "none"
    /\ startAt = 0 /\ endAt = 0
    /\ frozen = FALSE /\ froze = FALSE
    /\ reply = "none"

Waiting == reply = "none"

(* The script starts the command, and the watchdog beside it.              *)
Start ==
    /\ Waiting /\ cmd = "none" /\ ~frozen
    /\ cmd' = "runs"
    /\ startAt' = clock
    /\ UNCHANGED <<clock, ask, endAt, frozen, froze, reply>>

(* docker exec refuses a paused container: an exit code like any other.    *)
Refused ==
    /\ Waiting /\ cmd = "none" /\ frozen
    /\ reply' = "refused"
    /\ UNCHANGED <<clock, ask, cmd, startAt, endAt, frozen, froze>>

(* Mutant: the time of the end is not taken.                               *)
EndsUnseen(s) == cmd' = s /\ UNCHANGED <<clock, ask, startAt, endAt, frozen, froze, reply>>

Ends(s) == /\ cmd' = s
           /\ endAt' = clock
           /\ UNCHANGED <<clock, ask, startAt, frozen, froze, reply>>

(* The command ends by itself, if it ever does.                            *)
Finish == cmd = "runs" /\ ~frozen /\ Ends("exited")

(* The watchdog has slept: a sleep goes by the clock even in a frozen      *)
(* container, but nothing in one acts.                                     *)
Due == Limited(ask) /\ clock >= startAt + Sleep(ask)

(* Mutant: the command is not wrapped.                                     *)
NoWatchdog == FALSE

Watchdog == cmd = "runs" /\ ~frozen /\ Due

Kill == Watchdog /\ Ends("killed")

Replies(r) == /\ reply' = r
              /\ UNCHANGED <<clock, ask, cmd, startAt, endAt, frozen, froze>>

(* docker exec passes on how the command ended: 137 if it was killed.      *)
Answer == Waiting /\ cmd \in Ended /\ ~frozen /\ Replies("exit")

(* The deadline kills docker exec: the caller gets -1, the command nothing.*)
GiveUp == Waiting /\ Deadline(ask) > 0 /\ clock >= Deadline(ask) /\ Replies("deadline")

ServerDies == "client" \in Faults /\ Waiting /\ Replies("dead")

(* The idle-pause loop, or any other caller, freezes the sandbox; another  *)
(* call may thaw it.                                                       *)
Freeze == /\ "freeze" \in Faults /\ ~frozen
          /\ frozen' = TRUE /\ froze' = TRUE
          /\ UNCHANGED <<clock, ask, cmd, startAt, endAt, reply>>

Thaw == /\ frozen /\ frozen' = FALSE
        /\ UNCHANGED <<clock, ask, cmd, startAt, endAt, froze, reply>>
---------------------------------------------------------------------------
(* Lag says how slow the engine may be: with starting or refusing the      *)
(* command, and with the rest while the sandbox is never frozen.           *)
Prompt ==
    /\ cmd = "none" /\ Waiting => clock < Lag
    /\ ~froze => /\ cmd = "runs" /\ Due => clock < startAt + Sleep(ask) + Lag
                 /\ cmd \in Ended /\ Waiting => clock < endAt + Lag

Tick == /\ clock < MaxClock /\ Prompt
        /\ clock' = clock + 1
        /\ UNCHANGED <<ask, cmd, startAt, endAt, frozen, froze, reply>>

Next == \/ Start \/ Refused \/ Finish \/ Kill \/ Answer
        \/ GiveUp \/ ServerDies \/ Freeze \/ Thaw \/ Tick

Spec == Init /\ [][Next]_vars

(* Time passes; what is due is done, a command need not end.               *)
LiveSpec == /\ Spec
            /\ WF_vars(Start \/ Refused) /\ WF_vars(Kill)
            /\ WF_vars(Answer) /\ WF_vars(GiveUp) /\ WF_vars(Tick)

---------------------------------------------------------------------------
(* Properties.  "max seconds to wait; omit or 0 = 120s default, -1 = no    *)
(* limit.  Enforced inside the sandbox (the command is killed)".           *)

(* What was asked for, if a duration can hold it.                          *)
Fits(s) == s * Second < Half
Wanted(s) == IF s = 0 THEN Default ELSE s * Second

(* How long the command ran, or has run so far.                            *)
RunTime == (IF cmd = "runs" THEN clock ELSE endAt) - startAt

(* A command without a limit is never killed, and one with a limit not     *)
(* before it has run for it; in a sandbox that is never frozen it outruns  *)
(* its limit by no more than the engine is late with the kill: neither the *)
(* rounding up to seconds nor the least sleep of one adds anything.        *)
KilledInTime ==
    /\ cmd = "killed" => /\ ask >= 0
                         /\ Fits(ask) => RunTime >= Wanted(ask)
    /\ cmd # "none" /\ ask >= 0 /\ Fits(ask) /\ ~froze =>
          RunTime <= Wanted(ask) + Lag

(* "so the watchdog (and its exit code 137) wins the race": if the engine  *)
(* is late by less than the grace leaves, the caller of a sandbox that is  *)
(* never frozen is never told less than how the command ended.             *)
WatchdogWins ==
    3 * Lag + Second <= Grace /\ reply = "deadline" => froze

(* "cancelling only the client process would leave the command running in  *)
(* the container": the limit ends the command of a sandbox that is not     *)
(* frozen, its caller gone or not, and it ends the call even of a frozen   *)
(* one, while the grace fits too.                                          *)
Bounded == cmd = "runs" /\ ask >= 0 /\ Fits(ask)
Awaited == ask >= 0 /\ Fits(ask) /\ Wanted(ask) + Grace < Half

LimitHolds == /\ Bounded ~> (cmd # "runs" \/ frozen)
              /\ Awaited ~> ~Waiting

---------------------------------------------------------------------------
(* The inductive invariant behind the theorems of ExecTimeoutProofs.       *)
OnTime ==
    /\ cmd # "none" => startAt <= clock
    /\ cmd \in Ended => endAt <= clock
    /\ cmd = "killed" => /\ Limited(ask)
                         /\ endAt >= startAt + Sleep(ask)
    /\ cmd = "none" /\ Waiting => clock <= Lag
    /\ startAt <= Lag
    /\ ~froze =>
          /\ cmd = "runs" /\ Limited(ask) =>
                clock <= startAt + Sleep(ask) + Lag
          /\ cmd \in Ended /\ Limited(ask) =>
                endAt <= startAt + Sleep(ask) + Lag
          /\ cmd \in Ended /\ Waiting => clock <= endAt + Lag
============================================================================
