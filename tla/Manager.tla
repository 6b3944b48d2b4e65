------------------------------ MODULE Manager ------------------------------
(***************************************************************************)
(* The nucleo of Peapod (internal/sandbox/manager.go) over the container   *)
(* engine as the OCI driver uses it (internal/driver/oci/oci.go), run by   *)
(* several processes at once: callers of Create, Exec, Destroy, Pause and  *)
(* Resume (CLI processes, MCP requests, the dashboard), reapers (Reap) and *)
(* idle pausers (PauseIdle).  The processes share only the engine's        *)
(* containers and the audit files, one per sandbox; nothing locks either.  *)
(*                                                                         *)
(* A step is one runtime call or one file operation: two of them in the    *)
(* source are two steps here, and any other process may run in between.    *)
(* Looking a sandbox up (Resolve) only reads, so it is the first half of   *)
(* the step that starts a call.                                            *)
(***************************************************************************)
EXTENDS Integers, Sequences, FiniteSets

CONSTANTS
    Ids,        \* sandbox identifiers newID may draw
    Cmds,       \* command invocations; each is the argument of one Exec
    Clients,    \* processes that call Create, Exec, Destroy, Pause, Resume
    Timed,      \* the clients whose Exec carries a timeout
    Reapers,    \* processes that call Reap
    Pausers,    \* processes that call PauseIdle
    MaxAge,     \* Reap's argument
    MaxIdle,    \* PauseIdle's argument
    MaxClock,   \* bound: the clock stops here
    Faults,     \* what may go wrong: see AllFaults
    NoId, NoCmd \* "no sandbox", "no command"

AllFaults == {"crash",     \* a process dies, its calls half done
              "disk",      \* the audit file cannot be opened, or not be written
              "engine",    \* a runtime call fails and changes nothing
              "stop",      \* a container dies by itself
              "deadline"}  \* an exec answers while its deadline kills it

Procs == Clients \cup Reapers \cup Pausers

ASSUME ProcsAssumption ==
    /\ Timed \subseteq Clients
    /\ Clients \cap Reapers = {}
    /\ Clients \cap Pausers = {}
    /\ Reapers \cap Pausers = {}
ASSUME NamesAssumption == NoId \notin Ids /\ NoCmd \notin Cmds
ASSUME TimesAssumption == MaxAge \in Nat /\ MaxIdle \in Nat /\ MaxClock \in Nat
ASSUME FaultsAssumption == Faults \subseteq AllFaults

VARIABLES
    clock,     \* time.Now()
    box,       \* box[i]: the container of sandbox i
    created,   \* created[i]: the peapod.created label
    mtime,     \* mtime[i]: the audit file's modification time, or NoFile
    trail,     \* trail[i]: the commands in the audit file, oldest first
    torn,      \* the sandboxes whose audit file ends within a line
    lost,      \* history: commands that ran, with no line because of a fault
    spared,    \* history: sandboxes that are there because Reap's rm failed
    job,       \* job[c]: what became of command c in its container
    at,        \* at[c]: the sandbox command c was sent to
    pc,        \* pc[p]: the runtime or file operation process p does next
    tgt,       \* tgt[p]: the sandbox its call is about
    cmd,       \* cmd[p]: the command its Exec runs
    pending,   \* pending[p]: listed sandboxes its loop has not come to
    seen,      \* history, seen[p]: the sandboxes in its loop's list
    cutoff     \* cutoff[p]: the instant its loop compares activity with

boxVars  == <<box, created, spared>>
fileVars == <<mtime, trail, torn, lost>>
jobVars  == <<job, at>>
callVars == <<tgt, cmd>>
loopVars == <<pending, seen, cutoff>>
vars == <<clock, boxVars, fileVars, jobVars, pc, callVars, loopVars>>

NoFile == -1

(* "created" is a container docker has made and not started yet; "stopped" *)
(* one that failed to start or died.                                       *)
BoxStates == {"unused", "pulling", "created", "running", "paused", "stopped", "gone"}
Listed    == {"created", "running", "paused", "stopped"}   \* docker ps -a
JobStates == {"new", "called", "running", "exited", "killed", "refused", "missed"}
Ended     == {"exited", "killed"}
Ran       == Ended \cup {"running"}
ClientPcs == {"idle", "run", "resume", "exec", "wait", "record",
              "rm", "unlink", "pause", "unpause"}
ReaperPcs == {"idle", "inspect", "cutoff", "scan", "rm", "unlink"}
PauserPcs == {"idle", "inspect", "cutoff", "scan", "freeze"}
Preparing == {"idle", "inspect", "cutoff"}   \* a loop before its cutoff is fixed
Between   == {"idle", "inspect", "cutoff", "scan"}   \* a process inside no call

TypeOK ==
    /\ clock \in 0..MaxClock
    /\ box \in [Ids -> BoxStates]
    /\ created \in [Ids -> 0..MaxClock]
    /\ mtime \in [Ids -> {NoFile} \cup 0..MaxClock]
    /\ trail \in [Ids -> Seq(Cmds)]
    /\ torn \in SUBSET Ids
    /\ lost \in SUBSET Cmds
    /\ spared \in SUBSET Ids
    /\ job \in [Cmds -> JobStates]
    /\ at \in [Cmds -> Ids \cup {NoId}]
    /\ pc \in [Procs -> ClientPcs \cup ReaperPcs \cup PauserPcs]
    /\ tgt \in [Procs -> Ids \cup {NoId}]
    /\ cmd \in [Procs -> Cmds \cup {NoCmd}]
    /\ pending \in [Procs -> SUBSET Ids]
    /\ seen \in [Procs -> SUBSET Ids]
    /\ cutoff \in [Procs -> Int]
    /\ \A p \in Clients : pc[p] \in ClientPcs
    /\ \A p \in Reapers : pc[p] \in ReaperPcs
    /\ \A p \in Pausers : pc[p] \in PauserPcs
    /\ \A p \in Procs : pc[p] \notin Between => tgt[p] \in Ids
    /\ \A p \in Clients : pc[p] \in {"resume", "exec", "wait", "record"} => cmd[p] \in Cmds

Init ==
    /\ clock = 0
    /\ box = [i \in Ids |-> "unused"]
    /\ created = [i \in Ids |-> 0]
    /\ mtime = [i \in Ids |-> NoFile]
    /\ trail = [i \in Ids |-> <<>>]
    /\ torn = {} /\ lost = {} /\ spared = {}
    /\ job = [c \in Cmds |-> "new"]
    /\ at = [c \in Cmds |-> NoId]
    /\ pc = [p \in Procs |-> "idle"]
    /\ tgt = [p \in Procs |-> NoId]
    /\ cmd = [p \in Procs |-> NoCmd]
    /\ pending = [p \in Procs |-> {}]
    /\ seen = [p \in Procs |-> {}]
    /\ cutoff = [p \in Procs |-> 0]

---------------------------------------------------------------------------
(* Shared pieces.                                                          *)

Goto(p, l) == pc' = [pc EXCEPT ![p] = l]

(* Mutant: a client goes on as if it were a loop.                          *)
LeaveAsLoop(p) == /\ Goto(p, "scan")
                  /\ tgt' = [tgt EXCEPT ![p] = NoId]
                  /\ cmd' = [cmd EXCEPT ![p] = NoCmd]

(* The call of p is over: a client returns to its caller, a loop goes on.  *)
Leave(p) == /\ Goto(p, IF p \in Clients THEN "idle" ELSE "scan")
            /\ tgt' = [tgt EXCEPT ![p] = NoId]
            /\ cmd' = [cmd EXCEPT ![p] = NoCmd]

(* The commands running in sandbox i die with its container.               *)
KillJobs(i) == job' = [c \in Cmds |-> IF at[c] = i /\ job[c] = "running"
                                      THEN "killed" ELSE job[c]]

(* The command of p has been started, and will not be written down.        *)
Loses(p) == lost' = lost \cup {c \in Cmds : c = cmd[p] /\ job[c] \in Ran}

LastActivity(i) == IF mtime[i] # NoFile THEN mtime[i] ELSE created[i]

(* The answer of ps -a: every container, started or not.                   *)
ListedIds == {i \in Ids : box[i] \in Listed}

---------------------------------------------------------------------------
(* Create.  The id is fresh, and the creation label is stamped before the  *)
(* engine pulls the image, makes the container and starts it.              *)

CreateBegin(p, i) ==
    /\ pc[p] = "idle" /\ box[i] = "unused"
    /\ box' = [box EXCEPT ![i] = "pulling"]
    /\ created' = [created EXCEPT ![i] = clock]
    /\ tgt' = [tgt EXCEPT ![p] = i]
    /\ Goto(p, "run")
    /\ UNCHANGED <<clock, spared, fileVars, jobVars, cmd, loopVars>>

(* docker run: pull and create, then start; the call may fail at both.  If *)
(* its client dies the engine stops in the middle of either.               *)
EngineCreate(i) ==
    /\ box[i] = "pulling"
    /\ \/ box' = [box EXCEPT ![i] = "created"]
       \/ Faults \cap {"engine", "crash"} # {} /\ box' = [box EXCEPT ![i] = "gone"]
    /\ UNCHANGED <<clock, created, spared, fileVars, jobVars, pc, callVars, loopVars>>

EngineStart(i) ==
    /\ box[i] = "created"
    /\ \/ box' = [box EXCEPT ![i] = "running"]
       \/ Faults \cap {"engine", "crash"} # {} /\ box' = [box EXCEPT ![i] = "stopped"]
    /\ UNCHANGED <<clock, created, spared, fileVars, jobVars, pc, callVars, loopVars>>

CreateReturn(p) ==
    /\ pc[p] = "run" /\ box[tgt[p]] \notin {"pulling", "created"}
    /\ Leave(p)
    /\ UNCHANGED <<clock, boxVars, fileVars, jobVars, loopVars>>

---------------------------------------------------------------------------
(* Exec.  Resolve reads the paused flag once; a paused sandbox is resumed  *)
(* first, and whether that worked is not checked.                          *)

Exec(p, i, c) ==
    /\ pc[p] = "idle" /\ box[i] \in Listed /\ job[c] = "new"
    /\ job' = [job EXCEPT ![c] = "called"]
    /\ at' = [at EXCEPT ![c] = i]
    /\ tgt' = [tgt EXCEPT ![p] = i]
    /\ cmd' = [cmd EXCEPT ![p] = c]
    /\ Goto(p, IF box[i] = "paused" THEN "resume" ELSE "exec")
    /\ UNCHANGED <<clock, boxVars, fileVars, loopVars>>

(* docker unpause works on a paused container only.                        *)
Unpause(i) == box' = [box EXCEPT ![i] = IF @ = "paused" THEN "running" ELSE @]

(* Mutant: Exec knows that the sandbox is paused and does nothing about it. *)
ResumeSkipped(p) == /\ pc[p] = "resume"
                    /\ Goto(p, "exec")
                    /\ UNCHANGED <<clock, boxVars, fileVars, jobVars, callVars, loopVars>>

AutoResume(p) ==
    /\ pc[p] = "resume"
    /\ \/ Unpause(tgt[p])
       \/ "engine" \in Faults /\ UNCHANGED box
    /\ Goto(p, "exec")
    /\ UNCHANGED <<clock, created, spared, fileVars, jobVars, callVars, loopVars>>

(* docker exec starts the command, or exits non-zero because the container *)
(* is paused or not running: that is a result (err = nil) and is recorded. *)
Started(i) == IF box[i] = "running" THEN "running"
              ELSE IF box[i] = "paused" THEN "refused" ELSE "missed"

ExecStart(p) ==
    /\ pc[p] = "exec"
    /\ job' = [job EXCEPT ![cmd[p]] = Started(tgt[p])]
    /\ Goto(p, IF Started(tgt[p]) = "running" THEN "wait" ELSE "record")
    /\ UNCHANGED <<clock, boxVars, fileVars, at, callVars, loopVars>>

(* The runtime could not be launched: an error, and nothing is recorded.   *)
ExecLaunchFails(p) ==
    /\ pc[p] = "exec" /\ "engine" \in Faults
    /\ job' = [job EXCEPT ![cmd[p]] = "missed"]
    /\ Leave(p)
    /\ UNCHANGED <<clock, boxVars, fileVars, at, loopVars>>

(* The command ends, by itself or by the watchdog inside the sandbox;      *)
(* nothing runs, the watchdog neither, while the container is frozen.      *)
JobExit(c) ==
    /\ job[c] = "running" /\ box[at[c]] = "running"
    /\ job' = [job EXCEPT ![c] = "exited"]
    /\ UNCHANGED <<clock, boxVars, fileVars, at, pc, callVars, loopVars>>

ExecReturn(p) ==
    /\ pc[p] = "wait" /\ job[cmd[p]] \in Ended
    /\ Goto(p, "record")
    /\ UNCHANGED <<clock, boxVars, fileVars, jobVars, callVars, loopVars>>

(* Mutant: only the watchdog inside the sandbox ends a call.               *)
GivesUpIfAwake(p) == p \in Timed /\ job[cmd[p]] = "running" /\ box[tgt[p]] = "running"

(* Mutant: an exec that timed out is not recorded.                         *)
GiveUpSilently(p) ==
    /\ pc[p] = "wait" /\ p \in Timed /\ job[cmd[p]] = "running"
    /\ Leave(p)
    /\ UNCHANGED <<clock, boxVars, fileVars, jobVars, loopVars>>

(* The client-side deadline (watchdog + timeoutGrace) kills docker exec,   *)
(* whatever the container does; the command itself keeps running.  The     *)
(* killed process is a result with exit code -1, recorded like any other.  *)
GivesUp(p) == p \in Timed /\ job[cmd[p]] = "running"

ExecGiveUp(p) ==
    /\ pc[p] = "wait" /\ GivesUp(p)
    /\ Goto(p, "record")
    /\ UNCHANGED <<clock, boxVars, fileVars, jobVars, callVars, loopVars>>

(* docker exec exits with 0 in the instant its deadline kills it: Run      *)
(* returns the context's error, and a command that ran is not recorded.    *)
ExecResultLost(p) ==
    /\ pc[p] = "wait" /\ p \in Timed /\ job[cmd[p]] = "exited" /\ "deadline" \in Faults
    /\ Loses(p)
    /\ Leave(p)
    /\ UNCHANGED <<clock, boxVars, mtime, trail, torn, jobVars, loopVars>>

(* One line is appended, to a file made if it is missing.  What follows a  *)
(* line that was cut short is part of that line, which nobody can read.    *)
WriteLine(p) ==
    /\ mtime' = [mtime EXCEPT ![tgt[p]] = clock]
    /\ torn' = torn \ {tgt[p]}
    /\ IF tgt[p] \in torn
       THEN Loses(p) /\ UNCHANGED trail
       ELSE trail' = [trail EXCEPT ![tgt[p]] = Append(@, cmd[p])] /\ UNCHANGED lost

(* None of these is an error for Exec: the file does not open, or opens (a *)
(* missing one is made) and takes nothing, or the disk is full in the      *)
(* middle of the line.                                                     *)
WriteFails(p) ==
    /\ "disk" \in Faults
    /\ Loses(p)
    /\ UNCHANGED trail
    /\ \/ UNCHANGED <<mtime, torn>>
       \/ mtime[tgt[p]] = NoFile /\ mtime' = [mtime EXCEPT ![tgt[p]] = clock] /\ UNCHANGED torn
       \/ mtime' = [mtime EXCEPT ![tgt[p]] = clock] /\ torn' = torn \cup {tgt[p]}

Record(p) ==
    /\ pc[p] = "record"
    /\ WriteLine(p) \/ WriteFails(p)
    /\ Leave(p)
    /\ UNCHANGED <<clock, boxVars, jobVars, loopVars>>

---------------------------------------------------------------------------
(* Destroy: rm -f, then unlink of the audit file.  Reap runs the same two  *)
(* steps.  rm -f of a container that is gone succeeds or fails, as the     *)
(* runtime's version has it; only success goes on to the unlink.           *)

Destroy(p, i) ==
    /\ pc[p] = "idle" /\ box[i] \in Listed
    /\ tgt' = [tgt EXCEPT ![p] = i]
    /\ Goto(p, "rm")
    /\ UNCHANGED <<clock, boxVars, fileVars, jobVars, cmd, loopVars>>

DestroyRm(p) ==
    /\ pc[p] = "rm"
    /\ box' = [box EXCEPT ![tgt[p]] = "gone"]
    /\ spared' = spared \ {tgt[p]}
    /\ KillJobs(tgt[p])
    /\ Goto(p, "unlink")
    /\ UNCHANGED <<clock, created, fileVars, at, callVars, loopVars>>

DestroyFails(p) ==
    /\ pc[p] = "rm"
    /\ \/ box[tgt[p]] = "gone" /\ UNCHANGED spared
       \/ /\ box[tgt[p]] # "gone" /\ "engine" \in Faults
          /\ spared' = IF p \in Reapers THEN spared \cup {tgt[p]} ELSE spared
    /\ Leave(p)
    /\ UNCHANGED <<clock, box, created, fileVars, jobVars, loopVars>>

DestroyUnlink(p) ==
    /\ pc[p] = "unlink"
    /\ mtime' = [mtime EXCEPT ![tgt[p]] = NoFile]
    /\ trail' = [trail EXCEPT ![tgt[p]] = <<>>]
    /\ torn' = torn \ {tgt[p]}
    /\ Leave(p)
    /\ UNCHANGED <<clock, lost, boxVars, jobVars, loopVars>>

---------------------------------------------------------------------------
(* Pause and Resume: resolve, then one runtime call.                       *)

Steer(p, i, op) ==
    /\ pc[p] = "idle" /\ box[i] \in Listed
    /\ tgt' = [tgt EXCEPT ![p] = i]
    /\ Goto(p, op)
    /\ UNCHANGED <<clock, boxVars, fileVars, jobVars, cmd, loopVars>>

(* Mutant: pause marks whatever it finds as paused.                        *)
FrozenBlindly(s) == "paused"

(* docker pause works on a running container only.                         *)
Frozen(s) == IF s = "running" THEN "paused" ELSE s

Freeze(i) == box' = [box EXCEPT ![i] = Frozen(@)]

PauseBox(p) ==
    /\ pc[p] = "pause"
    /\ Freeze(tgt[p]) \/ ("engine" \in Faults /\ UNCHANGED box)
    /\ Leave(p)
    /\ UNCHANGED <<clock, created, spared, fileVars, jobVars, loopVars>>

ResumeBox(p) ==
    /\ pc[p] = "unpause"
    /\ Unpause(tgt[p]) \/ ("engine" \in Faults /\ UNCHANGED box)
    /\ Leave(p)
    /\ UNCHANGED <<clock, created, spared, fileVars, jobVars, loopVars>>

---------------------------------------------------------------------------
(* The loops' listing is two runtime calls, and the cutoff is read from    *)
(* the clock after them.  What vanishes in between is absent from inspect. *)

List(p) ==
    /\ pc[p] = "idle"
    /\ pending' = [pending EXCEPT ![p] = ListedIds]
    /\ seen' = [seen EXCEPT ![p] = ListedIds]
    /\ Goto(p, "inspect")
    /\ UNCHANGED <<clock, boxVars, fileVars, jobVars, callVars, cutoff>>

(* The loop is for the listed sandboxes that are in one of these states.   *)
Inspect(p, states) ==
    /\ pc[p] = "inspect"
    /\ pending' = [pending EXCEPT ![p] = {i \in @ : box[i] \in states}]
    /\ Goto(p, "cutoff")
    /\ UNCHANGED <<clock, boxVars, fileVars, jobVars, callVars, seen, cutoff>>

(* Mutant: Now().Add(maxAge) for Now().Add(-maxAge).                       *)
CutoffAhead(age) == clock + age

Cutoff(age) == clock - age

FixCutoff(p, age) ==
    /\ pc[p] = "cutoff"
    /\ cutoff' = [cutoff EXCEPT ![p] = Cutoff(age)]
    /\ Goto(p, "scan")
    /\ UNCHANGED <<clock, boxVars, fileVars, jobVars, callVars, pending, seen>>

(* The round is over.                                                      *)
EndRound(p) ==
    /\ Goto(p, "idle")
    /\ pending' = [pending EXCEPT ![p] = {}]
    /\ seen' = [seen EXCEPT ![p] = {}]
    /\ cutoff' = [cutoff EXCEPT ![p] = 0]

InspectFails(p) ==
    /\ pc[p] = "inspect" /\ "engine" \in Faults
    /\ EndRound(p)
    /\ UNCHANGED <<clock, boxVars, fileVars, jobVars, callVars>>

LoopEnd(p) ==
    /\ pc[p] = "scan" /\ pending[p] = {}
    /\ EndRound(p)
    /\ UNCHANGED <<clock, boxVars, fileVars, jobVars, callVars>>

TakeNext(p, i) ==
    /\ pc[p] = "scan" /\ i \in pending[p]
    /\ pending' = [pending EXCEPT ![p] = @ \ {i}]
    /\ UNCHANGED <<clock, boxVars, fileVars, jobVars, cmd, seen, cutoff>>

---------------------------------------------------------------------------
(* Reap goes through the whole list; each sandbox's activity is read when  *)
(* the loop comes to it, and one that is due goes to Destroy, which fails  *)
(* at once if it cannot be resolved.                                       *)

(* Mutant: a frozen sandbox is passed over, as PauseIdle does.             *)
ReapAwake(p) == Inspect(p, Listed \ {"paused"})

ReapInspect(p) == Inspect(p, Listed)

ReapDue(p, i) == LastActivity(i) < cutoff[p]

ReapSkip(p, i) == /\ ~(ReapDue(p, i) /\ box[i] \in Listed)
                  /\ TakeNext(p, i)
                  /\ UNCHANGED <<pc, tgt>>

ReapDecide(p, i) == /\ ReapDue(p, i) /\ box[i] \in Listed /\ TakeNext(p, i)
                    /\ tgt' = [tgt EXCEPT ![p] = i]
                    /\ Goto(p, "rm")

---------------------------------------------------------------------------
(* PauseIdle: the same over the sandboxes that were not paused when they   *)
(* were listed; one as old as the cutoff is paused too, and without a new  *)
(* look at its container.                                                  *)

PauseInspect(p) == Inspect(p, Listed \ {"paused"})

PauseDue(p, i) == LastActivity(i) <= cutoff[p]

PauseSkip(p, i) == ~PauseDue(p, i) /\ TakeNext(p, i) /\ UNCHANGED <<pc, tgt>>

PauseDecide(p, i) == /\ PauseDue(p, i) /\ TakeNext(p, i)
                     /\ tgt' = [tgt EXCEPT ![p] = i]
                     /\ Goto(p, "freeze")

PauseFreeze(p) ==
    /\ pc[p] = "freeze"
    /\ Freeze(tgt[p]) \/ ("engine" \in Faults /\ UNCHANGED box)
    /\ Leave(p)
    /\ UNCHANGED <<clock, created, spared, fileVars, jobVars, loopVars>>

---------------------------------------------------------------------------
(* The environment.                                                        *)

(* A process dies where it stands, and another of its kind takes its       *)
(* place: the engine keeps the containers and runs their commands on.      *)
Crash(p) ==
    /\ pc[p] # "idle" /\ "crash" \in Faults
    /\ EndRound(p)
    /\ tgt' = [tgt EXCEPT ![p] = NoId]
    /\ cmd' = [cmd EXCEPT ![p] = NoCmd]
    /\ Loses(p)
    /\ UNCHANGED <<clock, boxVars, mtime, trail, torn, jobVars>>

ContainerStops(i) ==
    /\ box[i] \in {"running", "paused"} /\ "stop" \in Faults
    /\ box' = [box EXCEPT ![i] = "stopped"]
    /\ KillJobs(i)
    /\ UNCHANGED <<clock, created, spared, fileVars, at, pc, callVars, loopVars>>

Tick == /\ clock < MaxClock
        /\ clock' = clock + 1
        /\ UNCHANGED <<boxVars, fileVars, jobVars, pc, callVars, loopVars>>

---------------------------------------------------------------------------
(* What a caller starts, and what a process does once it has started.      *)

ClientCall(p) == \E i \in Ids : \/ CreateBegin(p, i)
                                \/ \E c \in Cmds : Exec(p, i, c)
                                \/ Destroy(p, i)
                                \/ \E op \in {"pause", "unpause"} : Steer(p, i, op)

ClientStep(p) == \/ CreateReturn(p)
                 \/ AutoResume(p) \/ ExecStart(p) \/ ExecLaunchFails(p)
                 \/ ExecReturn(p) \/ ExecGiveUp(p) \/ ExecResultLost(p) \/ Record(p)
                 \/ PauseBox(p) \/ ResumeBox(p)

DestroyStep(p) == DestroyRm(p) \/ DestroyFails(p) \/ DestroyUnlink(p)

LoopStep(p) == List(p) \/ InspectFails(p) \/ LoopEnd(p)

ReaperStep(p) == \/ LoopStep(p) \/ ReapInspect(p) \/ FixCutoff(p, MaxAge)
                 \/ \E i \in Ids : ReapSkip(p, i) \/ ReapDecide(p, i)

PauserStep(p) == \/ LoopStep(p) \/ PauseInspect(p) \/ FixCutoff(p, MaxIdle) \/ PauseFreeze(p)
                 \/ \E i \in Ids : PauseSkip(p, i) \/ PauseDecide(p, i)

Engine == \/ \E i \in Ids : EngineCreate(i) \/ EngineStart(i) \/ ContainerStops(i)
          \/ \E c \in Cmds : JobExit(c)

Next == \/ \E p \in Clients : ClientCall(p) \/ ClientStep(p) \/ DestroyStep(p)
        \/ \E p \in Reapers : ReaperStep(p) \/ DestroyStep(p)
        \/ \E p \in Pausers : PauserStep(p)
        \/ \E p \in Procs : Crash(p)
        \/ Engine
        \/ Tick

Spec == Init /\ [][Next]_vars

(* The next step of the call client p is in: its own or, while it creates, *)
(* the engine's on the container it asked for.                             *)
CallStep(p) == \/ ClientStep(p) \/ DestroyStep(p)
               \/ pc[p] = "run" /\ (EngineCreate(tgt[p]) \/ EngineStart(tgt[p]))

(* That step exists, at every operation of a call but docker exec without  *)
(* a deadline, which comes back when its command has ended.                *)
CanGoOn(p) == pc[p] # "idle" /\ (pc[p] = "wait" => GivesUp(p) \/ job[cmd[p]] \in Ended)

(* WF_vars(CallStep(p)), with the step's guard in the place of ENABLED,    *)
(* which TLAPS does not reason about.                                      *)
CallGoesOn(p) == []<>~CanGoOn(p) \/ []<><<CallStep(p)>>_vars

(* The calls in flight, the engine under them and the loops' tickers go    *)
(* on; that a command ends, a caller calls or time passes is assumed by    *)
(* nobody.                                                                 *)
CallsGoOn == \A p \in Clients : CallGoesOn(p)
LoopsGoOn == /\ \A p \in Reapers : WF_vars(ReaperStep(p)) /\ WF_vars(DestroyStep(p))
             /\ \A p \in Pausers : WF_vars(PauserStep(p))

LiveSpec == Spec /\ CallsGoOn /\ LoopsGoOn

---------------------------------------------------------------------------
(* Properties.                                                             *)

Phase(s) == IF s \in {"unused", "pulling"} THEN "unborn"
            ELSE IF s = "created" THEN "made" ELSE s

Life == INSTANCE SandboxLifecycle
            WITH phase <- [i \in Ids |-> Phase(box[i])], log <- trail

(* Whatever calls, loops, crashes and failures interleave, the sandboxes   *)
(* and their trails behave as SandboxLifecycle says: a pause decided on an *)
(* old listing never brings back a removed sandbox, no command is written  *)
(* twice, and a trail loses nothing while its sandbox is there (Destroy    *)
(* unlinks only after the engine removed the container).                   *)
LifecycleSpec == Life!LifeSpec

(* The loops act on stale readings (list, cutoff, activity), but what they *)
(* remove or freeze in the end has existed for the whole limit they got.   *)
LoopsRespectAge ==
    [][/\ \A p \in Reapers : pc[p] = "rm" /\ pc'[p] = "unlink"
                            => clock - created[tgt[p]] > MaxAge
       /\ \A p \in Pausers : pc[p] = "freeze" /\ box' # box
                            => clock - created[tgt[p]] >= MaxIdle]_vars

(* The commands in the audit trail of sandbox i.                           *)
Entries(s) == {s[k] : k \in DOMAIN s}
Noted(i) == Entries(trail[i])

(* The call that sent command c is over, and its sandbox is still there.   *)
Closed(c) == box[at[c]] \in Listed /\ \A p \in Clients : cmd[p] # c

(* A command that ran to its end in a sandbox that still exists is in its  *)
(* trail once its call is over: Exec records every result, the killed and  *)
(* timed-out ones too, and nobody else's Destroy or Record loses it.  Only *)
(* a fault does: its caller died, its line was not written or was appended *)
(* to one cut short, or docker exec came back in the instant of its        *)
(* deadline.                                                               *)
AuditComplete == \A c \in Cmds \ lost : job[c] \in Ended /\ Closed(c) => c \in Noted(at[c])

(* "Reap destroys sandboxes idle for longer than maxAge": once it has gone *)
(* through its list, whatever the engine listed is gone, has been active   *)
(* since the cutoff, or was kept by a fault from its rm.  The cutoff is    *)
(* later than the list: a sandbox made in between is not in this round,    *)
(* however old the cutoff finds it.                                        *)
ReapIsThorough ==
    \A p \in Reapers : pc[p] = "scan" /\ pending[p] = {} =>
        \A i \in Ids \ spared :
            i \in seen[p] /\ box[i] \in Listed => LastActivity(i) >= cutoff[p]

(* "Some quando o sandbox e destruido": a sandbox that is gone, with no    *)
(* Destroy still at work on it, has no audit file.                         *)
TrailDiesWithSandbox ==
    \A i \in Ids :
        /\ box[i] = "gone"
        /\ \A p \in Procs : ~(pc[p] = "unlink" /\ tgt[p] = i)
        => mtime[i] = NoFile

Busy(i) == \E c \in Cmds : at[c] = i /\ job[c] = "running"

(* "So a long-lived but active sandbox is kept": Reap does not decide to   *)
(* destroy a sandbox while a command is running in it.                     *)
ReapKeepsActive ==
    [][\A p \in Reapers : pc[p] = "scan" /\ pc'[p] = "rm" => ~Busy(tgt'[p])]_vars

(* "They auto-resume on the next exec": a command meets a paused sandbox   *)
(* only if somebody paused it after the call looked it up, or the engine   *)
(* failed to resume it.                                                    *)
TurnedAway(p) == pc[p] = "exec" /\ box[tgt[p]] = "paused"
AutoResumes ==
    [][\A p \in Clients : ~TurnedAway(p) /\ TurnedAway(p)' =>
          \/ \E q \in Procs : pc[q] \in {"pause", "freeze"} /\ tgt[q] = tgt[p] /\ pc'[q] # pc[q]
          \/ pc[p] = "resume" /\ "engine" \in Faults]_vars

(* Every call comes back to its caller: the deadline of an exec fires even *)
(* if its sandbox was paused under it or its command never ends.  Only an  *)
(* exec without a timeout may stay where it waits for its command.         *)
EveryCallReturns ==
    \A p \in Clients : pc[p] # "idle" ~> \/ pc[p] = "idle"
                                         \/ p \notin Timed /\ pc[p] = "wait"

Overdue(i) == box[i] \in Listed /\ LastActivity(i) < Cutoff(MaxAge)

(* A sandbox idle beyond the limit is destroyed unless it is used again,   *)
(* whatever else the reaper finds in its list.                             *)
IdleIsReaped == \A i \in Ids : Overdue(i) ~> ~Overdue(i)

---------------------------------------------------------------------------
(* The inductive invariant behind the theorems of ManagerProofs.           *)

Unborn(i) == box[i] \in {"unused", "pulling"}
InExec == {"resume", "exec", "wait", "record"}

(* Calls and listings name sandboxes that have existed, only such a        *)
(* sandbox has a trail, and an unlink is for one that is gone for good.    *)
Born ==
    /\ \A p \in Procs : pc[p] \notin Between \cup {"run"} => ~Unborn(tgt[p])
    /\ \A p \in Procs : \A i \in pending[p] \cup seen[p] : ~Unborn(i)
    /\ \A p \in Procs : pc[p] = "unlink" => box[tgt[p]] = "gone"
    /\ \A i \in Ids : mtime[i] # NoFile => ~Unborn(i)

(* No activity is dated before the creation or after now, so what a loop   *)
(* found due, and the cutoff it used, can only have aged since.            *)
Aged ==
    /\ \A i \in Ids : created[i] <= clock
    /\ \A i \in Ids : mtime[i] # NoFile => created[i] <= mtime[i]
    /\ \A p \in Reapers : pc[p] \notin Preparing => cutoff[p] <= Cutoff(MaxAge)
    /\ \A p \in Pausers : pc[p] \notin Preparing => cutoff[p] <= Cutoff(MaxIdle)
    /\ \A p \in Reapers : pc[p] = "rm" => created[tgt[p]] < Cutoff(MaxAge)
    /\ \A p \in Pausers : pc[p] = "freeze" => created[tgt[p]] <= Cutoff(MaxIdle)

(* A command belongs to one Exec, of the sandbox it was sent to, and is in *)
(* no trail before that Exec records it.                                   *)
Owned ==
    /\ \A c \in Cmds : job[c] # "new" => at[c] \in Ids /\ ~Unborn(at[c])
    /\ \A p \in Clients : cmd[p] # NoCmd => pc[p] \in InExec
    /\ \A p \in Clients : pc[p] \in InExec =>
          /\ job[cmd[p]] # "new" /\ at[cmd[p]] = tgt[p]
          /\ \A i \in Ids : cmd[p] \notin Noted(i)
    /\ \A p, q \in Clients : pc[p] \in InExec /\ cmd[p] = cmd[q] => p = q
    /\ \A i \in Ids : \A c \in Noted(i) : job[c] # "new"

(* AuditComplete, for the commands an Exec gave up on as well: they are in *)
(* the trail before they end.                                              *)
Audited == \A c \in Cmds \ lost : job[c] \in Ran /\ Closed(c) => c \in Noted(at[c])

(* What a reaper's list holds and is still there is in the reaper's hands  *)
(* or has been active since its cutoff.                                    *)
InHand ==
    \A p \in Reapers : \A i \in Ids \ spared :
        i \in seen[p] /\ box[i] \in Listed =>
            \/ i \in pending[p]
            \/ pc[p] = "rm" /\ tgt[p] = i
            \/ pc[p] \notin Preparing /\ LastActivity(i) >= cutoff[p]

(* What keeps a call from wedging: the container it creates exists for the *)
(* engine, and the command it waits for has started.                       *)
Called ==
    \A p \in Clients : /\ pc[p] = "run" => box[tgt[p]] # "unused"
                       /\ pc[p] = "wait" => job[cmd[p]] \in Ran

IInv == Born /\ Aged /\ Owned /\ Called
============================================================================
