---------------------------- MODULE ManagerProofs ----------------------------
(***************************************************************************)
(* Theorems about Manager, for any number of sandboxes, commands, callers  *)
(* and loops, any limits and any faults.                                   *)
(***************************************************************************)
EXTENDS Manager, TLAPS

USE ProcsAssumption, NamesAssumption, TimesAssumption

(* Everything below unfolds the shared pieces the actions are built from.  *)
USE DEF vars, boxVars, fileVars, jobVars, callVars, loopVars, Goto, Leave, EndRound, Preparing, Between, Procs

(* What a call to record leaves behind: a line more, or a lost command, in *)
(* a file that was touched now or not at all.                              *)
LEMMA Written ==
  ASSUME TypeOK, NEW p \in Clients, Record(p)
  PROVE  /\ tgt[p] \in Ids /\ cmd[p] \in Cmds
         /\ torn' \subseteq Ids
         /\ mtime' \in {mtime, [mtime EXCEPT ![tgt[p]] = clock]}
         /\ \/ trail' = [trail EXCEPT ![tgt[p]] = Append(@, cmd[p])] /\ UNCHANGED lost
            \/ Loses(p) /\ UNCHANGED trail
<1>1. tgt[p] \in Ids /\ cmd[p] \in Cmds /\ torn \subseteq Ids
  BY DEF Record, TypeOK
<1>2. CASE WriteLine(p)
  BY <1>1, <1>2 DEF WriteLine
<1>3. CASE WriteFails(p)
  BY <1>1, <1>3 DEF WriteFails
<1>4. QED
  BY <1>1, <1>2, <1>3 DEF Record

---------------------------------------------------------------------------
(* Every variable keeps its type, every process stays at an operation of   *)
(* its own kind, and one that is inside a call knows its sandbox and, in   *)
(* an Exec, its command.                                                   *)
THEOREM TypeCorrect == Spec => []TypeOK
<1> USE DEF NoFile, BoxStates, JobStates, Ended, ClientPcs, ReaperPcs, PauserPcs
<1>1. Init => TypeOK
  BY DEF Init, TypeOK
<1>2. TypeOK /\ [Next]_vars => TypeOK'
  <2> SUFFICES ASSUME TypeOK, [Next]_vars PROVE TypeOK'
    OBVIOUS
  <2>1. ASSUME NEW p \in Clients, ClientCall(p) PROVE TypeOK'
    <3>1. ASSUME NEW i \in Ids, CreateBegin(p, i) PROVE TypeOK'
      BY <3>1 DEF CreateBegin, TypeOK
    <3>2. ASSUME NEW i \in Ids, NEW c \in Cmds, Exec(p, i, c) PROVE TypeOK'
      BY <3>2 DEF Exec, TypeOK
    <3>3. ASSUME NEW i \in Ids, Destroy(p, i) PROVE TypeOK'
      BY <3>3 DEF Destroy, TypeOK
    <3>4. ASSUME NEW i \in Ids, NEW op \in {"pause", "unpause"}, Steer(p, i, op) PROVE TypeOK'
      BY <3>4 DEF Steer, TypeOK
    <3>5. QED
      BY <2>1, <3>1, <3>2, <3>3, <3>4 DEF ClientCall
  <2>2. ASSUME NEW p \in Clients, ClientStep(p) PROVE TypeOK'
    <3>1. CASE CreateReturn(p)
      BY <3>1 DEF CreateReturn, TypeOK
    <3>2. CASE AutoResume(p)
      <4>1. /\ Goto(p, "exec") /\ UNCHANGED <<clock, created, spared, fileVars, jobVars, callVars, loopVars>>
            /\ tgt[p] \in Ids /\ cmd[p] \in Cmds /\ p \in Clients
        BY <3>2 DEF AutoResume, TypeOK
      <4>2. CASE Unpause(tgt[p])
        BY <4>1, <4>2 DEF TypeOK, Unpause
      <4>3. CASE UNCHANGED box
        BY <4>1, <4>3 DEF TypeOK
      <4>4. QED
        BY <3>2, <4>2, <4>3 DEF AutoResume
    <3>3. CASE ExecStart(p)
      BY <3>3 DEF ExecStart, Started, TypeOK
    <3>4. CASE ExecLaunchFails(p)
      BY <3>4 DEF ExecLaunchFails, TypeOK
    <3>5. CASE ExecReturn(p)
      BY <3>5 DEF ExecReturn, TypeOK
    <3>6. CASE ExecGiveUp(p)
      BY <3>6 DEF ExecGiveUp, TypeOK
    <3>7. CASE ExecResultLost(p)
      BY <3>7 DEF ExecResultLost, Loses, TypeOK
    <3>8. CASE Record(p)
      <4>1. /\ tgt[p] \in Ids /\ torn' \subseteq Ids
            /\ Leave(p) /\ UNCHANGED <<clock, boxVars, jobVars, loopVars>>
        BY <3>8, Written DEF Record
      <4>2. trail' \in [Ids -> Seq(Cmds)] /\ lost' \subseteq Cmds
        <5>1. CASE trail' = [trail EXCEPT ![tgt[p]] = Append(@, cmd[p])] /\ UNCHANGED lost
          <6>1. tgt[p] \in Ids /\ cmd[p] \in Cmds /\ trail \in [Ids -> Seq(Cmds)] /\ lost \subseteq Cmds
            BY <3>8, Written DEF TypeOK
          <6>2. QED
            BY <6>1, <5>1
        <5>2. CASE Loses(p) /\ UNCHANGED trail
          BY <5>2 DEF TypeOK, Loses
        <5>3. QED
          BY <3>8, Written, <5>1, <5>2
      <4>3. mtime' \in [Ids -> {NoFile} \cup 0..MaxClock]
        <5>1. mtime' \in {mtime, [mtime EXCEPT ![tgt[p]] = clock]}
          BY <3>8, Written
        <5>2. QED
          BY <4>1, <5>1 DEF TypeOK
      <4>4. QED
        BY <4>1, <4>2, <4>3 DEF TypeOK
    <3>9. CASE PauseBox(p)
      <4>1. Leave(p) /\ UNCHANGED <<clock, created, spared, fileVars, jobVars, loopVars>> /\ tgt[p] \in Ids
        BY <3>9 DEF PauseBox, TypeOK
      <4>2. CASE Freeze(tgt[p])
        BY <4>1, <4>2 DEF TypeOK, Freeze, Frozen
      <4>3. CASE UNCHANGED box
        BY <4>1, <4>3 DEF TypeOK
      <4>4. QED
        BY <3>9, <4>2, <4>3 DEF PauseBox
    <3>10. CASE ResumeBox(p)
      <4>1. Leave(p) /\ UNCHANGED <<clock, created, spared, fileVars, jobVars, loopVars>> /\ tgt[p] \in Ids
        BY <3>10 DEF ResumeBox, TypeOK
      <4>2. CASE Unpause(tgt[p])
        BY <4>1, <4>2 DEF TypeOK, Unpause
      <4>3. CASE UNCHANGED box
        BY <4>1, <4>3 DEF TypeOK
      <4>4. QED
        BY <3>10, <4>2, <4>3 DEF ResumeBox
    <3>11. QED
      BY <2>2, <3>1, <3>2, <3>3, <3>4, <3>5, <3>6, <3>7, <3>8, <3>9, <3>10 DEF ClientStep
  <2>3. ASSUME NEW p \in Clients \cup Reapers, DestroyStep(p) PROVE TypeOK'
    <3>1. CASE DestroyRm(p)
      BY <3>1 DEF DestroyRm, KillJobs, TypeOK
    <3>2. CASE DestroyFails(p)
      <4>0. tgt[p] \in Ids /\ spared \subseteq Ids
        BY <3>2 DEF DestroyFails, TypeOK
      <4>1. spared' \subseteq Ids
        BY <3>2, <4>0 DEF DestroyFails
      <4>2. Leave(p) /\ UNCHANGED <<clock, box, created, fileVars, jobVars, loopVars>>
        BY <3>2 DEF DestroyFails
      <4>3. QED
        BY <4>1, <4>2 DEF TypeOK
    <3>3. CASE DestroyUnlink(p)
      <4>0. /\ tgt[p] \in Ids /\ torn \subseteq Ids
            /\ mtime \in [Ids -> {NoFile} \cup 0..MaxClock]
            /\ trail \in [Ids -> Seq(Cmds)]
        BY <3>3 DEF DestroyUnlink, TypeOK
      <4>1. /\ mtime' \in [Ids -> {NoFile} \cup 0..MaxClock]
            /\ trail' \in [Ids -> Seq(Cmds)]
            /\ torn' \subseteq Ids
        BY <3>3, <4>0 DEF DestroyUnlink
      <4>2. Leave(p) /\ UNCHANGED <<clock, lost, boxVars, jobVars, loopVars>>
        BY <3>3 DEF DestroyUnlink
      <4>3. QED
        BY <4>1, <4>2 DEF TypeOK
    <3>4. QED
      BY <2>3, <3>1, <3>2, <3>3 DEF DestroyStep
  <2>4. ASSUME NEW p \in Reapers, ReaperStep(p) PROVE TypeOK'
    <3>1a. CASE List(p)
      BY <3>1a DEF List, ListedIds, TypeOK
    <3>1b. CASE ReapInspect(p)
      BY <3>1b DEF ReapInspect, Inspect, TypeOK
    <3>1c. CASE FixCutoff(p, MaxAge)
      BY <3>1c DEF FixCutoff, Cutoff, TypeOK
    <3>2a. CASE LoopEnd(p)
      BY <3>2a DEF LoopEnd, TypeOK
    <3>2b. CASE InspectFails(p)
      BY <3>2b DEF InspectFails, TypeOK
    <3>3. ASSUME NEW i \in Ids, ReapSkip(p, i) PROVE TypeOK'
      BY <3>3 DEF ReapSkip, TakeNext, TypeOK
    <3>4. ASSUME NEW i \in Ids, ReapDecide(p, i) PROVE TypeOK'
      BY <3>4 DEF ReapDecide, TakeNext, TypeOK
    <3>5. QED
      BY <2>4, <3>1a, <3>1b, <3>1c, <3>2a, <3>2b, <3>3, <3>4 DEF ReaperStep, LoopStep
  <2>5. ASSUME NEW p \in Pausers, PauserStep(p) PROVE TypeOK'
    <3>1a. CASE List(p)
      BY <3>1a DEF List, ListedIds, TypeOK
    <3>1b. CASE PauseInspect(p)
      BY <3>1b DEF PauseInspect, Inspect, TypeOK
    <3>1c. CASE FixCutoff(p, MaxIdle)
      BY <3>1c DEF FixCutoff, Cutoff, TypeOK
    <3>2a. CASE LoopEnd(p)
      BY <3>2a DEF LoopEnd, TypeOK
    <3>2b. CASE InspectFails(p)
      BY <3>2b DEF InspectFails, TypeOK
    <3>3. CASE PauseFreeze(p)
      <4>1. Leave(p) /\ UNCHANGED <<clock, created, spared, fileVars, jobVars, loopVars>> /\ tgt[p] \in Ids
        BY <3>3 DEF PauseFreeze, TypeOK
      <4>2. CASE Freeze(tgt[p])
        BY <4>1, <4>2 DEF TypeOK, Freeze, Frozen
      <4>3. CASE UNCHANGED box
        BY <4>1, <4>3 DEF TypeOK
      <4>4. QED
        BY <3>3, <4>2, <4>3 DEF PauseFreeze
    <3>4. ASSUME NEW i \in Ids, PauseSkip(p, i) PROVE TypeOK'
      BY <3>4 DEF PauseSkip, TakeNext, TypeOK
    <3>5. ASSUME NEW i \in Ids, PauseDecide(p, i) PROVE TypeOK'
      BY <3>5 DEF PauseDecide, TakeNext, TypeOK
    <3>6. QED
      BY <2>5, <3>1a, <3>1b, <3>1c, <3>2a, <3>2b, <3>3, <3>4, <3>5 DEF PauserStep, LoopStep
  <2>6. ASSUME NEW p \in Procs, Crash(p) PROVE TypeOK'
    BY <2>6 DEF Crash, Loses, TypeOK
  <2>7. CASE Engine
    <3>1. ASSUME NEW i \in Ids, EngineCreate(i) PROVE TypeOK'
      BY <3>1 DEF EngineCreate, TypeOK
    <3>2. ASSUME NEW i \in Ids, EngineStart(i) PROVE TypeOK'
      BY <3>2 DEF EngineStart, TypeOK
    <3>3. ASSUME NEW i \in Ids, ContainerStops(i) PROVE TypeOK'
      BY <3>3 DEF ContainerStops, KillJobs, TypeOK
    <3>4. ASSUME NEW c \in Cmds, JobExit(c) PROVE TypeOK'
      BY <3>4 DEF JobExit, TypeOK
    <3>5. QED
      BY <2>7, <3>1, <3>2, <3>3, <3>4 DEF Engine
  <2>8. CASE Tick
    BY <2>8 DEF Tick, TypeOK
  <2>9. CASE UNCHANGED vars
    BY <2>9 DEF TypeOK
  <2>10. QED
    BY <2>1, <2>2, <2>3, <2>4, <2>5, <2>6, <2>7, <2>8, <2>9 DEF Next
<1>3. QED
  BY <1>1, <1>2, PTL DEF Spec

---------------------------------------------------------------------------
(* The parts of IInv are kept by every step, one lemma for each part.      *)

(* What has existed stays so, and a removed sandbox stays removed: every   *)
(* runtime call but run leaves a container that is not there alone.        *)
LEMMA BornStep ==
  ASSUME TypeOK, Born, [Next]_vars PROVE Born'
<1>1. ASSUME NEW p \in Clients, ClientCall(p) PROVE Born'
  <2>1. ASSUME NEW i \in Ids, CreateBegin(p, i) PROVE Born'
    BY <2>1 DEF CreateBegin, TypeOK, Born, Unborn
  <2>2. ASSUME NEW i \in Ids, NEW c \in Cmds, Exec(p, i, c) PROVE Born'
    BY <2>2 DEF Exec, TypeOK, Born, Unborn, Listed
  <2>3. ASSUME NEW i \in Ids, Destroy(p, i) PROVE Born'
    BY <2>3 DEF Destroy, TypeOK, Born, Unborn, Listed
  <2>4. ASSUME NEW i \in Ids, NEW op \in {"pause", "unpause"}, Steer(p, i, op) PROVE Born'
    BY <2>4 DEF Steer, TypeOK, Born, Unborn, Listed
  <2>5. QED
    BY <1>1, <2>1, <2>2, <2>3, <2>4 DEF ClientCall
<1>2. ASSUME NEW p \in Clients, ClientStep(p) PROVE Born'
  <2>1. CASE CreateReturn(p)
    BY <2>1 DEF CreateReturn, TypeOK, Born, Unborn
  <2>2. CASE AutoResume(p)
    <3>1. \A j \in Ids : /\ Unborn(j)' => Unborn(j)
                         /\ box[j] = "gone" => box'[j] = "gone"
      BY <2>2 DEF AutoResume, Unpause, TypeOK, Unborn
    <3>2. UNCHANGED <<mtime, pending, seen, tgt>> /\ ~Unborn(tgt[p])
      BY <2>2 DEF AutoResume, TypeOK, Born
    <3>3. pc' = [pc EXCEPT ![p] = "exec"]
      BY <2>2 DEF AutoResume
    <3>4. ASSUME NEW q \in Procs, pc'[q] \notin Between \cup {"run"} PROVE ~Unborn(tgt[q])'
      <4>1. ~Unborn(tgt[q]) /\ tgt[q] \in Ids
        BY <2>2, <3>3, <3>4 DEF AutoResume, TypeOK, Born
      <4>2. QED
        BY <3>1, <3>2, <4>1 DEF Unborn
    <3>5. ASSUME NEW q \in Procs PROVE \A i \in pending'[q] \cup seen'[q] : ~Unborn(i)'
      BY <3>1, <3>2 DEF TypeOK, Born
    <3>6. ASSUME NEW q \in Procs, pc'[q] = "unlink" PROVE box'[tgt'[q]] = "gone"
      <4>1. box[tgt[q]] = "gone" /\ tgt[q] \in Ids
        BY <3>3, <3>6 DEF TypeOK, Born
      <4>2. QED
        BY <3>1, <3>2, <4>1
    <3>7. ASSUME NEW i \in Ids, mtime'[i] # NoFile PROVE ~Unborn(i)'
      BY <3>1, <3>2, <3>7 DEF Born
    <3>8. QED
      BY <3>4, <3>5, <3>6, <3>7 DEF Born
  <2>3. CASE ExecStart(p)
    BY <2>3 DEF ExecStart, Started, TypeOK, Born, Unborn
  <2>4. CASE ExecLaunchFails(p)
    BY <2>4 DEF ExecLaunchFails, TypeOK, Born, Unborn
  <2>5. CASE ExecReturn(p)
    BY <2>5 DEF ExecReturn, TypeOK, Born, Unborn
  <2>6. CASE ExecGiveUp(p)
    BY <2>6 DEF ExecGiveUp, TypeOK, Born, Unborn
  <2>7. CASE ExecResultLost(p)
    BY <2>7 DEF ExecResultLost, TypeOK, Born, Unborn
  <2>8. CASE Record(p)
    <3>1. Leave(p) /\ UNCHANGED <<boxVars, loopVars>> /\ ~Unborn(tgt[p])
      BY <2>8 DEF Record, TypeOK, Born, ClientPcs, ReaperPcs, PauserPcs
    <3>2. \A i \in Ids : mtime'[i] = mtime[i] \/ i = tgt[p]
      BY <2>8, Written DEF TypeOK
    <3>3. QED
      BY <3>1, <3>2 DEF TypeOK, Born, Unborn
  <2>9. CASE PauseBox(p)
    <3>1. \A j \in Ids : /\ Unborn(j)' => Unborn(j)
                         /\ box[j] = "gone" => box'[j] = "gone"
      BY <2>9 DEF PauseBox, Freeze, Frozen, TypeOK, Unborn
    <3>2. UNCHANGED <<mtime, pending, seen>> /\ Leave(p)
      BY <2>9 DEF PauseBox
    <3>3. QED
      BY <3>1, <3>2 DEF TypeOK, Born
  <2>10. CASE ResumeBox(p)
    <3>1. \A j \in Ids : /\ Unborn(j)' => Unborn(j)
                         /\ box[j] = "gone" => box'[j] = "gone"
      BY <2>10 DEF ResumeBox, Unpause, TypeOK, Unborn
    <3>2. UNCHANGED <<mtime, pending, seen>> /\ Leave(p)
      BY <2>10 DEF ResumeBox
    <3>3. QED
      BY <3>1, <3>2 DEF TypeOK, Born
  <2>11. QED
    BY <1>2, <2>1, <2>2, <2>3, <2>4, <2>5, <2>6, <2>7, <2>8, <2>9, <2>10 DEF ClientStep
<1>3. ASSUME NEW p \in Clients \cup Reapers, DestroyStep(p) PROVE Born'
  <2>1. CASE DestroyRm(p)
    BY <2>1 DEF DestroyRm, KillJobs, TypeOK, Born, Unborn
  <2>2. CASE DestroyFails(p)
    BY <2>2 DEF DestroyFails, TypeOK, Born, Unborn
  <2>3. CASE DestroyUnlink(p)
    BY <2>3 DEF DestroyUnlink, TypeOK, Born, Unborn
  <2>4. QED
    BY <1>3, <2>1, <2>2, <2>3 DEF DestroyStep
<1>4. ASSUME NEW p \in Reapers, ReaperStep(p) PROVE Born'
  <2>1a. CASE List(p)
    BY <2>1a DEF List, ListedIds, TypeOK, Born, Unborn, Listed
  <2>1b. CASE ReapInspect(p)
    BY <2>1b DEF ReapInspect, Inspect, TypeOK, Born, Unborn, Listed
  <2>1c. CASE FixCutoff(p, MaxAge)
    BY <2>1c DEF FixCutoff, Cutoff, TypeOK, Born, Unborn, Listed
  <2>2a. CASE LoopEnd(p)
    BY <2>2a DEF LoopEnd, TypeOK, Born, Unborn
  <2>2b. CASE InspectFails(p)
    BY <2>2b DEF InspectFails, TypeOK, Born, Unborn
  <2>3. ASSUME NEW i \in Ids, ReapSkip(p, i) PROVE Born'
    BY <2>3 DEF ReapSkip, TakeNext, TypeOK, Born, Unborn
  <2>4. ASSUME NEW i \in Ids, ReapDecide(p, i) PROVE Born'
    BY <2>4 DEF ReapDecide, TakeNext, TypeOK, Born, Unborn
  <2>5. QED
    BY <1>4, <2>1a, <2>1b, <2>1c, <2>2a, <2>2b, <2>3, <2>4 DEF ReaperStep, LoopStep
<1>5. ASSUME NEW p \in Pausers, PauserStep(p) PROVE Born'
  <2>1a. CASE List(p)
    BY <2>1a DEF List, ListedIds, TypeOK, Born, Unborn, Listed
  <2>1b. CASE PauseInspect(p)
    BY <2>1b DEF PauseInspect, Inspect, TypeOK, Born, Unborn, Listed
  <2>1c. CASE FixCutoff(p, MaxIdle)
    BY <2>1c DEF FixCutoff, Cutoff, TypeOK, Born, Unborn, Listed
  <2>2a. CASE LoopEnd(p)
    BY <2>2a DEF LoopEnd, TypeOK, Born, Unborn
  <2>2b. CASE InspectFails(p)
    BY <2>2b DEF InspectFails, TypeOK, Born, Unborn
  <2>3. CASE PauseFreeze(p)
    <3>1. \A j \in Ids : /\ Unborn(j)' => Unborn(j)
                         /\ box[j] = "gone" => box'[j] = "gone"
      BY <2>3 DEF PauseFreeze, Freeze, Frozen, TypeOK, Unborn
    <3>2. UNCHANGED <<mtime, pending, seen>> /\ Leave(p)
      BY <2>3 DEF PauseFreeze
    <3>3. QED
      BY <3>1, <3>2 DEF TypeOK, Born
  <2>4. ASSUME NEW i \in Ids, PauseSkip(p, i) PROVE Born'
    BY <2>4 DEF PauseSkip, TakeNext, TypeOK, Born, Unborn
  <2>5. ASSUME NEW i \in Ids, PauseDecide(p, i) PROVE Born'
    BY <2>5 DEF PauseDecide, TakeNext, TypeOK, Born, Unborn
  <2>6. QED
    BY <1>5, <2>1a, <2>1b, <2>1c, <2>2a, <2>2b, <2>3, <2>4, <2>5 DEF PauserStep, LoopStep
<1>6. ASSUME NEW p \in Procs, Crash(p) PROVE Born'
  BY <1>6 DEF Crash, TypeOK, Born, Unborn
<1>7. CASE Engine
  <2>1. ASSUME NEW i \in Ids, EngineCreate(i) PROVE Born'
    BY <2>1 DEF EngineCreate, TypeOK, Born, Unborn
  <2>2. ASSUME NEW i \in Ids, EngineStart(i) PROVE Born'
    <3>1. \A j \in Ids : /\ Unborn(j)' => Unborn(j)
                         /\ box[j] = "gone" => box'[j] = "gone"
      BY <2>2 DEF EngineStart, TypeOK, Unborn
    <3>2. UNCHANGED <<mtime, pending, seen, pc, tgt>>
      BY <2>2 DEF EngineStart
    <3>3. QED
      BY <3>1, <3>2 DEF TypeOK, Born
  <2>3. ASSUME NEW i \in Ids, ContainerStops(i) PROVE Born'
    BY <2>3 DEF ContainerStops, KillJobs, TypeOK, Born, Unborn
  <2>4. ASSUME NEW c \in Cmds, JobExit(c) PROVE Born'
    BY <2>4 DEF JobExit, TypeOK, Born, Unborn
  <2>5. QED
    BY <1>7, <2>1, <2>2, <2>3, <2>4 DEF Engine
<1>8. CASE Tick
  BY <1>8 DEF Tick, TypeOK, Born, Unborn
<1>9. CASE UNCHANGED vars
  BY <1>9 DEF TypeOK, Born, Unborn
<1>10. QED
  BY <1>1, <1>2, <1>3, <1>4, <1>5, <1>6, <1>7, <1>8, <1>9 DEF Next

(* Time only passes, and the creation label of a sandbox never moves.      *)
LEMMA AgedStep ==
  ASSUME TypeOK, Born, Aged, [Next]_vars PROVE Aged'
<1>1. ASSUME NEW p \in Clients, ClientCall(p) PROVE Aged'
  <2>1. ASSUME NEW i \in Ids, CreateBegin(p, i) PROVE Aged'
    <3>1. /\ clock \in Int /\ created \in [Ids -> Int] /\ UNCHANGED <<clock, mtime, cutoff>>
          /\ created' = [created EXCEPT ![i] = clock]
          /\ mtime[i] = NoFile
          /\ pc' = [pc EXCEPT ![p] = "run"] /\ tgt' = [tgt EXCEPT ![p] = i]
          /\ p \notin Reapers /\ p \notin Pausers
          /\ pc \in [Procs -> ClientPcs \cup ReaperPcs \cup PauserPcs] /\ tgt \in [Procs -> Ids \cup {NoId}]
      BY <2>1 DEF CreateBegin, TypeOK, Born, Unborn
    <3>2. \A q \in Procs : pc[q] \in {"rm", "freeze"} => tgt[q] # i
      BY <2>1 DEF CreateBegin, TypeOK, Born, Unborn
    <3>3. QED
      BY <3>1, <3>2 DEF Aged, Cutoff
  <2>2. ASSUME NEW i \in Ids, NEW c \in Cmds, Exec(p, i, c) PROVE Aged'
    BY <2>2 DEF Exec, TypeOK, Born, Aged, Unborn, Cutoff
  <2>3. ASSUME NEW i \in Ids, Destroy(p, i) PROVE Aged'
    BY <2>3 DEF Destroy, TypeOK, Born, Aged, Unborn, Cutoff
  <2>4. ASSUME NEW i \in Ids, NEW op \in {"pause", "unpause"}, Steer(p, i, op) PROVE Aged'
    BY <2>4 DEF Steer, TypeOK, Born, Aged, Unborn, Cutoff
  <2>5. QED
    BY <1>1, <2>1, <2>2, <2>3, <2>4 DEF ClientCall
<1>2. ASSUME NEW p \in Clients, ClientStep(p) PROVE Aged'
  <2>1. CASE CreateReturn(p)
    BY <2>1 DEF CreateReturn, TypeOK, Born, Aged, Unborn, Cutoff
  <2>2. CASE AutoResume(p)
    BY <2>2 DEF AutoResume, Unpause, TypeOK, Born, Aged, Unborn, Cutoff
  <2>3. CASE ExecStart(p)
    BY <2>3 DEF ExecStart, Started, TypeOK, Born, Aged, Unborn, Cutoff
  <2>4. CASE ExecLaunchFails(p)
    BY <2>4 DEF ExecLaunchFails, TypeOK, Born, Aged, Unborn, Cutoff
  <2>5. CASE ExecReturn(p)
    BY <2>5 DEF ExecReturn, TypeOK, Born, Aged, Unborn, Cutoff
  <2>6. CASE ExecGiveUp(p)
    BY <2>6 DEF ExecGiveUp, TypeOK, Born, Aged, Unborn, Cutoff
  <2>7. CASE ExecResultLost(p)
    BY <2>7 DEF ExecResultLost, TypeOK, Born, Aged, Unborn, Cutoff
  <2>8. CASE Record(p)
    <3>1. /\ Leave(p) /\ UNCHANGED <<clock, created, cutoff>> /\ p \notin Reapers /\ p \notin Pausers
      BY <2>8 DEF Record
    <3>2. \A i \in Ids : mtime'[i] # NoFile => created[i] <= mtime'[i]
      <4>1. CASE mtime' = [mtime EXCEPT ![tgt[p]] = clock]
        BY <3>1, <4>1 DEF TypeOK, Aged
      <4>2. CASE UNCHANGED mtime
        BY <4>2 DEF Aged
      <4>3. QED
        BY <2>8, <4>1, <4>2, Written
    <3>3. QED
      BY <3>1, <3>2 DEF TypeOK, Aged, Cutoff
  <2>9. CASE PauseBox(p)
    BY <2>9 DEF PauseBox, Freeze, Frozen, TypeOK, Born, Aged, Unborn, Cutoff
  <2>10. CASE ResumeBox(p)
    BY <2>10 DEF ResumeBox, Unpause, TypeOK, Born, Aged, Unborn, Cutoff
  <2>11. QED
    BY <1>2, <2>1, <2>2, <2>3, <2>4, <2>5, <2>6, <2>7, <2>8, <2>9, <2>10 DEF ClientStep
<1>3. ASSUME NEW p \in Clients \cup Reapers, DestroyStep(p) PROVE Aged'
  <2>1. CASE DestroyRm(p)
    BY <2>1 DEF DestroyRm, KillJobs, TypeOK, Born, Aged, Unborn, Cutoff
  <2>2. CASE DestroyFails(p)
    BY <2>2 DEF DestroyFails, TypeOK, Born, Aged, Unborn, Cutoff
  <2>3. CASE DestroyUnlink(p)
    BY <2>3 DEF DestroyUnlink, TypeOK, Born, Aged, Unborn, Cutoff
  <2>4. QED
    BY <1>3, <2>1, <2>2, <2>3 DEF DestroyStep
<1>4. ASSUME NEW p \in Reapers, ReaperStep(p) PROVE Aged'
  <2>1a. CASE List(p)
    BY <2>1a DEF List, ListedIds, TypeOK, Born, Aged, Unborn, Cutoff
  <2>1b. CASE ReapInspect(p)
    BY <2>1b DEF ReapInspect, Inspect, TypeOK, Born, Aged, Unborn, Cutoff
  <2>1c. CASE FixCutoff(p, MaxAge)
    BY <2>1c DEF FixCutoff, Cutoff, TypeOK, Born, Aged, Unborn
  <2>2a. CASE LoopEnd(p)
    BY <2>2a DEF LoopEnd, TypeOK, Born, Aged, Unborn, Cutoff
  <2>2b. CASE InspectFails(p)
    BY <2>2b DEF InspectFails, TypeOK, Born, Aged, Unborn, Cutoff
  <2>3. ASSUME NEW i \in Ids, ReapSkip(p, i) PROVE Aged'
    BY <2>3 DEF ReapSkip, TakeNext, TypeOK, Born, Aged, Unborn, Cutoff, ReapDue
  <2>4. ASSUME NEW i \in Ids, ReapDecide(p, i) PROVE Aged'
    <3>1. created[i] < Cutoff(MaxAge)
      <4>1. cutoff[p] <= Cutoff(MaxAge) /\ cutoff[p] \in Int /\ LastActivity(i) < cutoff[p]
        BY <2>4 DEF ReapDecide, TakeNext, TypeOK, Aged, ReapDue
      <4>2. created[i] <= LastActivity(i) /\ created[i] \in Int /\ LastActivity(i) \in Int
        BY DEF TypeOK, Aged, LastActivity
      <4>3. QED
        BY <4>1, <4>2 DEF TypeOK, Cutoff
    <3>2. /\ UNCHANGED <<clock, created, mtime, cutoff>>
          /\ tgt' = [tgt EXCEPT ![p] = i] /\ pc' = [pc EXCEPT ![p] = "rm"] /\ pc[p] = "scan"
      BY <2>4 DEF ReapDecide, TakeNext
    <3>3. QED
      BY <3>1, <3>2 DEF TypeOK, Aged, Cutoff
  <2>5. QED
    BY <1>4, <2>1a, <2>1b, <2>1c, <2>2a, <2>2b, <2>3, <2>4 DEF ReaperStep, LoopStep
<1>5. ASSUME NEW p \in Pausers, PauserStep(p) PROVE Aged'
  <2>1a. CASE List(p)
    BY <2>1a DEF List, ListedIds, TypeOK, Born, Aged, Unborn, Cutoff
  <2>1b. CASE PauseInspect(p)
    BY <2>1b DEF PauseInspect, Inspect, TypeOK, Born, Aged, Unborn, Cutoff
  <2>1c. CASE FixCutoff(p, MaxIdle)
    BY <2>1c DEF FixCutoff, Cutoff, TypeOK, Born, Aged, Unborn
  <2>2a. CASE LoopEnd(p)
    BY <2>2a DEF LoopEnd, TypeOK, Born, Aged, Unborn, Cutoff
  <2>2b. CASE InspectFails(p)
    BY <2>2b DEF InspectFails, TypeOK, Born, Aged, Unborn, Cutoff
  <2>3. CASE PauseFreeze(p)
    BY <2>3 DEF PauseFreeze, Freeze, Frozen, TypeOK, Born, Aged, Unborn, Cutoff
  <2>4. ASSUME NEW i \in Ids, PauseSkip(p, i) PROVE Aged'
    BY <2>4 DEF PauseSkip, TakeNext, TypeOK, Born, Aged, Unborn, Cutoff, PauseDue
  <2>5. ASSUME NEW i \in Ids, PauseDecide(p, i) PROVE Aged'
    <3>1. created[i] <= Cutoff(MaxIdle)
      <4>1. cutoff[p] <= Cutoff(MaxIdle) /\ cutoff[p] \in Int /\ LastActivity(i) <= cutoff[p]
        BY <2>5 DEF PauseDecide, TakeNext, TypeOK, Aged, PauseDue
      <4>2. created[i] <= LastActivity(i) /\ created[i] \in Int /\ LastActivity(i) \in Int
        BY DEF TypeOK, Aged, LastActivity
      <4>3. QED
        BY <4>1, <4>2 DEF TypeOK, Cutoff
    <3>2. /\ UNCHANGED <<clock, created, mtime, cutoff>>
          /\ tgt' = [tgt EXCEPT ![p] = i] /\ pc' = [pc EXCEPT ![p] = "freeze"] /\ pc[p] = "scan"
      BY <2>5 DEF PauseDecide, TakeNext
    <3>3. QED
      BY <3>1, <3>2 DEF TypeOK, Aged, Cutoff
  <2>6. QED
    BY <1>5, <2>1a, <2>1b, <2>1c, <2>2a, <2>2b, <2>3, <2>4, <2>5 DEF PauserStep, LoopStep
<1>6. ASSUME NEW p \in Procs, Crash(p) PROVE Aged'
  BY <1>6 DEF Crash, TypeOK, Born, Aged, Unborn, Cutoff
<1>7. CASE Engine
  <2>1. ASSUME NEW i \in Ids, EngineCreate(i) PROVE Aged'
    BY <2>1 DEF EngineCreate, TypeOK, Born, Aged, Unborn, Cutoff
  <2>2. ASSUME NEW i \in Ids, EngineStart(i) PROVE Aged'
    BY <2>2 DEF EngineStart, TypeOK, Born, Aged, Unborn, Cutoff
  <2>3. ASSUME NEW i \in Ids, ContainerStops(i) PROVE Aged'
    BY <2>3 DEF ContainerStops, KillJobs, TypeOK, Born, Aged, Unborn, Cutoff
  <2>4. ASSUME NEW c \in Cmds, JobExit(c) PROVE Aged'
    BY <2>4 DEF JobExit, TypeOK, Born, Aged, Unborn, Cutoff
  <2>5. QED
    BY <1>7, <2>1, <2>2, <2>3, <2>4 DEF Engine
<1>8. CASE Tick
  <2>1. /\ clock \in Int /\ clock' = clock + 1 /\ UNCHANGED <<created, mtime, cutoff, pc, tgt>>
        /\ created \in [Ids -> Int] /\ cutoff \in [Procs -> Int]
        /\ \A q \in Procs : pc[q] \notin Between => tgt[q] \in Ids
    BY <1>8 DEF Tick, TypeOK
  <2>2. QED
    BY <2>1 DEF Aged, Cutoff
<1>9. CASE UNCHANGED vars
  BY <1>9 DEF TypeOK, Born, Aged, Unborn, Cutoff
<1>10. QED
  BY <1>1, <1>2, <1>3, <1>4, <1>5, <1>6, <1>7, <1>8, <1>9 DEF Next

(* What a trail holds are commands.                                        *)
LEMMA EntriesType ==
  ASSUME NEW s \in Seq(Cmds) PROVE Entries(s) \subseteq Cmds
BY DEF Entries

(* The commands of a trail after one more was appended.                    *)
LEMMA EntriesAppend ==
  ASSUME NEW s \in Seq(Cmds), NEW c \in Cmds
  PROVE  Entries(Append(s, c)) = Entries(s) \cup {c}
<1>1. DOMAIN s = 1..Len(s) /\ DOMAIN Append(s, c) = 1..(Len(s) + 1) /\ Len(s) \in Nat
  OBVIOUS
<1>2. /\ \A k \in 1..Len(s) : Append(s, c)[k] = s[k]
      /\ Append(s, c)[Len(s) + 1] = c
  OBVIOUS
<1>3. QED
  BY <1>1, <1>2 DEF Entries

(* A command is taken by one Exec when it is new, and leaves its Exec as   *)
(* the Exec returns.                                                       *)
LEMMA OwnedStep ==
  ASSUME TypeOK, Born, Owned, [Next]_vars PROVE Owned'
<1>1. ASSUME NEW p \in Clients, ClientCall(p) PROVE Owned'
  <2>1. ASSUME NEW i \in Ids, CreateBegin(p, i) PROVE Owned'
    BY <2>1 DEF CreateBegin, TypeOK, Owned, InExec, Noted, Unborn, Listed
  <2>2. ASSUME NEW i \in Ids, NEW c \in Cmds, Exec(p, i, c) PROVE Owned'
    BY <2>2 DEF Exec, TypeOK, Owned, InExec, Noted, Unborn, Listed
  <2>3. ASSUME NEW i \in Ids, Destroy(p, i) PROVE Owned'
    BY <2>3 DEF Destroy, TypeOK, Owned, InExec, Noted, Unborn, Listed
  <2>4. ASSUME NEW i \in Ids, NEW op \in {"pause", "unpause"}, Steer(p, i, op) PROVE Owned'
    BY <2>4 DEF Steer, TypeOK, Owned, InExec, Noted, Unborn, Listed
  <2>5. QED
    BY <1>1, <2>1, <2>2, <2>3, <2>4 DEF ClientCall
<1>2. ASSUME NEW p \in Clients, ClientStep(p) PROVE Owned'
  <2>1. CASE CreateReturn(p)
    BY <2>1 DEF CreateReturn, TypeOK, Owned, InExec, Noted, Unborn, Listed
  <2>2. CASE AutoResume(p)
    BY <2>2 DEF AutoResume, Unpause, TypeOK, Owned, InExec, Noted, Unborn, Listed
  <2>3. CASE ExecStart(p)
    BY <2>3 DEF ExecStart, Started, TypeOK, Owned, InExec, Noted, Unborn, Listed
  <2>4. CASE ExecLaunchFails(p)
    BY <2>4 DEF ExecLaunchFails, TypeOK, Owned, InExec, Noted, Unborn, Listed
  <2>5. CASE ExecReturn(p)
    BY <2>5 DEF ExecReturn, TypeOK, Owned, InExec, Noted, Unborn, Listed
  <2>6. CASE ExecGiveUp(p)
    BY <2>6 DEF ExecGiveUp, TypeOK, Owned, InExec, Noted, Unborn, Listed
  <2>7. CASE ExecResultLost(p)
    BY <2>7 DEF ExecResultLost, TypeOK, Owned, InExec, Noted, Unborn, Listed
  <2>8. CASE Record(p)
    <3>1. /\ tgt[p] \in Ids /\ cmd[p] \in Cmds /\ pc[p] = "record" /\ trail \in [Ids -> Seq(Cmds)]
          /\ Leave(p) /\ UNCHANGED jobVars
      BY <2>8 DEF Record, TypeOK
    <3>2. \A i \in Ids : Noted(i)' \subseteq Noted(i) \cup {cmd[p]}
      <4>1. CASE trail' = [trail EXCEPT ![tgt[p]] = Append(@, cmd[p])]
        BY <3>1, <4>1, EntriesAppend DEF Noted
      <4>2. CASE UNCHANGED trail
        BY <4>2 DEF Noted
      <4>3. QED
        BY <2>8, <4>1, <4>2, Written
    <3>3. QED
      BY <2>8, <3>1, <3>2 DEF Record, TypeOK, Owned, InExec, Unborn
  <2>9. CASE PauseBox(p)
    BY <2>9 DEF PauseBox, Freeze, Frozen, TypeOK, Owned, InExec, Noted, Unborn, Listed
  <2>10. CASE ResumeBox(p)
    BY <2>10 DEF ResumeBox, Unpause, TypeOK, Owned, InExec, Noted, Unborn, Listed
  <2>11. QED
    BY <1>2, <2>1, <2>2, <2>3, <2>4, <2>5, <2>6, <2>7, <2>8, <2>9, <2>10 DEF ClientStep
<1>3. ASSUME NEW p \in Clients \cup Reapers, DestroyStep(p) PROVE Owned'
  <2>1. CASE DestroyRm(p)
    <3>1. /\ \A c \in Cmds : job'[c] = "new" <=> job[c] = "new"
          /\ \A j \in Ids : Unborn(j)' => Unborn(j)
          /\ UNCHANGED <<at, cmd, tgt, trail>>
      BY <2>1 DEF DestroyRm, KillJobs, TypeOK, Unborn
    <3>2. pc' = [pc EXCEPT ![p] = "unlink"] /\ pc[p] = "rm"
      BY <2>1 DEF DestroyRm
    <3>3. QED
      BY <3>1, <3>2, EntriesType DEF TypeOK, Owned, InExec, Noted
  <2>2. CASE DestroyFails(p)
    BY <2>2 DEF DestroyFails, TypeOK, Owned, InExec, Noted, Unborn, Listed
  <2>3. CASE DestroyUnlink(p)
    <3>1. \A i \in Ids : Noted(i)' \subseteq Noted(i)
      BY <2>3 DEF DestroyUnlink, TypeOK, Noted, Entries
    <3>2. QED
      BY <2>3, <3>1 DEF DestroyUnlink, TypeOK, Owned, InExec, Unborn
  <2>4. QED
    BY <1>3, <2>1, <2>2, <2>3 DEF DestroyStep
<1>4. ASSUME NEW p \in Reapers, ReaperStep(p) PROVE Owned'
  <2>1a. CASE List(p)
    BY <2>1a DEF List, ListedIds, TypeOK, Owned, InExec, Noted, Unborn, Listed
  <2>1b. CASE ReapInspect(p)
    BY <2>1b DEF ReapInspect, Inspect, TypeOK, Owned, InExec, Noted, Unborn, Listed
  <2>1c. CASE FixCutoff(p, MaxAge)
    BY <2>1c DEF FixCutoff, Cutoff, TypeOK, Owned, InExec, Noted, Unborn, Listed
  <2>2a. CASE LoopEnd(p)
    BY <2>2a DEF LoopEnd, TypeOK, Owned, InExec, Noted, Unborn, Listed
  <2>2b. CASE InspectFails(p)
    BY <2>2b DEF InspectFails, TypeOK, Owned, InExec, Noted, Unborn, Listed
  <2>3. ASSUME NEW i \in Ids, ReapSkip(p, i) PROVE Owned'
    BY <2>3 DEF ReapSkip, TakeNext, TypeOK, Owned, InExec, Noted, Unborn, Listed
  <2>4. ASSUME NEW i \in Ids, ReapDecide(p, i) PROVE Owned'
    BY <2>4 DEF ReapDecide, TakeNext, TypeOK, Owned, InExec, Noted, Unborn, Listed
  <2>5. QED
    BY <1>4, <2>1a, <2>1b, <2>1c, <2>2a, <2>2b, <2>3, <2>4 DEF ReaperStep, LoopStep
<1>5. ASSUME NEW p \in Pausers, PauserStep(p) PROVE Owned'
  <2>1a. CASE List(p)
    BY <2>1a DEF List, ListedIds, TypeOK, Owned, InExec, Noted, Unborn, Listed
  <2>1b. CASE PauseInspect(p)
    BY <2>1b DEF PauseInspect, Inspect, TypeOK, Owned, InExec, Noted, Unborn, Listed
  <2>1c. CASE FixCutoff(p, MaxIdle)
    BY <2>1c DEF FixCutoff, Cutoff, TypeOK, Owned, InExec, Noted, Unborn, Listed
  <2>2a. CASE LoopEnd(p)
    BY <2>2a DEF LoopEnd, TypeOK, Owned, InExec, Noted, Unborn, Listed
  <2>2b. CASE InspectFails(p)
    BY <2>2b DEF InspectFails, TypeOK, Owned, InExec, Noted, Unborn, Listed
  <2>3. CASE PauseFreeze(p)
    BY <2>3 DEF PauseFreeze, Freeze, Frozen, TypeOK, Owned, InExec, Noted, Unborn, Listed
  <2>4. ASSUME NEW i \in Ids, PauseSkip(p, i) PROVE Owned'
    BY <2>4 DEF PauseSkip, TakeNext, TypeOK, Owned, InExec, Noted, Unborn, Listed
  <2>5. ASSUME NEW i \in Ids, PauseDecide(p, i) PROVE Owned'
    BY <2>5 DEF PauseDecide, TakeNext, TypeOK, Owned, InExec, Noted, Unborn, Listed
  <2>6. QED
    BY <1>5, <2>1a, <2>1b, <2>1c, <2>2a, <2>2b, <2>3, <2>4, <2>5 DEF PauserStep, LoopStep
<1>6. ASSUME NEW p \in Procs, Crash(p) PROVE Owned'
  BY <1>6 DEF Crash, TypeOK, Owned, InExec, Noted, Unborn, Listed
<1>7. CASE Engine
  <2>1. ASSUME NEW i \in Ids, EngineCreate(i) PROVE Owned'
    BY <2>1 DEF EngineCreate, TypeOK, Owned, InExec, Noted, Unborn, Listed
  <2>2. ASSUME NEW i \in Ids, EngineStart(i) PROVE Owned'
    BY <2>2 DEF EngineStart, TypeOK, Owned, InExec, Noted, Unborn, Listed
  <2>3. ASSUME NEW i \in Ids, ContainerStops(i) PROVE Owned'
    <3>1. /\ \A c \in Cmds : job'[c] = "new" <=> job[c] = "new"
          /\ \A j \in Ids : Unborn(j)' => Unborn(j)
          /\ UNCHANGED <<at, cmd, tgt, trail>>
      BY <2>3 DEF ContainerStops, KillJobs, TypeOK, Unborn
    <3>2. UNCHANGED pc
      BY <2>3 DEF ContainerStops
    <3>3. QED
      BY <3>1, <3>2, EntriesType DEF TypeOK, Owned, InExec, Noted
  <2>4. ASSUME NEW c \in Cmds, JobExit(c) PROVE Owned'
    BY <2>4 DEF JobExit, TypeOK, Owned, InExec, Noted, Unborn, Listed
  <2>5. QED
    BY <1>7, <2>1, <2>2, <2>3, <2>4 DEF Engine
<1>8. CASE Tick
  BY <1>8 DEF Tick, TypeOK, Owned, InExec, Noted, Unborn, Listed
<1>9. CASE UNCHANGED vars
  BY <1>9 DEF TypeOK, Owned, InExec, Noted, Unborn, Listed
<1>10. QED
  BY <1>1, <1>2, <1>3, <1>4, <1>5, <1>6, <1>7, <1>8, <1>9 DEF Next

(* A call in progress never loses what it waits for: the engine gets on    *)
(* with a container once asked for, and a command that started ends.       *)
LEMMA CalledStep ==
  ASSUME TypeOK, Owned, Called, [Next]_vars PROVE Called'
<1> USE DEF Called, TypeOK
<1>1. ASSUME NEW p \in Clients, ClientCall(p) PROVE Called'
  <2>1. ASSUME NEW i \in Ids, CreateBegin(p, i) PROVE Called'
    BY <2>1 DEF CreateBegin
  <2>2. ASSUME NEW i \in Ids, NEW c \in Cmds, Exec(p, i, c) PROVE Called'
    BY <2>2 DEF Exec, Ran, Ended
  <2>3. ASSUME NEW i \in Ids, Destroy(p, i) PROVE Called'
    BY <2>3 DEF Destroy
  <2>4. ASSUME NEW i \in Ids, NEW op \in {"pause", "unpause"}, Steer(p, i, op) PROVE Called'
    BY <2>4 DEF Steer
  <2>5. QED
    BY <1>1, <2>1, <2>2, <2>3, <2>4 DEF ClientCall
<1>2. ASSUME NEW p \in Clients, ClientStep(p) PROVE Called'
  <2>1. CASE CreateReturn(p)
    BY <2>1 DEF CreateReturn
  <2>2. CASE AutoResume(p)
    BY <2>2 DEF AutoResume, Unpause
  <2>3. CASE ExecStart(p)
    <3>1. \A q \in Clients \ {p} : pc[q] = "wait" => cmd[q] # cmd[p]
      BY <2>3 DEF ExecStart, Owned, InExec
    <3>2. QED
      BY <2>3, <3>1 DEF ExecStart, Started, Ran
  <2>4. CASE ExecLaunchFails(p)
    <3>1. \A q \in Clients \ {p} : pc[q] = "wait" => cmd[q] # cmd[p]
      BY <2>4 DEF ExecLaunchFails, Owned, InExec
    <3>2. QED
      BY <2>4, <3>1 DEF ExecLaunchFails
  <2>5. CASE ExecReturn(p)
    BY <2>5 DEF ExecReturn
  <2>6. CASE ExecGiveUp(p)
    BY <2>6 DEF ExecGiveUp
  <2>7. CASE ExecResultLost(p)
    BY <2>7 DEF ExecResultLost
  <2>8. CASE Record(p)
    BY <2>8 DEF Record
  <2>9. CASE PauseBox(p)
    BY <2>9 DEF PauseBox, Freeze, Frozen
  <2>10. CASE ResumeBox(p)
    BY <2>10 DEF ResumeBox, Unpause
  <2>11. QED
    BY <1>2, <2>1, <2>2, <2>3, <2>4, <2>5, <2>6, <2>7, <2>8, <2>9, <2>10 DEF ClientStep
<1>3. ASSUME NEW p \in Clients \cup Reapers, DestroyStep(p) PROVE Called'
  <2>1. CASE DestroyRm(p)
    BY <2>1 DEF DestroyRm, KillJobs, Ran, Ended
  <2>2. CASE DestroyFails(p)
    BY <2>2 DEF DestroyFails
  <2>3. CASE DestroyUnlink(p)
    BY <2>3 DEF DestroyUnlink
  <2>4. QED
    BY <1>3, <2>1, <2>2, <2>3 DEF DestroyStep
<1>4. ASSUME NEW p \in Reapers, ReaperStep(p) PROVE Called'
  <2>1a. CASE List(p)
    BY <2>1a DEF List, ListedIds
  <2>1b. CASE ReapInspect(p)
    BY <2>1b DEF ReapInspect, Inspect
  <2>1c. CASE FixCutoff(p, MaxAge)
    BY <2>1c DEF FixCutoff, Cutoff
  <2>2a. CASE LoopEnd(p)
    BY <2>2a DEF LoopEnd
  <2>2b. CASE InspectFails(p)
    BY <2>2b DEF InspectFails
  <2>3. ASSUME NEW i \in Ids, ReapSkip(p, i) PROVE Called'
    BY <2>3 DEF ReapSkip, TakeNext
  <2>4. ASSUME NEW i \in Ids, ReapDecide(p, i) PROVE Called'
    BY <2>4 DEF ReapDecide, TakeNext
  <2>5. QED
    BY <1>4, <2>1a, <2>1b, <2>1c, <2>2a, <2>2b, <2>3, <2>4 DEF ReaperStep, LoopStep
<1>5. ASSUME NEW p \in Pausers, PauserStep(p) PROVE Called'
  <2>1a. CASE List(p)
    BY <2>1a DEF List, ListedIds
  <2>1b. CASE PauseInspect(p)
    BY <2>1b DEF PauseInspect, Inspect
  <2>1c. CASE FixCutoff(p, MaxIdle)
    BY <2>1c DEF FixCutoff, Cutoff
  <2>2a. CASE LoopEnd(p)
    BY <2>2a DEF LoopEnd
  <2>2b. CASE InspectFails(p)
    BY <2>2b DEF InspectFails
  <2>3. CASE PauseFreeze(p)
    BY <2>3 DEF PauseFreeze, Freeze, Frozen
  <2>4. ASSUME NEW i \in Ids, PauseSkip(p, i) PROVE Called'
    BY <2>4 DEF PauseSkip, TakeNext
  <2>5. ASSUME NEW i \in Ids, PauseDecide(p, i) PROVE Called'
    BY <2>5 DEF PauseDecide, TakeNext
  <2>6. QED
    BY <1>5, <2>1a, <2>1b, <2>1c, <2>2a, <2>2b, <2>3, <2>4, <2>5 DEF PauserStep, LoopStep
<1>6. ASSUME NEW p \in Procs, Crash(p) PROVE Called'
  BY <1>6 DEF Crash
<1>7. CASE Engine
  <2>1. ASSUME NEW i \in Ids, EngineCreate(i) PROVE Called'
    BY <2>1 DEF EngineCreate
  <2>2. ASSUME NEW i \in Ids, EngineStart(i) PROVE Called'
    BY <2>2 DEF EngineStart
  <2>3. ASSUME NEW i \in Ids, ContainerStops(i) PROVE Called'
    BY <2>3 DEF ContainerStops, KillJobs, Ran, Ended
  <2>4. ASSUME NEW c \in Cmds, JobExit(c) PROVE Called'
    BY <2>4 DEF JobExit, Ran, Ended
  <2>5. QED
    BY <1>7, <2>1, <2>2, <2>3, <2>4 DEF Engine
<1>8. CASE Tick
  BY <1>8 DEF Tick
<1>9. CASE UNCHANGED vars
  BY <1>9
<1>10. QED
  BY <1>1, <1>2, <1>3, <1>4, <1>5, <1>6, <1>7, <1>8, <1>9 DEF Next

(* But for what a fault lost, the command of every call that is over is in *)
(* the trail while the sandbox is there.                                   *)
LEMMA AuditedStep ==
  ASSUME TypeOK, Born, Owned, Audited, [Next]_vars
  PROVE  Audited'
<1> SUFFICES ASSUME NEW d \in Cmds, d \notin lost', (job[d] \in Ran)', Closed(d)'
             PROVE  (d \in Noted(at[d]))'
  BY DEF Audited
<1> DEFINE Kept == /\ d \notin lost /\ job[d] \in Ran /\ Closed(d)
                   /\ at'[d] = at[d] /\ trail'[at[d]] = trail[at[d]]
<1> SUFFICES Kept \/ (d \in Noted(at[d]))'
  BY DEF Audited, Noted
<1>1. ASSUME NEW p \in Clients, ClientCall(p) PROVE Kept \/ (d \in Noted(at[d]))'
  <2>1. ASSUME NEW i \in Ids, CreateBegin(p, i) PROVE Kept \/ (d \in Noted(at[d]))'
    BY <2>1 DEF CreateBegin, TypeOK, Owned, Unborn, Ran, Closed, InExec, Ended, Listed, Born
  <2>2. ASSUME NEW i \in Ids, NEW c \in Cmds, Exec(p, i, c) PROVE Kept \/ (d \in Noted(at[d]))'
    <3>1. d # c
      BY <2>2 DEF Exec, TypeOK, Ran, Ended
    <3>2. \A q \in Clients : cmd'[q] # d => cmd[q] # d
      BY <2>2 DEF Exec, TypeOK, Owned, InExec
    <3>3. QED
      BY <2>2, <3>1, <3>2 DEF Exec, TypeOK, Closed
  <2>3. ASSUME NEW i \in Ids, Destroy(p, i) PROVE Kept \/ (d \in Noted(at[d]))'
    BY <2>3 DEF Destroy, TypeOK, Owned, Unborn, Ran, Closed, InExec, Ended, Listed
  <2>4. ASSUME NEW i \in Ids, NEW op \in {"pause", "unpause"}, Steer(p, i, op) PROVE Kept \/ (d \in Noted(at[d]))'
    BY <2>4 DEF Steer, TypeOK, Owned, Unborn, Ran, Closed, InExec, Ended, Listed
  <2>5. QED
    BY <1>1, <2>1, <2>2, <2>3, <2>4 DEF ClientCall
<1>2. ASSUME NEW p \in Clients, ClientStep(p) PROVE Kept \/ (d \in Noted(at[d]))'
  <2>1. CASE CreateReturn(p)
    BY <2>1 DEF CreateReturn, TypeOK, Owned, Unborn, Ran, Closed, InExec, Ended, Listed
  <2>2. CASE AutoResume(p)
    BY <2>2 DEF AutoResume, Unpause, TypeOK, Owned, Unborn, Ran, Closed, InExec, Ended, Listed
  <2>3. CASE ExecStart(p)
    BY <2>3 DEF ExecStart, Started, TypeOK, Owned, Unborn, Ran, Closed, InExec, Ended, Listed
  <2>4. CASE ExecLaunchFails(p)
    BY <2>4 DEF ExecLaunchFails, TypeOK, Owned, Unborn, Ran, Closed, InExec, Ended, Listed
  <2>5. CASE ExecReturn(p)
    BY <2>5 DEF ExecReturn, TypeOK, Owned, Unborn, Ran, Closed, InExec, Ended, Listed
  <2>6. CASE ExecGiveUp(p)
    BY <2>6 DEF ExecGiveUp, TypeOK, Owned, Unborn, Ran, Closed, InExec, Ended, Listed
  <2>7. CASE ExecResultLost(p)
    BY <2>7 DEF ExecResultLost, Loses, TypeOK, Owned, Unborn, Ran, Closed, InExec, Ended, Listed
  <2>8. CASE Record(p)
    <3>1. /\ tgt[p] \in Ids /\ cmd[p] \in Cmds /\ trail \in [Ids -> Seq(Cmds)]
          /\ at[cmd[p]] = tgt[p] /\ at \in [Cmds -> Ids \cup {NoId}]
          /\ cmd' = [cmd EXCEPT ![p] = NoCmd] /\ cmd \in [Procs -> Cmds \cup {NoCmd}]
          /\ UNCHANGED <<box, job, at>>
      BY <2>8 DEF Record, TypeOK, Owned, InExec
    <3>2. \/ trail' = [trail EXCEPT ![tgt[p]] = Append(@, cmd[p])] /\ UNCHANGED lost
          \/ Loses(p) /\ UNCHANGED trail
      BY <2>8, Written
    <3>3. at[d] \in Ids
      BY <3>1 DEF Owned, Ran, Ended
    <3>4. CASE d = cmd[p]
      <4>1. trail' = [trail EXCEPT ![tgt[p]] = Append(@, cmd[p])]
        BY <3>1, <3>2, <3>4 DEF Loses
      <4>2. QED
        BY <3>1, <3>4, <4>1, EntriesAppend DEF Noted
    <3>5. CASE d # cmd[p]
      <4>1. d \notin lost /\ job[d] \in Ran /\ Closed(d) /\ at'[d] = at[d]
        BY <3>1, <3>2, <3>5 DEF Closed, Loses
      <4>2. d \in Noted(at[d])
        BY <4>1 DEF Audited
      <4>3. Noted(at[d]) \subseteq Noted(at[d])'
        <5>1. CASE trail' = [trail EXCEPT ![tgt[p]] = Append(@, cmd[p])]
          BY <3>1, <3>3, <5>1, EntriesAppend DEF Noted
        <5>2. CASE UNCHANGED trail
          BY <3>1, <5>2 DEF Noted
        <5>3. QED
          BY <3>2, <5>1, <5>2
      <4>4. QED
        BY <4>2, <4>3
    <3>6. QED
      BY <3>4, <3>5
  <2>9. CASE PauseBox(p)
    <3>1. box'[at[d]] \in Listed => box[at[d]] \in Listed
      BY <2>9 DEF PauseBox, Freeze, Frozen, TypeOK, Owned, Ran, Ended, Listed
    <3>2. /\ UNCHANGED <<trail, lost, job, at>>
          /\ \A q \in Clients : cmd'[q] # d => cmd[q] # d
      BY <2>9 DEF PauseBox, TypeOK, Owned, InExec
    <3>3. QED
      BY <3>1, <3>2 DEF Closed, Ran
  <2>10. CASE ResumeBox(p)
    <3>1. box'[at[d]] \in Listed => box[at[d]] \in Listed
      BY <2>10 DEF ResumeBox, Unpause, TypeOK, Owned, Ran, Ended, Listed
    <3>2. /\ UNCHANGED <<trail, lost, job, at>>
          /\ \A q \in Clients : cmd'[q] # d => cmd[q] # d
      BY <2>10 DEF ResumeBox, TypeOK, Owned, InExec
    <3>3. QED
      BY <3>1, <3>2 DEF Closed, Ran
  <2>11. QED
    BY <1>2, <2>1, <2>2, <2>3, <2>4, <2>5, <2>6, <2>7, <2>8, <2>9, <2>10 DEF ClientStep
<1>3. ASSUME NEW p \in Clients \cup Reapers, DestroyStep(p) PROVE Kept \/ (d \in Noted(at[d]))'
  <2>1. CASE DestroyRm(p)
    BY <2>1 DEF DestroyRm, KillJobs, TypeOK, Owned, Unborn, Ran, Closed, InExec, Ended, Listed
  <2>2. CASE DestroyFails(p)
    BY <2>2 DEF DestroyFails, TypeOK, Owned, Unborn, Ran, Closed, InExec, Ended, Listed
  <2>3. CASE DestroyUnlink(p)
    BY <2>3 DEF DestroyUnlink, TypeOK, Owned, Unborn, Ran, Closed, InExec, Ended, Listed, Born
  <2>4. QED
    BY <1>3, <2>1, <2>2, <2>3 DEF DestroyStep
<1>4. ASSUME NEW p \in Reapers, ReaperStep(p) PROVE Kept \/ (d \in Noted(at[d]))'
  <2>1a. CASE List(p)
    BY <2>1a DEF List, ListedIds, TypeOK, Owned, Unborn, Ran, Closed, InExec, Ended, Listed
  <2>1b. CASE ReapInspect(p)
    BY <2>1b DEF ReapInspect, Inspect, TypeOK, Owned, Unborn, Ran, Closed, InExec, Ended, Listed
  <2>1c. CASE FixCutoff(p, MaxAge)
    BY <2>1c DEF FixCutoff, Cutoff, TypeOK, Owned, Unborn, Ran, Closed, InExec, Ended, Listed
  <2>2a. CASE LoopEnd(p)
    BY <2>2a DEF LoopEnd, TypeOK, Owned, Unborn, Ran, Closed, InExec, Ended, Listed
  <2>2b. CASE InspectFails(p)
    BY <2>2b DEF InspectFails, TypeOK, Owned, Unborn, Ran, Closed, InExec, Ended, Listed
  <2>3. ASSUME NEW i \in Ids, ReapSkip(p, i) PROVE Kept \/ (d \in Noted(at[d]))'
    BY <2>3 DEF ReapSkip, TakeNext, TypeOK, Owned, Unborn, Ran, Closed, InExec, Ended, Listed
  <2>4. ASSUME NEW i \in Ids, ReapDecide(p, i) PROVE Kept \/ (d \in Noted(at[d]))'
    BY <2>4 DEF ReapDecide, TakeNext, TypeOK, Owned, Unborn, Ran, Closed, InExec, Ended, Listed
  <2>5. QED
    BY <1>4, <2>1a, <2>1b, <2>1c, <2>2a, <2>2b, <2>3, <2>4 DEF ReaperStep, LoopStep
<1>5. ASSUME NEW p \in Pausers, PauserStep(p) PROVE Kept \/ (d \in Noted(at[d]))'
  <2>1a. CASE List(p)
    BY <2>1a DEF List, ListedIds, TypeOK, Owned, Unborn, Ran, Closed, InExec, Ended, Listed
  <2>1b. CASE PauseInspect(p)
    BY <2>1b DEF PauseInspect, Inspect, TypeOK, Owned, Unborn, Ran, Closed, InExec, Ended, Listed
  <2>1c. CASE FixCutoff(p, MaxIdle)
    BY <2>1c DEF FixCutoff, Cutoff, TypeOK, Owned, Unborn, Ran, Closed, InExec, Ended, Listed
  <2>2a. CASE LoopEnd(p)
    BY <2>2a DEF LoopEnd, TypeOK, Owned, Unborn, Ran, Closed, InExec, Ended, Listed
  <2>2b. CASE InspectFails(p)
    BY <2>2b DEF InspectFails, TypeOK, Owned, Unborn, Ran, Closed, InExec, Ended, Listed
  <2>3. CASE PauseFreeze(p)
    BY <2>3 DEF PauseFreeze, Freeze, Frozen, TypeOK, Owned, Unborn, Ran, Closed, InExec, Ended, Listed
  <2>4. ASSUME NEW i \in Ids, PauseSkip(p, i) PROVE Kept \/ (d \in Noted(at[d]))'
    BY <2>4 DEF PauseSkip, TakeNext, TypeOK, Owned, Unborn, Ran, Closed, InExec, Ended, Listed
  <2>5. ASSUME NEW i \in Ids, PauseDecide(p, i) PROVE Kept \/ (d \in Noted(at[d]))'
    BY <2>5 DEF PauseDecide, TakeNext, TypeOK, Owned, Unborn, Ran, Closed, InExec, Ended, Listed
  <2>6. QED
    BY <1>5, <2>1a, <2>1b, <2>1c, <2>2a, <2>2b, <2>3, <2>4, <2>5 DEF PauserStep, LoopStep
<1>6. ASSUME NEW p \in Procs, Crash(p) PROVE Kept \/ (d \in Noted(at[d]))'
  <2>1. d = cmd[p] => d \in lost'
    BY <1>6 DEF Crash, Loses
  <2>2. Kept
    BY <1>6, <2>1 DEF Crash, Loses, TypeOK, Closed
  <2>3. QED
    BY <2>2
<1>7. CASE Engine
  <2>1. ASSUME NEW i \in Ids, EngineCreate(i) PROVE Kept \/ (d \in Noted(at[d]))'
    BY <2>1 DEF EngineCreate, TypeOK, Owned, Unborn, Ran, Closed, InExec, Ended, Listed
  <2>2. ASSUME NEW i \in Ids, EngineStart(i) PROVE Kept \/ (d \in Noted(at[d]))'
    BY <2>2 DEF EngineStart, TypeOK, Owned, Unborn, Ran, Closed, InExec, Ended, Listed
  <2>3. ASSUME NEW i \in Ids, ContainerStops(i) PROVE Kept \/ (d \in Noted(at[d]))'
    BY <2>3 DEF ContainerStops, KillJobs, TypeOK, Owned, Unborn, Ran, Closed, InExec, Ended, Listed
  <2>4. ASSUME NEW c \in Cmds, JobExit(c) PROVE Kept \/ (d \in Noted(at[d]))'
    BY <2>4 DEF JobExit, TypeOK, Owned, Unborn, Ran, Closed, InExec, Ended, Listed
  <2>5. QED
    BY <1>7, <2>1, <2>2, <2>3, <2>4 DEF Engine
<1>8. CASE Tick
  BY <1>8 DEF Tick, TypeOK, Owned, Unborn, Ran, Closed, InExec, Ended, Listed
<1>9. CASE UNCHANGED vars
  BY <1>9 DEF TypeOK, Owned, Unborn, Ran, Closed, InExec, Ended, Listed
<1>10. QED
  BY <1>1, <1>2, <1>3, <1>4, <1>5, <1>6, <1>7, <1>8, <1>9 DEF Next

(* A reaper's pass: what was listed and is not taken from the list has     *)
(* been looked at after the cutoff was fixed, and activity only moves on.  *)
LEMMA InHandStep ==
  ASSUME TypeOK, Born, Aged, InHand, [Next]_vars PROVE InHand'
<1> DEFINE Held(q, j) == \/ j \in pending[q]
                         \/ pc[q] = "rm" /\ tgt[q] = j
                         \/ pc[q] \notin Preparing /\ LastActivity(j) >= cutoff[q]
<1> SUFFICES ASSUME NEW q \in Reapers, NEW j \in Ids, j \in seen'[q], j \notin spared', box'[j] \in Listed
             PROVE  Held(q, j)'
  BY DEF InHand
<1> DEFINE Mine == UNCHANGED <<pc[q], tgt[q], pending[q], seen[q], cutoff[q]>>
           Still == j \notin spared /\ box[j] \in Listed /\ UNCHANGED <<created[j], mtime[j]>>
<1> USE DEF Listed
<1>0. Mine /\ Still => Held(q, j)'
  BY DEF InHand, LastActivity
<1> USE ProcsAssumption DEF Procs
<1>1. ASSUME NEW p \in Clients, ClientCall(p) PROVE Mine /\ Still
  <2>1. ASSUME NEW i \in Ids, CreateBegin(p, i) PROVE Mine /\ Still
    BY <2>1 DEF CreateBegin, TypeOK
  <2>2. ASSUME NEW i \in Ids, NEW c \in Cmds, Exec(p, i, c) PROVE Mine /\ Still
    BY <2>2 DEF Exec, TypeOK
  <2>3. ASSUME NEW i \in Ids, Destroy(p, i) PROVE Mine /\ Still
    BY <2>3 DEF Destroy, TypeOK
  <2>4. ASSUME NEW i \in Ids, NEW op \in {"pause", "unpause"}, Steer(p, i, op) PROVE Mine /\ Still
    BY <2>4 DEF Steer, TypeOK
  <2>5. QED
    BY <1>1, <2>1, <2>2, <2>3, <2>4 DEF ClientCall
<1>2. ASSUME NEW p \in Clients, ClientStep(p), ~Record(p) PROVE Mine /\ Still
  <2>1. CASE CreateReturn(p)
    BY <2>1 DEF CreateReturn, TypeOK
  <2>2. CASE AutoResume(p)
    BY <2>2 DEF AutoResume, Unpause, TypeOK
  <2>3. CASE ExecStart(p)
    BY <2>3 DEF ExecStart, TypeOK
  <2>4. CASE ExecLaunchFails(p)
    BY <2>4 DEF ExecLaunchFails, TypeOK
  <2>5. CASE ExecReturn(p)
    BY <2>5 DEF ExecReturn, TypeOK
  <2>6. CASE ExecGiveUp(p)
    BY <2>6 DEF ExecGiveUp, TypeOK
  <2>7. CASE ExecResultLost(p)
    BY <2>7 DEF ExecResultLost, TypeOK
  <2>9. CASE PauseBox(p)
    BY <2>9 DEF PauseBox, Freeze, Frozen, TypeOK
  <2>10. CASE ResumeBox(p)
    BY <2>10 DEF ResumeBox, Unpause, TypeOK
  <2>11. QED
    BY <1>2, <2>1, <2>2, <2>3, <2>4, <2>5, <2>6, <2>7, <2>9, <2>10 DEF ClientStep
<1>2a. ASSUME NEW p \in Clients, Record(p) PROVE Held(q, j)'
  <2>1. Mine /\ UNCHANGED <<clock, box, spared, created>> /\ j \in seen[q] /\ j \notin spared /\ box[j] \in Listed
    BY <1>2a DEF Record, TypeOK
  <2>2. mtime' \in {mtime, [mtime EXCEPT ![tgt[p]] = clock]}
    BY <1>2a, Written
  <2>3. CASE mtime'[j] = mtime[j]
    BY <1>0, <2>1, <2>3
  <2>4. CASE mtime'[j] # mtime[j]
    <3>1. mtime'[j] = clock /\ clock \in Nat
      BY <2>2, <2>4 DEF TypeOK
    <3>2. LastActivity(j)' = clock
      BY <3>1 DEF LastActivity, NoFile
    <3>3. pc[q] \notin Preparing => cutoff[q] <= clock
      BY <3>1, TimesAssumption DEF Aged, Cutoff, TypeOK
    <3>4. cutoff[q] \in Int
      BY DEF TypeOK
    <3>5. Held(q, j)
      BY <2>1 DEF InHand
    <3>6. QED
      BY <2>1, <3>1, <3>2, <3>3, <3>4, <3>5
  <2>5. QED
    BY <2>3, <2>4
<1>3. ASSUME NEW p \in Clients \cup Reapers, DestroyStep(p)
      PROVE  Held(q, j)'
  <2>1. CASE DestroyRm(p)
    <3>1. j # tgt[p] /\ Still /\ UNCHANGED <<pending, seen, cutoff, tgt>>
      BY <2>1 DEF DestroyRm, TypeOK
    <3>2. p = q \/ Mine
      BY <2>1 DEF DestroyRm, TypeOK
    <3>3. QED
      BY <1>0, <2>1, <3>1, <3>2 DEF InHand, DestroyRm, LastActivity, TypeOK
  <2>2. CASE DestroyFails(p)
    <3>1. Still /\ UNCHANGED <<pending, seen, cutoff>>
      BY <2>2 DEF DestroyFails, TypeOK
    <3>2. p = q => j # tgt[p]
      BY <2>2 DEF DestroyFails, TypeOK
    <3>3. p = q \/ Mine
      BY <2>2 DEF DestroyFails, TypeOK
    <3>4. QED
      BY <1>0, <2>2, <3>1, <3>2, <3>3 DEF InHand, DestroyFails, LastActivity, TypeOK
  <2>3. CASE DestroyUnlink(p)
    <3>1. j # tgt[p] /\ Still /\ UNCHANGED <<pending, seen, cutoff>>
      BY <2>3 DEF DestroyUnlink, Born, TypeOK
    <3>2. p = q \/ Mine
      BY <2>3 DEF DestroyUnlink, TypeOK
    <3>3. QED
      BY <1>0, <2>3, <3>1, <3>2 DEF InHand, DestroyUnlink, LastActivity, TypeOK
  <2>4. QED
    BY <1>3, <2>1, <2>2, <2>3 DEF DestroyStep
<1>4. ASSUME NEW p \in Reapers, ReaperStep(p)
      PROVE  Held(q, j)'
  <2>0. p # q => Mine
    BY <1>4 DEF ReaperStep, LoopStep, List, ReapInspect, Inspect, FixCutoff, LoopEnd, InspectFails,
                ReapSkip, ReapDecide, TakeNext, TypeOK
  <2>00. Still
    BY <1>4 DEF ReaperStep, LoopStep, List, ReapInspect, Inspect, FixCutoff, LoopEnd, InspectFails,
                ReapSkip, ReapDecide, TakeNext
  <2>1a. CASE List(p)
    BY <1>0, <2>0, <2>00, <2>1a DEF List, TypeOK
  <2>1b. CASE ReapInspect(p)
    <3>1. p = q => j \in seen[q] /\ pc[q] = "inspect" /\ pending'[q] = {i \in pending[q] : box[i] \in Listed}
      BY <2>1b DEF ReapInspect, Inspect, TypeOK
    <3>2. p = q => j \in pending[q]
      BY <2>00, <3>1 DEF InHand
    <3>3. QED
      BY <1>0, <2>0, <2>00, <3>1, <3>2
  <2>1c. CASE FixCutoff(p, MaxAge)
    <3>1. p = q => j \in seen[q] /\ pc[q] = "cutoff" /\ pending' = pending
      BY <2>1c DEF FixCutoff, TypeOK
    <3>2. p = q => j \in pending[q]
      BY <2>00, <3>1 DEF InHand
    <3>3. QED
      BY <1>0, <2>0, <2>00, <3>1, <3>2
  <2>2a. CASE LoopEnd(p)
    BY <1>0, <2>0, <2>00, <2>2a DEF LoopEnd, TypeOK
  <2>2b. CASE InspectFails(p)
    BY <1>0, <2>0, <2>00, <2>2b DEF InspectFails, TypeOK
  <2>3. ASSUME NEW i \in Ids, ReapSkip(p, i) PROVE Held(q, j)'
    <3>1. /\ UNCHANGED <<pc, tgt, seen, cutoff, mtime, created>> /\ pc[p] = "scan"
          /\ p = q => pending'[q] = pending[q] \ {i}
      BY <2>3 DEF ReapSkip, TakeNext, TypeOK
    <3>2. i = j => ~(LastActivity(j) < cutoff[p])
      BY <2>00, <2>3 DEF ReapSkip, ReapDue
    <3>3. LastActivity(j) \in Int /\ cutoff[p] \in Int
      BY DEF LastActivity, TypeOK, NoFile
    <3>4. LastActivity(j)' = LastActivity(j)
      BY <3>1 DEF LastActivity
    <3>5. CASE p = q
      BY <2>00, <3>1, <3>2, <3>3, <3>4, <3>5 DEF InHand
    <3>6. QED
      BY <1>0, <2>0, <2>00, <3>5
  <2>4. ASSUME NEW i \in Ids, ReapDecide(p, i) PROVE Held(q, j)'
    <3>1. /\ UNCHANGED <<seen, cutoff, mtime, created>> /\ pc[p] = "scan"
          /\ p = q => /\ pending'[q] = pending[q] \ {i}
                      /\ pc'[q] = "rm" /\ tgt'[q] = i
      BY <2>4 DEF ReapDecide, TakeNext, TypeOK
    <3>2. LastActivity(j)' = LastActivity(j)
      BY <3>1 DEF LastActivity
    <3>3. CASE p = q
      BY <2>00, <3>1, <3>2, <3>3 DEF InHand
    <3>4. QED
      BY <1>0, <2>0, <2>00, <3>3
  <2>5. QED
    BY <1>4, <2>1a, <2>1b, <2>1c, <2>2a, <2>2b, <2>3, <2>4 DEF ReaperStep, LoopStep
<1>5. ASSUME NEW p \in Pausers, PauserStep(p) PROVE Mine /\ Still
  <2>1a. CASE List(p)
    BY <2>1a DEF List, ListedIds, TypeOK
  <2>1b. CASE PauseInspect(p)
    BY <2>1b DEF PauseInspect, Inspect, TypeOK
  <2>1c. CASE FixCutoff(p, MaxIdle)
    BY <2>1c DEF FixCutoff, Cutoff, TypeOK
  <2>2a. CASE LoopEnd(p)
    BY <2>2a DEF LoopEnd, TypeOK
  <2>2b. CASE InspectFails(p)
    BY <2>2b DEF InspectFails, TypeOK
  <2>3. CASE PauseFreeze(p)
    BY <2>3 DEF PauseFreeze, Freeze, Frozen, TypeOK
  <2>4. ASSUME NEW i \in Ids, PauseSkip(p, i) PROVE Mine /\ Still
    BY <2>4 DEF PauseSkip, TakeNext, TypeOK
  <2>5. ASSUME NEW i \in Ids, PauseDecide(p, i) PROVE Mine /\ Still
    BY <2>5 DEF PauseDecide, TakeNext, TypeOK
  <2>6. QED
    BY <1>5, <2>1a, <2>1b, <2>1c, <2>2a, <2>2b, <2>3, <2>4, <2>5 DEF PauserStep, LoopStep
<1>6. ASSUME NEW p \in Procs, Crash(p) PROVE Mine /\ Still
  BY <1>6 DEF Crash, TypeOK
<1>7. CASE Engine
  <2>1. ASSUME NEW i \in Ids, EngineCreate(i) PROVE Mine /\ Still
    BY <2>1 DEF EngineCreate, Born, Unborn, TypeOK
  <2>2. ASSUME NEW i \in Ids, EngineStart(i) PROVE Mine /\ Still
    BY <2>2 DEF EngineStart, TypeOK
  <2>3. ASSUME NEW i \in Ids, ContainerStops(i) PROVE Mine /\ Still
    BY <2>3 DEF ContainerStops, TypeOK
  <2>4. ASSUME NEW c \in Cmds, JobExit(c) PROVE Mine /\ Still
    BY <2>4 DEF JobExit
  <2>5. QED
    BY <1>0, <1>7, <2>1, <2>2, <2>3, <2>4 DEF Engine
<1>8. CASE Tick
  BY <1>0, <1>8 DEF Tick
<1>9. CASE UNCHANGED vars
  BY <1>0, <1>9
<1>10. QED
  BY <1>0, <1>1, <1>2, <1>2a, <1>3, <1>4, <1>5, <1>6, <1>7, <1>8, <1>9 DEF Next

(* A step that moves neither the containers nor the trails is invisible to *)
(* the lifecycle.                                                          *)
LEMMA Unseen ==
  ASSUME UNCHANGED <<box, trail>> PROVE UNCHANGED Life!lifeVars
BY DEF Life!lifeVars

(* The moves of one container that are a step of its lifecycle, or none.   *)
LEMMA Turned ==
  ASSUME TypeOK, NEW i \in Ids, NEW s \in BoxStates,
         box' = [box EXCEPT ![i] = s], UNCHANGED trail,
         \/ Phase(box[i]) = Phase(s)
         \/ Unborn(i) /\ s \in {"created", "gone"}
         \/ box[i] = "created" /\ s \in {"running", "stopped"}
         \/ box[i] = "running" /\ s \in {"paused", "stopped"}
         \/ box[i] = "paused" /\ s \in {"running", "stopped"}
         \/ box[i] \in Listed /\ s = "gone"
  PROVE  [Life!LifeNext]_(Life!lifeVars)
<1> DEFINE phase == [j \in Ids |-> Phase(box[j])]
<1>1. [j \in Ids |-> Phase(box'[j])] = [phase EXCEPT ![i] = Phase(s)]
  BY DEF TypeOK, Phase
<1>2. phase[i] = Phase(box[i])
  OBVIOUS
<1>3. CASE Phase(box[i]) = Phase(s)
  BY <1>1, <1>2, <1>3 DEF Life!lifeVars
<1>4. CASE Unborn(i) /\ s = "created"
  BY <1>1, <1>4 DEF Life!LifeNext, Life!Make, Life!Turn, Phase, Unborn
<1>5. CASE Unborn(i) /\ s = "gone"
  BY <1>1, <1>5 DEF Life!LifeNext, Life!Abort, Life!Turn, Phase, Unborn
<1>6. CASE box[i] = "created" /\ s = "running"
  BY <1>1, <1>6 DEF Life!LifeNext, Life!Boot, Life!Turn, Phase
<1>7. CASE box[i] = "running" /\ s = "paused"
  BY <1>1, <1>7 DEF Life!LifeNext, Life!Freeze, Life!Turn, Phase
<1>8. CASE box[i] = "paused" /\ s = "running"
  BY <1>1, <1>8 DEF Life!LifeNext, Life!Thaw, Life!Turn, Phase
<1>9. CASE box[i] \in {"created", "running", "paused"} /\ s = "stopped"
  BY <1>1, <1>9 DEF Life!LifeNext, Life!Halt, Life!Turn, Phase
<1>10. CASE box[i] \in Listed /\ s = "gone"
  BY <1>1, <1>10 DEF Life!LifeNext, Life!End, Life!Turn, Phase, Listed
<1>11. QED
  BY <1>3, <1>4, <1>5, <1>6, <1>7, <1>8, <1>9, <1>10

(* Every step of the nucleo is a step of the lifecycle or invisible to it. *)
LEMMA LifeStep ==
  ASSUME TypeOK, Born, Owned, [Next]_vars PROVE [Life!LifeNext]_(Life!lifeVars)
<1>1. ASSUME NEW p \in Clients, ClientCall(p) PROVE [Life!LifeNext]_(Life!lifeVars)
  <2>1. ASSUME NEW i \in Ids, CreateBegin(p, i) PROVE [Life!LifeNext]_(Life!lifeVars)
    BY <2>1, Turned DEF CreateBegin, Phase, BoxStates
  <2>2. ASSUME NEW i \in Ids, NEW c \in Cmds, Exec(p, i, c) PROVE [Life!LifeNext]_(Life!lifeVars)
    BY <2>2, Unseen DEF Exec
  <2>3. ASSUME NEW i \in Ids, Destroy(p, i) PROVE [Life!LifeNext]_(Life!lifeVars)
    BY <2>3, Unseen DEF Destroy
  <2>4. ASSUME NEW i \in Ids, NEW op \in {"pause", "unpause"}, Steer(p, i, op) PROVE [Life!LifeNext]_(Life!lifeVars)
    BY <2>4, Unseen DEF Steer
  <2>5. QED
    BY <1>1, <2>1, <2>2, <2>3, <2>4 DEF ClientCall
<1>2. ASSUME NEW p \in Clients, ClientStep(p) PROVE [Life!LifeNext]_(Life!lifeVars)
  <2>1. CASE CreateReturn(p)
    BY <2>1, Unseen DEF CreateReturn
  <2>2. CASE AutoResume(p)
    <3>1. tgt[p] \in Ids /\ UNCHANGED trail
      BY <2>2 DEF AutoResume, TypeOK
    <3>2. CASE box[tgt[p]] = "paused" /\ Unpause(tgt[p])
      <4>1. box' = [box EXCEPT ![tgt[p]] = "running"]
        BY <3>2 DEF Unpause
      <4>2. QED
        BY <3>1, <3>2, <4>1, Turned DEF BoxStates
    <3>3. CASE UNCHANGED box
      BY <3>1, <3>3, Unseen
    <3>4. CASE box[tgt[p]] # "paused" /\ Unpause(tgt[p])
      <4>1. UNCHANGED box
        BY <3>1, <3>4 DEF Unpause, TypeOK
      <4>2. QED
        BY <3>1, <4>1, Unseen
    <3>5. QED
      BY <2>2, <3>2, <3>3, <3>4 DEF AutoResume
  <2>3. CASE ExecStart(p)
    BY <2>3, Unseen DEF ExecStart
  <2>4. CASE ExecLaunchFails(p)
    BY <2>4, Unseen DEF ExecLaunchFails
  <2>5. CASE ExecReturn(p)
    BY <2>5, Unseen DEF ExecReturn
  <2>6. CASE ExecGiveUp(p)
    BY <2>6, Unseen DEF ExecGiveUp
  <2>7. CASE ExecResultLost(p)
    BY <2>7, Unseen DEF ExecResultLost
  <2>8. CASE Record(p)
    <3>1. /\ tgt[p] \in Ids /\ cmd[p] \in Cmds /\ UNCHANGED box
          /\ Phase(box[tgt[p]]) # "unborn"
          /\ \A j \in Ids : cmd[p] \notin Life!Entries(trail[j])
      BY <2>8 DEF Record, TypeOK, Born, Unborn, Phase, BoxStates, Owned, InExec,
                  Noted, Entries, Life!Entries
    <3>2. CASE trail' = [trail EXCEPT ![tgt[p]] = Append(@, cmd[p])]
      BY <3>1, <3>2 DEF Life!LifeNext, Life!Note
    <3>3. CASE UNCHANGED trail
      BY <3>1, <3>3, Unseen
    <3>4. QED
      BY <2>8, <3>2, <3>3, Written
  <2>9. CASE PauseBox(p)
    <3>1. tgt[p] \in Ids /\ UNCHANGED trail
      BY <2>9 DEF PauseBox, TypeOK
    <3>2. CASE box[tgt[p]] = "running" /\ Freeze(tgt[p])
      <4>1. box' = [box EXCEPT ![tgt[p]] = "paused"]
        BY <3>2 DEF Freeze, Frozen
      <4>2. QED
        BY <3>1, <3>2, <4>1, Turned DEF BoxStates
    <3>3. CASE UNCHANGED box
      BY <3>1, <3>3, Unseen
    <3>4. CASE box[tgt[p]] # "running" /\ Freeze(tgt[p])
      <4>1. UNCHANGED box
        BY <3>1, <3>4 DEF Freeze, Frozen, TypeOK
      <4>2. QED
        BY <3>1, <4>1, Unseen
    <3>5. QED
      BY <2>9, <3>2, <3>3, <3>4 DEF PauseBox
  <2>10. CASE ResumeBox(p)
    <3>1. tgt[p] \in Ids /\ UNCHANGED trail
      BY <2>10 DEF ResumeBox, TypeOK
    <3>2. CASE box[tgt[p]] = "paused" /\ Unpause(tgt[p])
      <4>1. box' = [box EXCEPT ![tgt[p]] = "running"]
        BY <3>2 DEF Unpause
      <4>2. QED
        BY <3>1, <3>2, <4>1, Turned DEF BoxStates
    <3>3. CASE UNCHANGED box
      BY <3>1, <3>3, Unseen
    <3>4. CASE box[tgt[p]] # "paused" /\ Unpause(tgt[p])
      <4>1. UNCHANGED box
        BY <3>1, <3>4 DEF Unpause, TypeOK
      <4>2. QED
        BY <3>1, <4>1, Unseen
    <3>5. QED
      BY <2>10, <3>2, <3>3, <3>4 DEF ResumeBox
  <2>11. QED
    BY <1>2, <2>1, <2>2, <2>3, <2>4, <2>5, <2>6, <2>7, <2>8, <2>9, <2>10 DEF ClientStep
<1>3. ASSUME NEW p \in Clients \cup Reapers, DestroyStep(p) PROVE [Life!LifeNext]_(Life!lifeVars)
  <2>1. CASE DestroyRm(p)
    <3>1. /\ tgt[p] \in Ids /\ box' = [box EXCEPT ![tgt[p]] = "gone"] /\ UNCHANGED trail
          /\ box[tgt[p]] \in Listed \cup {"gone"}
      BY <2>1 DEF DestroyRm, TypeOK, Born, Unborn, Listed, BoxStates
    <3>2. QED
      BY <3>1, Turned DEF BoxStates, Phase
  <2>2. CASE DestroyFails(p)
    BY <2>2, Unseen DEF DestroyFails
  <2>3. CASE DestroyUnlink(p)
    <3>1. /\ tgt[p] \in Ids /\ UNCHANGED box /\ Phase(box[tgt[p]]) = "gone"
          /\ trail' = [trail EXCEPT ![tgt[p]] = <<>>]
      BY <2>3 DEF DestroyUnlink, TypeOK, Born, Phase
    <3>2. QED
      BY <3>1 DEF Life!LifeNext, Life!Erase
  <2>4. QED
    BY <1>3, <2>1, <2>2, <2>3 DEF DestroyStep
<1>4. ASSUME NEW p \in Reapers, ReaperStep(p) PROVE [Life!LifeNext]_(Life!lifeVars)
  <2>1a. CASE List(p)
    BY <2>1a, Unseen DEF List, ListedIds
  <2>1b. CASE ReapInspect(p)
    BY <2>1b, Unseen DEF ReapInspect, Inspect
  <2>1c. CASE FixCutoff(p, MaxAge)
    BY <2>1c, Unseen DEF FixCutoff, Cutoff
  <2>2a. CASE LoopEnd(p)
    BY <2>2a, Unseen DEF LoopEnd
  <2>2b. CASE InspectFails(p)
    BY <2>2b, Unseen DEF InspectFails
  <2>3. ASSUME NEW i \in Ids, ReapSkip(p, i) PROVE [Life!LifeNext]_(Life!lifeVars)
    BY <2>3, Unseen DEF ReapSkip, TakeNext
  <2>4. ASSUME NEW i \in Ids, ReapDecide(p, i) PROVE [Life!LifeNext]_(Life!lifeVars)
    BY <2>4, Unseen DEF ReapDecide, TakeNext
  <2>5. QED
    BY <1>4, <2>1a, <2>1b, <2>1c, <2>2a, <2>2b, <2>3, <2>4 DEF ReaperStep, LoopStep
<1>5. ASSUME NEW p \in Pausers, PauserStep(p) PROVE [Life!LifeNext]_(Life!lifeVars)
  <2>1a. CASE List(p)
    BY <2>1a, Unseen DEF List, ListedIds
  <2>1b. CASE PauseInspect(p)
    BY <2>1b, Unseen DEF PauseInspect, Inspect
  <2>1c. CASE FixCutoff(p, MaxIdle)
    BY <2>1c, Unseen DEF FixCutoff, Cutoff
  <2>2a. CASE LoopEnd(p)
    BY <2>2a, Unseen DEF LoopEnd
  <2>2b. CASE InspectFails(p)
    BY <2>2b, Unseen DEF InspectFails
  <2>3. CASE PauseFreeze(p)
    <3>1. tgt[p] \in Ids /\ UNCHANGED trail
      BY <2>3 DEF PauseFreeze, TypeOK
    <3>2. CASE box[tgt[p]] = "running" /\ Freeze(tgt[p])
      <4>1. box' = [box EXCEPT ![tgt[p]] = "paused"]
        BY <3>2 DEF Freeze, Frozen
      <4>2. QED
        BY <3>1, <3>2, <4>1, Turned DEF BoxStates
    <3>3. CASE UNCHANGED box
      BY <3>1, <3>3, Unseen
    <3>4. CASE box[tgt[p]] # "running" /\ Freeze(tgt[p])
      <4>1. UNCHANGED box
        BY <3>1, <3>4 DEF Freeze, Frozen, TypeOK
      <4>2. QED
        BY <3>1, <4>1, Unseen
    <3>5. QED
      BY <2>3, <3>2, <3>3, <3>4 DEF PauseFreeze
  <2>4. ASSUME NEW i \in Ids, PauseSkip(p, i) PROVE [Life!LifeNext]_(Life!lifeVars)
    BY <2>4, Unseen DEF PauseSkip, TakeNext
  <2>5. ASSUME NEW i \in Ids, PauseDecide(p, i) PROVE [Life!LifeNext]_(Life!lifeVars)
    BY <2>5, Unseen DEF PauseDecide, TakeNext
  <2>6. QED
    BY <1>5, <2>1a, <2>1b, <2>1c, <2>2a, <2>2b, <2>3, <2>4, <2>5 DEF PauserStep, LoopStep
<1>6. ASSUME NEW p \in Procs, Crash(p) PROVE [Life!LifeNext]_(Life!lifeVars)
  BY <1>6, Unseen DEF Crash
<1>7. CASE Engine
  <2>1. ASSUME NEW i \in Ids, EngineCreate(i) PROVE [Life!LifeNext]_(Life!lifeVars)
    BY <2>1, Turned DEF EngineCreate, Unborn, BoxStates
  <2>2. ASSUME NEW i \in Ids, EngineStart(i) PROVE [Life!LifeNext]_(Life!lifeVars)
    BY <2>2, Turned DEF EngineStart, BoxStates
  <2>3. ASSUME NEW i \in Ids, ContainerStops(i) PROVE [Life!LifeNext]_(Life!lifeVars)
    BY <2>3, Turned DEF ContainerStops, BoxStates
  <2>4. ASSUME NEW c \in Cmds, JobExit(c) PROVE [Life!LifeNext]_(Life!lifeVars)
    BY <2>4, Unseen DEF JobExit
  <2>5. QED
    BY <1>7, <2>1, <2>2, <2>3, <2>4 DEF Engine
<1>8. CASE Tick
  BY <1>8, Unseen DEF Tick
<1>9. CASE UNCHANGED vars
  BY <1>9, Unseen
<1>10. QED
  BY <1>1, <1>2, <1>3, <1>4, <1>5, <1>6, <1>7, <1>8, <1>9 DEF Next

---------------------------------------------------------------------------
(* IInv holds in every reachable state, whatever fails.                    *)
THEOREM InvariantHolds == Spec => []IInv
<1>1. Init => IInv
  BY DEF Init, IInv, Born, Aged, Owned, Called, InExec, Noted, Entries, NoFile
<1>2. TypeOK /\ IInv /\ [Next]_vars => IInv'
  BY BornStep, AgedStep, OwnedStep, CalledStep DEF IInv
<1>3. QED
  BY <1>1, <1>2, TypeCorrect, PTL DEF Spec

(* A reaper only destroys, and a pauser only freezes, a sandbox created    *)
(* before its whole limit, however old the readings it decided on are.     *)
THEOREM AgeRespected == Spec => LoopsRespectAge
<1> DEFINE Kept == /\ \A p \in Reapers : pc[p] = "rm" /\ pc'[p] = "unlink"
                                         => clock - created[tgt[p]] > MaxAge
                   /\ \A p \in Pausers : pc[p] = "freeze" /\ box' # box
                                         => clock - created[tgt[p]] >= MaxIdle
<1>1. TypeOK /\ IInv => Kept
  <2> SUFFICES ASSUME TypeOK, IInv PROVE Kept
    OBVIOUS
  <2>1. clock \in Int /\ \A i \in Ids : created[i] \in Int
    BY DEF TypeOK
  <2>2. \A p \in Procs : pc[p] \in {"rm", "freeze"} => tgt[p] \in Ids
    BY DEF TypeOK
  <2>3. \A p \in Reapers : pc[p] = "rm" => created[tgt[p]] < clock - MaxAge
    BY DEF IInv, Aged, Cutoff
  <2>4. \A p \in Pausers : pc[p] = "freeze" => created[tgt[p]] <= clock - MaxIdle
    BY DEF IInv, Aged, Cutoff
  <2>5. QED
    BY <2>1, <2>2, <2>3, <2>4
<1>2. TypeOK /\ IInv /\ [Next]_vars => [Kept]_vars
  BY <1>1
<1>3. QED
  BY <1>2, TypeCorrect, InvariantHolds, PTL DEF Spec, LoopsRespectAge

(* The nucleo implements the lifecycle: no loop, call, crash or failure    *)
(* brings a removed sandbox back, writes a command twice or takes a line   *)
(* out of the trail of a sandbox that is there.                            *)
THEOREM Refinement == Spec => LifecycleSpec
<1>1. Init => Life!LifeInit
  BY DEF Init, Life!LifeInit, Phase
<1>2. TypeOK /\ IInv /\ [Next]_vars => [Life!LifeNext]_(Life!lifeVars)
  BY LifeStep DEF IInv
<1>3. QED
  BY <1>1, <1>2, TypeCorrect, InvariantHolds, PTL DEF Spec, LifecycleSpec, Life!LifeSpec

(* A step of the lifecycle that moves sandbox i on from where it is, but   *)
(* not from its end, leaves every trail alone.                             *)
LEMMA TurnKeeps ==
  ASSUME NEW i \in Ids, NEW from, NEW to, "gone" \notin from, Life!Turn(i, from, to)
  PROVE  Life!EachKept /\ (Life!WrittenOnce => Life!WrittenOnce')
<1> DEFINE ph == [k \in Ids |-> Phase(box[k])]
<1>1. ph[i] \in from /\ ph' = [ph EXCEPT ![i] = to] /\ UNCHANGED trail
  BY DEF Life!Turn
<1>2. ASSUME NEW k \in Ids, ph[k] = "gone" PROVE ph'[k] = "gone"
  <2> HIDE DEF ph
  <2>1. k # i
    BY <1>1, <1>2
  <2>2. ph \in [Ids -> {ph[l] : l \in Ids}]
    BY DEF ph
  <2>3. QED
    BY <1>1, <1>2, <2>1, <2>2
<1>3. Life!EachKept
  BY <1>1, <1>2 DEF Life!EachKept, Life!Kept
<1>4. Life!WrittenOnce => Life!WrittenOnce'
  BY <1>1 DEF Life!WrittenOnce
<1>5. QED
  BY <1>3, <1>4

(* What one step of the lifecycle leaves alone.                            *)
LEMMA LifeKept ==
  ASSUME trail \in [Ids -> Seq(Cmds)], [Life!LifeNext]_(Life!lifeVars)
  PROVE  [Life!EachKept]_(Life!lifeVars) /\ (Life!WrittenOnce => Life!WrittenOnce')
<1> DEFINE ph == [k \in Ids |-> Phase(box[k])]
           Good == [Life!EachKept]_(Life!lifeVars) /\ (Life!WrittenOnce => Life!WrittenOnce')
<1>1. ASSUME NEW i \in Ids, NEW c \in Cmds, Life!Note(i, c) PROVE Good
  <2>1. /\ \A j \in Ids : c \notin Life!Entries(trail[j])
        /\ trail' = [trail EXCEPT ![i] = Append(@, c)] /\ ph' = ph
    BY <1>1 DEF Life!Note
  <2>2. /\ DOMAIN trail[i] = 1..Len(trail[i]) /\ Len(trail[i]) \in Nat
        /\ DOMAIN trail'[i] = 1..(Len(trail[i]) + 1)
        /\ \A k \in 1..Len(trail[i]) : trail'[i][k] = trail[i][k]
        /\ trail'[i][Len(trail[i]) + 1] = c
    BY <2>1
  <2>3. \A j \in Ids : \A k \in DOMAIN trail[j] : trail[j][k] # c
    BY <2>1 DEF Life!Entries
  <2>4. \A j \in Ids : j # i => trail'[j] = trail[j]
    BY <2>1
  <2>5. Life!WrittenOnce => Life!WrittenOnce'
    <3> SUFFICES ASSUME Life!WrittenOnce, NEW j \in Ids, NEW m \in Ids,
                        NEW k \in DOMAIN trail'[j], NEW l \in DOMAIN trail'[m],
                        trail'[j][k] = trail'[m][l]
                 PROVE  j = m /\ k = l
      BY DEF Life!WrittenOnce
    <3>1. CASE j = i /\ m = i
      BY <3>1, <2>2, <2>3 DEF Life!WrittenOnce
    <3>2. CASE j = i /\ m # i
      BY <3>2, <2>2, <2>3, <2>4 DEF Life!WrittenOnce
    <3>3. CASE j # i /\ m = i
      BY <3>3, <2>2, <2>3, <2>4 DEF Life!WrittenOnce
    <3>4. CASE j # i /\ m # i
      BY <3>4, <2>4 DEF Life!WrittenOnce
    <3>5. QED
      BY <3>1, <3>2, <3>3, <3>4
  <2>6. Life!EachKept
    <3> SUFFICES ASSUME NEW k \in Ids PROVE Life!Kept(k)
      BY DEF Life!EachKept
    <3>1. ph[k] = ph'[k]
      BY <2>1
    <3>2. \A l \in DOMAIN trail[k] : l \in DOMAIN trail'[k] /\ trail'[k][l] = trail[k][l]
      BY <2>2, <2>4
    <3>3. QED
      BY <3>1, <3>2 DEF Life!Kept
  <2>7. QED
    BY <2>5, <2>6
<1>2. ASSUME NEW i \in Ids, Life!Erase(i) PROVE Good
  <2>1. ph[i] = "gone" /\ trail' = [trail EXCEPT ![i] = <<>>] /\ ph' = ph
    BY <1>2 DEF Life!Erase
  <2>2. \A j \in Ids : trail'[j] = IF j = i THEN <<>> ELSE trail[j]
    BY <2>1
  <2>3. Life!WrittenOnce => Life!WrittenOnce'
    BY <2>2 DEF Life!WrittenOnce
  <2>4. Life!EachKept
    BY <2>1, <2>2 DEF Life!EachKept, Life!Kept
  <2>5. QED
    BY <2>3, <2>4
<1>3. CASE UNCHANGED Life!lifeVars
  BY <1>3 DEF Life!lifeVars, Life!WrittenOnce
<1>4. ASSUME NEW i \in Ids,
             \/ Life!Make(i) \/ Life!Boot(i) \/ Life!Abort(i) \/ Life!Freeze(i)
             \/ Life!Thaw(i) \/ Life!Halt(i) \/ Life!End(i)
      PROVE  Good
  <2>1. Life!EachKept /\ (Life!WrittenOnce => Life!WrittenOnce')
    BY <1>4, TurnKeeps DEF Life!Make, Life!Boot, Life!Abort, Life!Freeze, Life!Thaw, Life!Halt,
                           Life!End
  <2>2. QED
    BY <2>1
<1>5. CASE Life!LifeNext
  <2>1. PICK i \in Ids : \/ Life!Make(i) \/ Life!Boot(i) \/ Life!Abort(i) \/ Life!Freeze(i)
                         \/ Life!Thaw(i) \/ Life!Halt(i) \/ Life!End(i) \/ Life!Erase(i)
                         \/ \E c \in Cmds : Life!Note(i, c)
    BY <1>5 DEF Life!LifeNext
  <2>2. CASE Life!Erase(i)
    BY <2>2, <1>2
  <2>3. CASE \E c \in Cmds : Life!Note(i, c)
    <3>1. PICK c \in Cmds : Life!Note(i, c)
      BY <2>3
    <3>2. QED
      BY <3>1, <1>1
  <2>4. QED
    BY <2>1, <2>2, <2>3, <1>4
<1>6. QED
  BY <1>3, <1>5

(* So no line of the trail of a sandbox that is there is lost or moved, no  *)
(* line is in any trail twice, and no sandbox comes back.                   *)
THEOREM TrailsTrue == Spec => []Life!WrittenOnce /\ Life!OneLife
<1>1. Init => Life!WrittenOnce
  BY DEF Init, Life!WrittenOnce
<1>2. TypeOK => trail \in [Ids -> Seq(Cmds)]
  BY DEF TypeOK
<1>3. TypeOK /\ [Life!LifeNext]_(Life!lifeVars)
      => [Life!EachKept]_(Life!lifeVars) /\ (Life!WrittenOnce => Life!WrittenOnce')
  BY <1>2, LifeKept
<1>4. QED
  BY <1>1, <1>3, TypeCorrect, Refinement, PTL
  DEF Spec, LifecycleSpec, Life!LifeSpec, Life!OneLife

(* The audit trail of a sandbox misses only commands whose process crashed, *)
(* whose disk was full, or whose exec answered just as its deadline fired.  *)
THEOREM AuditHolds == Spec => []AuditComplete
<1>1. Init => Audited
  BY DEF Init, Audited, Ran, Ended
<1>2. TypeOK /\ IInv /\ Audited /\ [Next]_vars => Audited'
  BY AuditedStep DEF IInv
<1>3. Audited => AuditComplete
  BY DEF Audited, AuditComplete, Ran
<1>4. QED
  BY <1>1, <1>2, <1>3, TypeCorrect, InvariantHolds, PTL DEF Spec

(* A Reap that has gone through its list has left no sandbox of it that   *)
(* was idle at its cutoff and is so still, whoever used, froze or removed  *)
(* sandboxes meanwhile, but those whose rm failed.                         *)
THEOREM ReapsThorough == Spec => []ReapIsThorough
<1>1. Init => InHand
  BY ProcsAssumption DEF Init, InHand, Procs
<1>2. TypeOK /\ IInv /\ InHand /\ [Next]_vars => InHand'
  BY InHandStep DEF IInv
<1>3. TypeOK /\ InHand => ReapIsThorough
  BY DEF InHand, ReapIsThorough
<1>4. QED
  BY <1>1, <1>2, <1>3, TypeCorrect, InvariantHolds, PTL DEF Spec

---------------------------------------------------------------------------
(* Every call returns.                                                     *)

(* Client p is between calls, or in an exec without a deadline.            *)
Back(p) == pc[p] = "idle" \/ (p \notin Timed /\ pc[p] = "wait")

(* How many steps of its own, at most, client p is away from that.         *)
StepsLeft(p) ==
    IF Back(p) THEN 0
    ELSE IF pc[p] \in {"record", "pause", "unpause"} THEN 1
    ELSE IF pc[p] \in {"wait", "unlink"} THEN 2
    ELSE IF pc[p] \in {"exec", "rm"} THEN 3
    ELSE IF pc[p] = "resume" \/ box[tgt[p]] = "pulling" THEN 4
    ELSE IF box[tgt[p]] = "created" THEN 3
    ELSE 2

(* No step of anyone takes a container back to where it was not made yet.  *)
LEMMA BoxForward ==
  ASSUME TypeOK, [Next]_vars, NEW i \in Ids
  PROVE  /\ box'[i] = "pulling" => Unborn(i)
         /\ box'[i] = "created" => box[i] \in {"pulling", "created"}
<1> USE DEF TypeOK, Unborn
<1>1. ASSUME NEW p \in Clients, ClientCall(p) PROVE box'[i] # box[i] => Unborn(i) /\ box'[i] = "pulling"
  BY <1>1 DEF ClientCall, CreateBegin, Exec, Destroy, Steer
<1>2. ASSUME NEW p \in Clients, ClientStep(p) PROVE box'[i] = box[i] \/ box'[i] \in {"running", "paused"}
  <2>1. CASE AutoResume(p) \/ PauseBox(p) \/ ResumeBox(p)
    BY <2>1 DEF AutoResume, PauseBox, ResumeBox, Unpause, Freeze, Frozen
  <2>2. CASE ~(AutoResume(p) \/ PauseBox(p) \/ ResumeBox(p))
    BY <1>2, <2>2 DEF ClientStep, CreateReturn, ExecStart, ExecLaunchFails, ExecReturn, ExecGiveUp,
                      ExecResultLost, Record
  <2>3. QED
    BY <2>1, <2>2
<1>3. ASSUME NEW p \in Clients \cup Reapers, DestroyStep(p) PROVE box'[i] \in {box[i], "gone"}
  BY <1>3 DEF DestroyStep, DestroyRm, DestroyFails, DestroyUnlink
<1>4. ASSUME NEW p \in Reapers, ReaperStep(p) PROVE box' = box
  BY <1>4 DEF ReaperStep, LoopStep, List, ReapInspect, Inspect, FixCutoff, InspectFails, LoopEnd, ReapSkip, ReapDecide, TakeNext
<1>5. ASSUME NEW p \in Pausers, PauserStep(p) PROVE box'[i] \in {box[i], "paused"}
  BY <1>5 DEF PauserStep, LoopStep, List, PauseInspect, Inspect, FixCutoff, InspectFails, LoopEnd, PauseSkip, PauseDecide, TakeNext,
              PauseFreeze, Freeze, Frozen
<1>6. CASE Engine
  BY <1>6 DEF Engine, EngineCreate, EngineStart, ContainerStops, JobExit
<1>7. CASE UNCHANGED box
  BY <1>7
<1>8. QED
  BY <1>1, <1>2, <1>3, <1>4, <1>5, <1>6, <1>7 DEF Next, Crash, Tick

(* Only its own steps, or its death, move a client through its call.       *)
LEMMA OwnPace ==
  ASSUME TypeOK, [Next]_vars, NEW p \in Clients, pc[p] # "idle"
  PROVE  \/ CallStep(p)
         \/ pc'[p] = "idle"
         \/ pc'[p] = pc[p] /\ tgt'[p] = tgt[p]
<1> USE DEF TypeOK
<1>1. ASSUME NEW q \in Clients, ClientCall(q) PROVE q # p /\ pc'[p] = pc[p] /\ tgt'[p] = tgt[p]
  BY <1>1 DEF ClientCall, CreateBegin, Exec, Destroy, Steer
<1>2. ASSUME NEW q \in Clients, q # p, ClientStep(q) PROVE pc'[p] = pc[p] /\ tgt'[p] = tgt[p]
  BY <1>2 DEF ClientStep, CreateReturn, AutoResume, ExecStart, ExecLaunchFails, ExecReturn, ExecGiveUp,
              ExecResultLost, Record, PauseBox, ResumeBox
<1>3. ASSUME NEW q \in Clients \cup Reapers, q # p, DestroyStep(q) PROVE pc'[p] = pc[p] /\ tgt'[p] = tgt[p]
  BY <1>3 DEF DestroyStep, DestroyRm, DestroyFails, DestroyUnlink
<1>4. ASSUME NEW q \in Reapers, ReaperStep(q) PROVE pc'[p] = pc[p] /\ tgt'[p] = tgt[p]
  BY <1>4 DEF ReaperStep, LoopStep, List, ReapInspect, Inspect, FixCutoff, InspectFails, LoopEnd, ReapSkip, ReapDecide, TakeNext
<1>5. ASSUME NEW q \in Pausers, PauserStep(q) PROVE pc'[p] = pc[p] /\ tgt'[p] = tgt[p]
  BY <1>5 DEF PauserStep, LoopStep, List, PauseInspect, Inspect, FixCutoff, InspectFails, LoopEnd, PauseSkip, PauseDecide, TakeNext, PauseFreeze
<1>6. ASSUME NEW q \in Procs, Crash(q) PROVE pc'[p] = "idle" \/ (pc'[p] = pc[p] /\ tgt'[p] = tgt[p])
  BY <1>6 DEF Crash
<1>7. CASE Engine \/ Tick \/ UNCHANGED vars
  BY <1>7 DEF Engine, EngineCreate, EngineStart, ContainerStops, JobExit, Tick
<1>8. QED
  BY <1>1, <1>2, <1>3, <1>4, <1>5, <1>6, <1>7 DEF Next, CallStep

(* A container comes to be frozen by a process that pauses it.             *)
LEMMA OnlyPausesFreeze ==
  ASSUME TypeOK, [Next]_vars, NEW i \in Ids, box[i] # "paused", box'[i] = "paused"
  PROVE  \E q \in Procs : pc[q] \in {"pause", "freeze"} /\ tgt[q] = i /\ pc'[q] # pc[q]
<1> USE DEF TypeOK
<1>1. ASSUME NEW p \in Clients, PauseBox(p)
      PROVE  \E q \in Procs : pc[q] \in {"pause", "freeze"} /\ tgt[q] = i /\ pc'[q] # pc[q]
  <2>1. pc[p] = "pause" /\ pc'[p] = "idle" /\ tgt[p] = i
    BY <1>1 DEF PauseBox, Freeze
  <2>2. QED
    BY <2>1
<1>2. ASSUME NEW p \in Pausers, PauseFreeze(p)
      PROVE  \E q \in Procs : pc[q] \in {"pause", "freeze"} /\ tgt[q] = i /\ pc'[q] # pc[q]
  <2>1. pc[p] = "freeze" /\ pc'[p] = "scan" /\ tgt[p] = i
    BY <1>2 DEF PauseFreeze, Freeze
  <2>2. QED
    BY <2>1
<1>3. ASSUME NEW p \in Clients, ClientCall(p) PROVE FALSE
  BY <1>3 DEF ClientCall, CreateBegin, Exec, Destroy, Steer
<1>4. ASSUME NEW p \in Clients, AutoResume(p) \/ ResumeBox(p) PROVE FALSE
  BY <1>4 DEF AutoResume, ResumeBox, Unpause
<1>5. ASSUME NEW p \in Clients, ClientStep(p), ~AutoResume(p), ~ResumeBox(p), ~PauseBox(p)
      PROVE  FALSE
  BY <1>5 DEF ClientStep, CreateReturn, ExecStart, ExecLaunchFails, ExecReturn, ExecGiveUp,
              ExecResultLost, Record
<1>6. ASSUME NEW p \in Clients \cup Reapers, DestroyStep(p) PROVE FALSE
  BY <1>6 DEF DestroyStep, DestroyRm, DestroyFails, DestroyUnlink
<1>7. ASSUME NEW p \in Reapers, ReaperStep(p) PROVE FALSE
  BY <1>7 DEF ReaperStep, LoopStep, List, ReapInspect, Inspect, FixCutoff, InspectFails, LoopEnd, ReapSkip, ReapDecide, TakeNext
<1>8. ASSUME NEW p \in Pausers, PauserStep(p), ~PauseFreeze(p) PROVE FALSE
  BY <1>8 DEF PauserStep, LoopStep, List, PauseInspect, Inspect, FixCutoff, InspectFails, LoopEnd, PauseSkip, PauseDecide, TakeNext
<1>9. CASE Engine
  BY <1>9 DEF Engine, EngineCreate, EngineStart, ContainerStops, JobExit
<1>10. QED
  BY <1>1, <1>2, <1>3, <1>4, <1>5, <1>6, <1>7, <1>8, <1>9 DEF Next, Crash, Tick

(* An idle client comes to its docker exec at once only by an Exec of a    *)
(* sandbox that was not paused.                                            *)
LEMMA AtOnceIfAwake ==
  ASSUME TypeOK, [Next]_vars, NEW p \in Clients, pc[p] = "idle", pc'[p] = "exec"
  PROVE  box' = box /\ box[tgt'[p]] # "paused"
<1> USE DEF TypeOK
<1>1. ASSUME NEW q \in Clients, ClientCall(q) PROVE box' = box /\ box[tgt'[p]] # "paused"
  <2>1. PICK i \in Ids, c \in Cmds : Exec(q, i, c)
    BY <1>1 DEF ClientCall, CreateBegin, Destroy, Steer
  <2>2. box' = box /\ q = p /\ tgt'[p] = i /\ box[i] # "paused"
    BY <2>1 DEF Exec
  <2>3. QED
    BY <2>2
<1>2. ASSUME NEW q \in Clients, ClientStep(q) PROVE FALSE
  BY <1>2 DEF ClientStep, CreateReturn, AutoResume, ExecStart, ExecLaunchFails, ExecReturn, ExecGiveUp,
              ExecResultLost, Record, PauseBox, ResumeBox
<1>3. ASSUME NEW q \in Clients \cup Reapers, DestroyStep(q) PROVE FALSE
  BY <1>3 DEF DestroyStep, DestroyRm, DestroyFails, DestroyUnlink
<1>4. ASSUME NEW q \in Reapers, ReaperStep(q) PROVE FALSE
  BY <1>4 DEF ReaperStep, LoopStep, List, ReapInspect, Inspect, FixCutoff, InspectFails, LoopEnd, ReapSkip, ReapDecide, TakeNext
<1>5. ASSUME NEW q \in Pausers, PauserStep(q) PROVE FALSE
  BY <1>5 DEF PauserStep, LoopStep, List, PauseInspect, Inspect, FixCutoff, InspectFails, LoopEnd, PauseSkip, PauseDecide, TakeNext, PauseFreeze
<1>6. ASSUME NEW q \in Procs, Crash(q) PROVE FALSE
  BY <1>6 DEF Crash
<1>7. CASE Engine \/ Tick \/ UNCHANGED vars
  BY <1>7 DEF Engine, EngineCreate, EngineStart, ContainerStops, JobExit, Tick
<1>8. QED
  BY <1>1, <1>2, <1>3, <1>4, <1>5, <1>6, <1>7 DEF Next

(* A call resumes a paused sandbox before its command: the command meets a *)
(* paused one only if somebody paused it under the call, or the engine did *)
(* not resume it.                                                          *)
THEOREM ResumesFirst == Spec => AutoResumes
<1> DEFINE Excused(p) ==
             \/ \E q \in Procs : pc[q] \in {"pause", "freeze"} /\ tgt[q] = tgt[p] /\ pc'[q] # pc[q]
             \/ pc[p] = "resume" /\ "engine" \in Faults
<1>1. ASSUME TypeOK, [Next]_vars, NEW p \in Clients, ~TurnedAway(p), TurnedAway(p)'
      PROVE  Excused(p)
  <2> USE DEF TurnedAway
  <2>1. pc[p] # "idle"
    BY <1>1, AtOnceIfAwake
  <2>2. tgt[p] \in Ids \/ pc[p] # "exec"
    BY <1>1 DEF TypeOK
  <2>3. CASE pc[p] = "exec" /\ tgt'[p] = tgt[p]
    BY <1>1, <2>2, <2>3, OnlyPausesFreeze
  <2>4. CASE CallStep(p)
    <3>1. AutoResume(p)
      BY <1>1, <2>1, <2>4
         DEF CallStep, ClientStep, DestroyStep, CreateReturn, ExecStart, ExecLaunchFails, ExecReturn,
             ExecGiveUp, ExecResultLost, Record, PauseBox, ResumeBox, DestroyRm, DestroyFails,
             DestroyUnlink, EngineCreate, EngineStart, TypeOK
    <3>2. QED
      BY <1>1, <3>1 DEF AutoResume, Unpause, TypeOK
  <2>5. QED
    BY <1>1, <2>1, <2>3, <2>4, OwnPace
<1>2. TypeOK /\ [Next]_vars
        => [\A p \in Clients : ~TurnedAway(p) /\ TurnedAway(p)' => Excused(p)]_vars
  BY <1>1
<1>3. QED
  BY <1>2, TypeCorrect, PTL DEF Spec, AutoResumes

(* Each step of a call brings it nearer to its end.                        *)
LEMMA CallStepCounts ==
  ASSUME TypeOK, NEW p \in Clients, CallStep(p), StepsLeft(p) # 0
  PROVE  StepsLeft(p)' < StepsLeft(p)
<1> USE DEF TypeOK, StepsLeft, Back
<1>1. CASE CreateReturn(p)
  BY <1>1 DEF CreateReturn
<1>2. CASE AutoResume(p)
  BY <1>2 DEF AutoResume
<1>3. CASE ExecStart(p)
  BY <1>3 DEF ExecStart
<1>4. CASE ExecLaunchFails(p)
  BY <1>4 DEF ExecLaunchFails
<1>5. CASE ExecReturn(p)
  BY <1>5 DEF ExecReturn
<1>6. CASE ExecGiveUp(p)
  BY <1>6 DEF ExecGiveUp
<1>7. CASE ExecResultLost(p)
  BY <1>7 DEF ExecResultLost
<1>8. CASE Record(p)
  BY <1>8 DEF Record
<1>9. CASE PauseBox(p)
  BY <1>9 DEF PauseBox
<1>10. CASE ResumeBox(p)
  BY <1>10 DEF ResumeBox
<1>11. CASE DestroyStep(p)
  BY <1>11 DEF DestroyStep, DestroyRm, DestroyFails, DestroyUnlink
<1>12. CASE pc[p] = "run" /\ EngineCreate(tgt[p])
  <2>1. tgt[p] \in Ids /\ box[tgt[p]] = "pulling" /\ box'[tgt[p]] \in {"created", "gone"}
    BY <1>12 DEF EngineCreate
  <2>2. QED
    BY <1>12, <2>1 DEF EngineCreate
<1>13. CASE pc[p] = "run" /\ EngineStart(tgt[p])
  <2>1. tgt[p] \in Ids /\ box[tgt[p]] = "created" /\ box'[tgt[p]] \in {"running", "stopped"}
    BY <1>13 DEF EngineStart
  <2>2. QED
    BY <1>13, <2>1 DEF EngineStart
<1>14. QED
  BY <1>1, <1>2, <1>3, <1>4, <1>5, <1>6, <1>7, <1>8, <1>9, <1>10, <1>11, <1>12, <1>13
  DEF CallStep, ClientStep

(* Nobody else takes it further away.                                      *)
LEMMA NeverFurther ==
  ASSUME TypeOK, IInv, [Next]_vars, NEW p \in Clients, StepsLeft(p) # 0
  PROVE  StepsLeft(p)' <= StepsLeft(p)
<1> USE DEF StepsLeft, Back
<1>1. pc[p] # "idle"
  OBVIOUS
<1>2. CASE CallStep(p)
  BY <1>2, CallStepCounts
<1>3. CASE pc'[p] = "idle"
  BY <1>3
<1>4. CASE pc'[p] = pc[p] /\ tgt'[p] = tgt[p] /\ pc[p] # "run"
  BY <1>4 DEF TypeOK, ClientPcs
<1>5. CASE pc'[p] = pc[p] /\ tgt'[p] = tgt[p] /\ pc[p] = "run"
  <2>1. tgt[p] \in Ids /\ box[tgt[p]] # "unused"
    BY <1>5 DEF TypeOK, IInv, Called
  <2>2. /\ box'[tgt[p]] = "pulling" => box[tgt[p]] = "pulling"
        /\ box'[tgt[p]] = "created" => box[tgt[p]] \in {"pulling", "created"}
    BY <2>1, BoxForward DEF Unborn
  <2>3. QED
    BY <1>5, <2>2
<1>6. QED
  BY <1>1, <1>2, <1>3, <1>4, <1>5, OwnPace

(* A call under way is never wedged: its next step can be taken.           *)
LEMMA NeverWedged ==
  ASSUME TypeOK, IInv, NEW p \in Clients, StepsLeft(p) # 0 PROVE CanGoOn(p)
BY DEF StepsLeft, Back, CanGoOn, GivesUp, IInv, Called, Ran

(* Every call comes back to its caller, whatever fails, dies or is paused  *)
(* under it: only an exec without a deadline may go on as long as its      *)
(* command does.                                                           *)
THEOREM CallsReturn == LiveSpec => EveryCallReturns
<1>1. ASSUME NEW p \in Clients
      PROVE  LiveSpec => (pc[p] # "idle" ~> \/ pc[p] = "idle"
                                            \/ p \notin Timed /\ pc[p] = "wait")
  <2> DEFINE Left(k) == StepsLeft(p) = k
             Fewer(k) == StepsLeft(p) \in 0..(k - 1)
  <2>1. LiveSpec => Spec /\ CallsGoOn
    BY DEF LiveSpec
  <2>2. CallsGoOn => CallGoesOn(p)
    BY DEF CallsGoOn
  <2>3. ASSUME NEW k \in 1..4 PROVE TypeOK /\ IInv /\ [Next]_vars /\ Left(k) => (Left(k) \/ Fewer(k))'
    <3> SUFFICES ASSUME TypeOK, IInv, [Next]_vars, Left(k) PROVE (Left(k) \/ Fewer(k))'
      OBVIOUS
    <3>1. StepsLeft(p)' \in 0..4
      BY DEF StepsLeft
    <3>2. StepsLeft(p)' <= StepsLeft(p)
      BY NeverFurther
    <3>3. QED
      BY <3>1, <3>2
  <2>4. ASSUME NEW k \in 1..4 PROVE TypeOK /\ <<CallStep(p)>>_vars /\ Left(k) => Fewer(k)'
    <3> SUFFICES ASSUME TypeOK, CallStep(p), Left(k) PROVE Fewer(k)'
      OBVIOUS
    <3>1. StepsLeft(p)' \in 0..4
      BY DEF StepsLeft
    <3>2. StepsLeft(p)' < StepsLeft(p)
      BY CallStepCounts
    <3>3. QED
      BY <3>1, <3>2
  <2>5. ASSUME NEW k \in 1..4 PROVE TypeOK /\ IInv /\ Left(k) => CanGoOn(p)
    BY NeverWedged
  <2>6. /\ Fewer(4) => Left(3) \/ Fewer(3)
        /\ Fewer(3) => Left(2) \/ Fewer(2)
        /\ Fewer(2) => Left(1) \/ Fewer(1)
        /\ Fewer(1) => Back(p)
        /\ Left(4) \/ Fewer(4)
    BY DEF StepsLeft
  <2> HIDE DEF Left, Fewer
  <2>7. Back(p) => pc[p] = "idle" \/ (p \notin Timed /\ pc[p] = "wait")
    BY DEF Back
  <2>8. /\ TypeOK /\ IInv /\ [Next]_vars /\ Left(4) => (Left(4) \/ Fewer(4))'
        /\ TypeOK /\ IInv /\ [Next]_vars /\ Left(3) => (Left(3) \/ Fewer(3))'
        /\ TypeOK /\ IInv /\ [Next]_vars /\ Left(2) => (Left(2) \/ Fewer(2))'
        /\ TypeOK /\ IInv /\ [Next]_vars /\ Left(1) => (Left(1) \/ Fewer(1))'
    BY <2>3
  <2>9. /\ TypeOK /\ <<CallStep(p)>>_vars /\ Left(4) => Fewer(4)'
        /\ TypeOK /\ <<CallStep(p)>>_vars /\ Left(3) => Fewer(3)'
        /\ TypeOK /\ <<CallStep(p)>>_vars /\ Left(2) => Fewer(2)'
        /\ TypeOK /\ <<CallStep(p)>>_vars /\ Left(1) => Fewer(1)'
    BY <2>4
  <2>10. TypeOK /\ IInv /\ (Left(4) \/ Left(3) \/ Left(2) \/ Left(1)) => CanGoOn(p)
    BY <2>5
  <2>11. QED
    BY <2>1, <2>2, <2>6, <2>7, <2>8, <2>9, <2>10, TypeCorrect, InvariantHolds, PTL
    DEF Spec, CallGoesOn
<1>2. QED
  BY <1>1 DEF EveryCallReturns
============================================================================
