----------------------------- MODULE Firewall -----------------------------
(***************************************************************************)
(* The egress firewall of the OCI driver (internal/driver/oci/oci.go): a   *)
(* sandbox created with --allow gets an internal network and a proxy       *)
(* sidecar, made before its container and removed after it.  Creators,     *)
(* destroyers and the orphan sweep of the reap loop run in different       *)
(* processes and share nothing but the engine; the sweep tells a leftover  *)
(* from a firewall under construction by its age alone.                    *)
(*                                                                         *)
(* A step is one runtime call.  An id is drawn once, so it has at most one *)
(* creator, and step[i] is that creator's place in Create.                 *)
(***************************************************************************)
EXTENDS Integers, FiniteSets

CONSTANTS
    Ids,          \* sandbox identifiers
    Destroyers,   \* processes that call Destroy
    Sweepers,     \* processes that call Sweep
    Grace,        \* sweepGrace
    CreateBound,  \* the longest a creation may take from its network on
    SweepBound,   \* the longest a sweep may take from its list on
    MaxClock,     \* bound: the clock stops here
    Faults,       \* what may go wrong: see AllFaults
    Ageless,      \* the kinds of resource whose {{.Created}} is no RFC 3339 time
    NoId

Kinds == {"container", "network"}

AllFaults == {"setup",     \* a call of a creation fails
              "teardown",  \* a removal fails and leaves what it should remove
              "cancel",    \* the context of a creation is cancelled
              "crash",     \* a creator or destroyer dies between two calls
              "inspect",   \* the inspection for an age fails
              "sweep"}     \* a sweep stops half way

ASSUME BoundsAssumption == /\ Grace \in Nat /\ CreateBound \in Nat
                           /\ SweepBound \in Nat /\ MaxClock \in Nat
ASSUME NoIdAssumption == NoId \notin Ids
ASSUME FaultsAssumption == Faults \subseteq AllFaults
ASSUME AgelessAssumption == Ageless \subseteq Kinds

VARIABLES
    clock,    \* the engine's time
    net,      \* net[i]: is there a network peapod-net-i
    netAt,    \* netAt[i]: when it was created
    sc,       \* sc[i]: how far the sidecar peapod-fw-i has come
    scAt,     \* scAt[i]: when it was created
    leaky,    \* history: the sandboxes a removal has failed for
    box,      \* box[i]: the sandbox's container
    step,     \* step[i]: the call the creator of i makes next, or its end
    dpc,      \* dpc[d]: the call destroyer d makes next
    dtgt,     \* dtgt[d]: the sandbox it destroys
    spc,      \* spc[w]: the call sweeper w makes next
    listAt,   \* listAt[w]: when it listed the sandboxes
    live,     \* live[w]: the sandboxes it found
    doomed,   \* doomed[w]: the orphans it has picked and not removed yet
    untold    \* history: untold[w], the resources it could not learn the age of

fwVars    == <<net, netAt, sc, scAt, leaky>>
sweepVars == <<spc, listAt, live, doomed, untold>>
destVars  == <<dpc, dtgt>>
vars == <<clock, fwVars, box, step, destVars, sweepVars>>

(* "run": started on the bridge; "attached": to the internal network too;  *)
(* "copied", "ready": the proxy binary is in it, and executable.           *)
ScStates == {"none", "run", "attached", "copied", "ready", "proxy"}
(* "dead": docker run made the container and could not start it.           *)
BoxStates == {"none", "up", "dead", "gone"}
Setup == {"sidecar", "attach", "copy", "chmod", "proxy", "box"}
Undo  == {"undoSc", "undoNet"}
Steps == {"net", "done", "failed", "cancelled", "crashed"} \cup Setup \cup Undo
DestroyPcs == {"idle", "rm", "rmSc", "rmNet", "dead"}
SweepPcs   == {"idle", "pickSc", "rmSc", "pickNet", "rmNet"}

TypeOK ==
    /\ clock \in 0..MaxClock
    /\ net \in [Ids -> BOOLEAN]
    /\ netAt \in [Ids -> 0..MaxClock]
    /\ sc \in [Ids -> ScStates]
    /\ scAt \in [Ids -> 0..MaxClock]
    /\ leaky \in SUBSET Ids
    /\ box \in [Ids -> BoxStates]
    /\ step \in [Ids -> Steps]
    /\ dpc \in [Destroyers -> DestroyPcs]
    /\ dtgt \in [Destroyers -> Ids \cup {NoId}]
    /\ spc \in [Sweepers -> SweepPcs]
    /\ listAt \in [Sweepers -> 0..MaxClock]
    /\ live \in [Sweepers -> SUBSET Ids]
    /\ doomed \in [Sweepers -> SUBSET Ids]
    /\ untold \in [Sweepers -> SUBSET (Kinds \X Ids)]
    /\ \A d \in Destroyers : dpc[d] # "idle" => dtgt[d] \in Ids

Init ==
    /\ clock = 0
    /\ net = [i \in Ids |-> FALSE]
    /\ netAt = [i \in Ids |-> 0]
    /\ sc = [i \in Ids |-> "none"]
    /\ scAt = [i \in Ids |-> 0]
    /\ leaky = {}
    /\ box = [i \in Ids |-> "none"]
    /\ step = [i \in Ids |-> "net"]
    /\ dpc = [d \in Destroyers |-> "idle"]
    /\ dtgt = [d \in Destroyers |-> NoId]
    /\ spc = [w \in Sweepers |-> "idle"]
    /\ listAt = [w \in Sweepers |-> 0]
    /\ live = [w \in Sweepers |-> {}]
    /\ doomed = [w \in Sweepers |-> {}]
    /\ untold = [w \in Sweepers |-> {}]

---------------------------------------------------------------------------
(* What the engine does.                                                   *)

Attached == {"attached", "copied", "ready", "proxy"}

(* ps -a lists a container whether or not it runs.                         *)
Listed(i) == box[i] \in {"up", "dead"}

(* network rm refuses a network with a running container on it.            *)
NetFree(i) == sc[i] \notin Attached /\ box[i] # "up"

Leaks(i) == "teardown" \in Faults /\ leaky' = leaky \cup {i}

RemoveSidecar(i) ==
    \/ sc' = [sc EXCEPT ![i] = "none"] /\ UNCHANGED leaky
    \/ Leaks(i) /\ UNCHANGED sc

RemoveNet(i) ==
    \/ NetFree(i) /\ net' = [net EXCEPT ![i] = FALSE] /\ UNCHANGED leaky
    \/ ~NetFree(i) /\ UNCHANGED <<net, leaky>>
    \/ Leaks(i) /\ UNCHANGED net

---------------------------------------------------------------------------
(* Create.                                                                 *)

Now(i, s) == step' = [step EXCEPT ![i] = s]

(* Bound: a creation starts early enough for its leftovers to reach the    *)
(* sweep's age before the clock stops.                                     *)
LastStart == MaxClock - CreateBound - Grace

MakeNet(i) ==
    /\ step[i] = "net" /\ clock <= LastStart
    /\ net' = [net EXCEPT ![i] = TRUE]
    /\ netAt' = [netAt EXCEPT ![i] = clock]
    /\ Now(i, "sidecar")
    /\ UNCHANGED <<clock, sc, scAt, leaky, box, destVars, sweepVars>>

RunSidecar(i) ==
    /\ step[i] = "sidecar"
    /\ sc' = [sc EXCEPT ![i] = "run"]
    /\ scAt' = [scAt EXCEPT ![i] = clock]
    /\ Now(i, "attach")
    /\ UNCHANGED <<clock, net, netAt, leaky, box, destVars, sweepVars>>

(* A call on the sidecar takes it one stage further.                       *)
Advance(i, at, from, to, next) ==
    /\ step[i] = at /\ sc[i] = from
    /\ sc' = [sc EXCEPT ![i] = to]
    /\ Now(i, next)
    /\ UNCHANGED <<clock, net, netAt, scAt, leaky, box, destVars, sweepVars>>

AttachSidecar(i) == net[i] /\ Advance(i, "attach", "run", "attached", "copy")
CopyProxy(i)     == Advance(i, "copy", "attached", "copied", "chmod")
MarkProxy(i)     == Advance(i, "chmod", "copied", "ready", "proxy")
StartProxy(i)    == Advance(i, "proxy", "ready", "proxy", "box")

(* docker run looks for the network, not for the sidecar.                  *)
RunBox(i) ==
    /\ step[i] = "box" /\ net[i]
    /\ box' = [box EXCEPT ![i] = "up"]
    /\ Now(i, "done")
    /\ UNCHANGED <<clock, fwVars, destVars, sweepVars>>

(* The network or the sidecar a call needs is gone.                        *)
Missing(i) ==
    \/ step[i] \in {"attach", "box"} /\ ~net[i]
    \/ step[i] \in {"attach", "copy", "chmod", "proxy"} /\ sc[i] = "none"

(* Mutant: a failed creation removes the network only.                     *)
NetFirst == "undoNet"

(* teardownFirewall removes the sidecar, then the network it was on.       *)
FirstUndo == "undoSc"

(* A call fails.  docker run may leave a container it could not start.     *)
SetupFails(i) ==
    /\ step[i] \in {"net"} \cup Setup /\ ("setup" \in Faults \/ Missing(i))
    /\ Now(i, FirstUndo)
    /\ \/ UNCHANGED <<sc, scAt, box>>
       \/ /\ step[i] = "sidecar"
          /\ sc' = [sc EXCEPT ![i] = "run"] /\ scAt' = [scAt EXCEPT ![i] = clock]
          /\ UNCHANGED box
       \/ /\ step[i] = "box" /\ net[i]
          /\ box' = [box EXCEPT ![i] = "dead"]
          /\ UNCHANGED <<sc, scAt>>
    /\ UNCHANGED <<clock, net, netAt, leaky, destVars, sweepVars>>

UndoSidecar(i) ==
    /\ step[i] = "undoSc"
    /\ RemoveSidecar(i)
    /\ Now(i, "undoNet")
    /\ UNCHANGED <<clock, net, netAt, scAt, box, destVars, sweepVars>>

UndoNet(i) ==
    /\ step[i] = "undoNet"
    /\ RemoveNet(i)
    /\ Now(i, "failed")
    /\ UNCHANGED <<clock, netAt, sc, scAt, box, destVars, sweepVars>>

(* The creator dies or its context is cancelled.  With a dead context no   *)
(* runtime call is launched any more, those of the teardown neither; a     *)
(* docker run cut short may have got as far as it likes.                   *)
Interrupted(i, fault, s) ==
    /\ fault \in Faults /\ step[i] \in Setup \cup Undo
    /\ Now(i, s)
    /\ \/ UNCHANGED box
       \/ /\ step[i] = "box" /\ net[i]
          /\ \E b \in {"up", "dead"} : box' = [box EXCEPT ![i] = b]
    /\ UNCHANGED <<clock, fwVars, destVars, sweepVars>>

CreatorDies(i) == Interrupted(i, "crash", "crashed")
CreateCancelled(i) == Interrupted(i, "cancel", "cancelled")

---------------------------------------------------------------------------
(* Destroy: the container first, then its firewall, whatever that says.    *)

Resolve(d, i) ==
    /\ dpc[d] = "idle" /\ Listed(i)
    /\ dpc' = [dpc EXCEPT ![d] = "rm"]
    /\ dtgt' = [dtgt EXCEPT ![d] = i]
    /\ UNCHANGED <<clock, fwVars, box, step, sweepVars>>

DestroyRm(d) ==
    /\ dpc[d] = "rm"
    /\ box' = [box EXCEPT ![dtgt[d]] = "gone"]
    /\ dpc' = [dpc EXCEPT ![d] = "rmSc"]
    /\ UNCHANGED <<clock, fwVars, step, dtgt, sweepVars>>

(* Mutant: the target is forgotten and the call is not over.               *)
IdleHalf(d) == /\ UNCHANGED dpc
               /\ dtgt' = [dtgt EXCEPT ![d] = NoId]

Idle(d) == /\ dpc' = [dpc EXCEPT ![d] = "idle"]
           /\ dtgt' = [dtgt EXCEPT ![d] = NoId]

(* rm -f fails: another Destroy was faster, or the engine refuses.         *)
DestroyFails(d) ==
    /\ dpc[d] = "rm" /\ (box[dtgt[d]] = "gone" \/ "teardown" \in Faults)
    /\ Idle(d)
    /\ UNCHANGED <<clock, fwVars, box, step, sweepVars>>

DestroySidecar(d) ==
    /\ dpc[d] = "rmSc"
    /\ RemoveSidecar(dtgt[d])
    /\ dpc' = [dpc EXCEPT ![d] = "rmNet"]
    /\ UNCHANGED <<clock, net, netAt, scAt, box, step, dtgt, sweepVars>>

DestroyNet(d) ==
    /\ dpc[d] = "rmNet"
    /\ RemoveNet(dtgt[d])
    /\ Idle(d)
    /\ UNCHANGED <<clock, netAt, sc, scAt, box, step, sweepVars>>

DestroyerDies(d) ==
    /\ "crash" \in Faults /\ dpc[d] \notin {"idle", "dead"}
    /\ dpc' = [dpc EXCEPT ![d] = "dead"]
    /\ UNCHANGED <<clock, fwVars, box, step, dtgt, sweepVars>>

---------------------------------------------------------------------------
(* SweepOrphans: list the sandboxes, pick the old sidecars without one and *)
(* remove each, then the same for the networks.  The picks are taken       *)
(* together, at the last inspection: those inspected before were younger.  *)

SweepBegin(w) ==
    /\ spc[w] = "idle"
    /\ live' = [live EXCEPT ![w] = {i \in Ids : Listed(i)}]
    /\ listAt' = [listAt EXCEPT ![w] = clock]
    /\ spc' = [spc EXCEPT ![w] = "pickSc"]
    /\ UNCHANGED <<clock, fwVars, box, step, destVars, doomed, untold>>

(* Mutants: the age is not looked at; what is exactly as old as the grace  *)
(* is left.                                                                *)
AnyAge(t)   == TRUE
OlderYet(t) == clock - t > Grace

OldEnough(t) == clock - t >= Grace

(* Mutant: the list of live sandboxes is ignored.                          *)
NotAsked(w, i) == TRUE

Unlisted(w, i) == i \notin live[w]

(* Of the resources a sweep asks the age of, those it learns nothing of:   *)
(* an inspection may fail, and a time may not be one the code parses.      *)
Silent(kind, asked) ==
    {mute \in SUBSET asked : /\ kind \in Ageless => mute = asked
                             /\ mute # {} => kind \in Ageless \/ "inspect" \in Faults}

(* What tells nothing of its age counts as young.                          *)
Pick(w, at, next, kind, found, bornAt) ==
    /\ spc[w] = at
    /\ LET asked == {i \in found : Unlisted(w, i)}
       IN  \E mute \in Silent(kind, asked) :
              /\ doomed' = [doomed EXCEPT ![w] = {i \in asked \ mute : OldEnough(bornAt[i])}]
              /\ untold' = [untold EXCEPT ![w] = @ \cup ({kind} \X mute)]
    /\ spc' = [spc EXCEPT ![w] = next]
    /\ UNCHANGED <<clock, fwVars, box, step, destVars, listAt, live>>

Sidecars == {i \in Ids : sc[i] # "none"}

(* Mutant: where there is no sidecar, the networks are not looked at.      *)
PickAndReturn(w) ==
    Pick(w, "pickSc", IF Sidecars = {} THEN "rmNet" ELSE "rmSc", "container", Sidecars, scAt)

PickSidecars(w) == Pick(w, "pickSc", "rmSc", "container", Sidecars, scAt)

PickNets(w) == Pick(w, "pickNet", "rmNet", "network", {i \in Ids : net[i]}, netAt)

Swept(w, i) == doomed' = [doomed EXCEPT ![w] = @ \ {i}]

SweepSidecar(w, i) ==
    /\ spc[w] = "rmSc" /\ i \in doomed[w]
    /\ RemoveSidecar(i)
    /\ Swept(w, i)
    /\ UNCHANGED <<clock, net, netAt, scAt, box, step, destVars, spc, listAt, live, untold>>

SweepNet(w, i) ==
    /\ spc[w] = "rmNet" /\ i \in doomed[w]
    /\ RemoveNet(i)
    /\ Swept(w, i)
    /\ UNCHANGED <<clock, netAt, sc, scAt, box, step, destVars, spc, listAt, live, untold>>

SidecarsDone(w) ==
    /\ spc[w] = "rmSc" /\ doomed[w] = {}
    /\ spc' = [spc EXCEPT ![w] = "pickNet"]
    /\ UNCHANGED <<clock, fwVars, box, step, destVars, listAt, live, doomed, untold>>

Rest(w) == /\ spc' = [spc EXCEPT ![w] = "idle"]
           /\ listAt' = [listAt EXCEPT ![w] = 0]
           /\ live' = [live EXCEPT ![w] = {}]
           /\ doomed' = [doomed EXCEPT ![w] = {}]
           /\ untold' = [untold EXCEPT ![w] = {}]
           /\ UNCHANGED <<clock, fwVars, box, step, destVars>>

SweepEnd(w) == spc[w] = "rmNet" /\ doomed[w] = {} /\ Rest(w)

(* A listing fails, and Sweep returns its error; or the process dies.      *)
SweepStops(w) == "sweep" \in Faults /\ spc[w] # "idle" /\ Rest(w)

---------------------------------------------------------------------------
(* Time.  CreateBound and SweepBound say how slow the engine may be: the   *)
(* code sets no limit of its own on either.                                *)

Tick ==
    /\ clock < MaxClock
    /\ \A i \in Ids : step[i] \in Setup => clock - netAt[i] < CreateBound
    /\ \A w \in Sweepers : spc[w] # "idle" => clock - listAt[w] < SweepBound
    /\ clock' = clock + 1
    /\ UNCHANGED <<fwVars, box, step, destVars, sweepVars>>

CreateStep(i) == \/ RunSidecar(i) \/ AttachSidecar(i) \/ CopyProxy(i)
                 \/ MarkProxy(i) \/ StartProxy(i) \/ RunBox(i)
                 \/ SetupFails(i) \/ UndoSidecar(i) \/ UndoNet(i)

DestroyStep(d) == \/ DestroyRm(d) \/ DestroyFails(d)
                  \/ DestroySidecar(d) \/ DestroyNet(d)

SweepStep(w) == \/ SweepBegin(w) \/ PickSidecars(w) \/ SidecarsDone(w)
                \/ PickNets(w) \/ SweepEnd(w) \/ SweepStops(w)
                \/ \E i \in Ids : SweepSidecar(w, i) \/ SweepNet(w, i)

Next == \/ \E i \in Ids : \/ MakeNet(i) \/ CreateStep(i)
                          \/ CreatorDies(i) \/ CreateCancelled(i)
        \/ \E d \in Destroyers : \/ DestroyStep(d) \/ DestroyerDies(d)
                                 \/ \E i \in Ids : Resolve(d, i)
        \/ \E w \in Sweepers : SweepStep(w)
        \/ Tick

Spec == Init /\ [][Next]_vars

(* Creations in flight go on, time passes, and the reap loop's ticker      *)
(* begins a sweep again and again: one that is often tried does not stop,  *)
(* does not fail to remove the same thing, and does not fail to inspect    *)
(* it, every time.  Nobody has to start a creation, or to finish a Destroy.*)
SweepsGoOn(w) ==
    /\ WF_vars(SweepStep(w))
    /\ SF_vars(SidecarsDone(w))
    /\ \A i \in Ids : /\ SF_vars(PickSidecars(w) /\ <<"container", i>> \notin untold'[w])
                      /\ SF_vars(PickNets(w) /\ <<"network", i>> \notin untold'[w])
                      /\ SF_vars(SweepSidecar(w, i) /\ sc'[i] = "none")
                      /\ SF_vars(SweepNet(w, i) /\ ~net'[i])

LiveSpec ==
    /\ Spec
    /\ \A i \in Ids : WF_vars(CreateStep(i))
    /\ \A w \in Sweepers : SweepsGoOn(w)
    /\ WF_vars(Tick)

---------------------------------------------------------------------------
(* Properties.                                                             *)

(* A sandbox that is up has its network, and its proxy was started: no     *)
(* Destroy, failed creation or sweep has taken the firewall from under it. *)
LiveFirewall == \A i \in Ids : box[i] = "up" => net[i] /\ sc[i] = "proxy"

(* "sweepGrace keeps Sweep from tearing down the firewall of a sandbox     *)
(* that is still being created": each call of a creation finds the network *)
(* and the sidecar as the call before it left them.                        *)
SetupIntact ==
    \A i \in Ids :
        /\ step[i] \in Setup => net[i]
        /\ step[i] = "sidecar" => sc[i] = "none"
        /\ step[i] = "attach"  => sc[i] = "run"
        /\ step[i] = "copy"    => sc[i] = "attached"
        /\ step[i] = "chmod"   => sc[i] = "copied"
        /\ step[i] = "proxy"   => sc[i] = "ready"
        /\ step[i] = "box"     => sc[i] = "proxy"

(* A Destroy of sandbox i has begun and is not over; a dead one never is.  *)
Begun(i) == \E d \in Destroyers : dtgt[d] = i

(* "Tudo e criado e destruido junto com o sandbox": once Create has failed *)
(* by itself (not by its context's end) or Destroy has returned, neither   *)
(* sidecar nor network is left, whoever else was removing them, unless the *)
(* engine failed to remove one.                                            *)
TornDownTogether ==
    \A i \in Ids \ leaky :
        step[i] \in {"done", "failed"} /\ ~Listed(i) /\ ~Begun(i)
        => ~net[i] /\ sc[i] = "none"

(* Nobody alive is creating or destroying sandbox i, and it does not exist. *)
Abandoned(i) ==
    /\ step[i] \notin {"net"} \cup Setup \cup Undo
    /\ ~Listed(i) /\ \A d \in Destroyers : dtgt[d] = i => dpc[d] = "dead"

Orphan(kind, i) == Abandoned(i) /\ IF kind = "container" THEN sc[i] # "none" ELSE net[i]

SweptInTheEnd(kind) == \A i \in Ids : Orphan(kind, i) ~> ~Orphan(kind, i)

(* Every leftover of a crash, of a cancelled creation or of a failed       *)
(* removal goes, though sweeps stop half way, inspections and removals     *)
(* fail: if youngerThan understands the times the engine gives.            *)
OrphansSwept == \A kind \in Kinds \ Ageless : SweptInTheEnd(kind)

(* Sweep "removes firewall sidecars and networks whose sandbox no longer   *)
(* exists", as its comment says, whatever the engine's times look like.    *)
EveryOrphanSwept == \A kind \in Kinds : SweptInTheEnd(kind)

(* Sweep w did not find sandbox i, and all of the firewall i ever had was  *)
(* past the grace by then.                                                 *)
Outlived(w, i) == /\ Unlisted(w, i)
                  /\ netAt[i] + Grace <= listAt[w] /\ scAt[i] + Grace <= listAt[w]

Untold(w, kind, i) == <<kind, i>> \in untold[w]

(* A sweep that gets to its end leaves nothing of such a firewall, unless  *)
(* the engine failed to remove it or to tell its age; a sidecar that stays *)
(* for its age takes its network along.  What the grace makes the sweep    *)
(* pass over is always younger.                                            *)
SweepIsThorough ==
    \A w \in Sweepers : spc[w] = "rmNet" /\ doomed[w] = {} =>
        \A i \in Ids \ leaky : Outlived(w, i) =>
            /\ sc[i] = "none" \/ Untold(w, "container", i)
            /\ ~net[i] \/ \E kind \in Kinds : Untold(w, kind, i)

---------------------------------------------------------------------------
(* The inductive invariant behind the theorems of FirewallProofs.          *)

(* Creations, sweeps and time: a box a sweep has not listed came up after  *)
(* the list, so its network is not much older than that.                   *)
Timely ==
    /\ \A i \in Ids : netAt[i] <= clock
    /\ \A i \in Ids : sc[i] # "none" => netAt[i] <= scAt[i]
    /\ \A i \in Ids : step[i] \in Setup => clock - netAt[i] <= CreateBound
    /\ \A w \in Sweepers : spc[w] # "idle" =>
          /\ listAt[w] <= clock /\ clock - listAt[w] <= SweepBound
          /\ \A i \in Ids : box[i] = "up" /\ Unlisted(w, i)
                            => listAt[w] <= netAt[i] + CreateBound

(* Removals are for sandboxes that are not there and will not be.          *)
Unneeded(i) == step[i] \notin {"net"} \cup Setup /\ box[i] # "up"

Ordered ==
    /\ \A i \in Ids : step[i] \in {"net"} \cup Setup => box[i] = "none"
    /\ \A i \in Ids : step[i] = "net" => ~net[i] /\ sc[i] = "none"
    /\ \A i \in Ids : step[i] \in Undo => Unneeded(i)
    /\ \A d \in Destroyers : dpc[d] # "idle" => step[dtgt[d]] \notin {"net"} \cup Setup
    /\ \A d \in Destroyers : dpc[d] \in {"rmSc", "rmNet"} => box[dtgt[d]] = "gone"
    /\ \A w \in Sweepers : \A i \in doomed[w] : Unneeded(i)

FwInv == LiveFirewall /\ SetupIntact /\ Timely /\ Ordered

(* What a sweep still has to remove is in its hands: sidecars first, so    *)
(* that no network it comes to has one on it.                              *)
InHand ==
    \A w \in Sweepers : \A i \in Ids \ leaky : Outlived(w, i) =>
        /\ spc[w] = "rmSc" /\ sc[i] # "none" => i \in doomed[w] \/ Untold(w, "container", i)
        /\ spc[w] \in {"pickNet", "rmNet"} => sc[i] = "none" \/ Untold(w, "container", i)
        /\ spc[w] = "rmNet" /\ net[i] =>
              i \in doomed[w] \/ \E kind \in Kinds : Untold(w, kind, i)
============================================================================
