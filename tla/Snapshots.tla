----------------------------- MODULE Snapshots -----------------------------
(***************************************************************************)
(* Snapshots of the OCI driver (internal/driver/oci/oci.go) and what the   *)
(* Manager does with them (internal/sandbox/manager.go): commit to a tag,  *)
(* list, remove, prune by age, fork.  A snapshot is an image, its ref the   *)
(* tag peapod-snapshot:<name>: saving under a name in use moves the tag    *)
(* and leaves the image before it without one.  Callers are processes of   *)
(* their own (CLI, MCP servers) and share only the engine.                 *)
(*                                                                         *)
(* A step is one runtime call.  A call that fails changes nothing, and a   *)
(* caller with only that call has no state: only its success is a step.    *)
(***************************************************************************)
EXTENDS Integers

CONSTANTS
    Names,     \* snapshot names: the tags of the repository peapod-snapshot
    Images,    \* image identities, drawn once each
    Pruners,   \* processes that call PruneSnapshots
    MaxAge,    \* --max-age, in ticks
    Second,    \* ticks of the clock in a second
    MaxSkew,   \* how far the engine's clock may be from the caller's
    MaxClock,  \* bound: the clock stops here
    NoImage

ASSUME TimeAssumption == /\ MaxAge \in Nat /\ MaxSkew \in Nat /\ MaxClock \in Nat
                         /\ Second \in Nat \ {0}
ASSUME NoImageAssumption == NoImage \notin Images

VARIABLES
    clock,    \* the callers' clock
    tag,      \* tag[n]: the image peapod-snapshot:n names
    at,       \* at[m]: the callers' time when image m was committed
    stamp,    \* stamp[m]: its CreatedUnix, in ticks; 0: not understood
    used,     \* the images some container was made from
    ppc,      \* ppc[p]: where pruner p is
    began,    \* history, began[p]: when p listed the snapshots
    listed,   \* listed[p]: what each name stood for when p listed them
    cutoff,   \* cutoff[p]: p's cutoff, in ticks of a whole second
    todo,     \* todo[p]: the names p has listed and not looked at yet
    removed   \* removed[p]: the names p will report as removed

store     == <<tag, at, stamp, used>>
pruneVars == <<ppc, began, listed, cutoff, todo, removed>>
vars == <<clock, store, pruneVars>>

(* Times start late enough for every cutoff and stamp to be positive.      *)
Start == MaxAge + MaxSkew + Second
Times == 0..(Start + MaxClock + MaxSkew)

TypeOK ==
    /\ clock \in Start..(Start + MaxClock)
    /\ tag \in [Names -> Images \cup {NoImage}]
    /\ at \in [Images -> Times]
    /\ stamp \in [Images -> Times]
    /\ used \in SUBSET Images
    /\ ppc \in [Pruners -> {"idle", "listed", "removing"}]
    /\ began \in [Pruners -> Times]
    /\ listed \in [Pruners -> [Names -> Images \cup {NoImage}]]
    /\ cutoff \in [Pruners -> Times]
    /\ todo \in [Pruners -> SUBSET Names]
    /\ removed \in [Pruners -> SUBSET Names]
    /\ \A p \in Pruners : ppc[p] = "idle" => todo[p] \cup removed[p] = {}
    /\ \A p \in Pruners : \A n \in todo[p] \cup removed[p] : listed[p][n] \in Images

Init ==
    /\ clock = Start
    /\ tag = [n \in Names |-> NoImage]
    /\ at = [m \in Images |-> 0]
    /\ stamp = [m \in Images |-> 0]
    /\ used = {}
    /\ ppc = [p \in Pruners |-> "idle"]
    /\ began = [p \in Pruners |-> 0]
    /\ listed = [p \in Pruners |-> [n \in Names |-> NoImage]]
    /\ cutoff = [p \in Pruners |-> 0]
    /\ todo = [p \in Pruners |-> {}]
    /\ removed = [p \in Pruners |-> {}]

---------------------------------------------------------------------------
(* Snapshot, Fork, RemoveSnapshot.                                         *)

(* time.Time.Unix, and the seconds docker prints.                          *)
Unix(t) == Second * (t \div Second)

Skewed == {t \in Times : t >= Second /\ clock - MaxSkew <= t /\ t <= clock + MaxSkew}

(* CreatedAt in a form that does not parse leaves CreatedUnix 0.           *)
Stamps == {0} \cup {Unix(t) : t \in Skewed}

(* commit                                                                  *)
Snapshot(n, m) ==
    /\ at[m] = 0
    /\ tag' = [tag EXCEPT ![n] = m]
    /\ at' = [at EXCEPT ![m] = clock]
    /\ \E t \in Stamps : stamp' = [stamp EXCEPT ![m] = t]
    /\ UNCHANGED <<clock, used, pruneVars>>

Fork(n) ==
    /\ tag[n] # NoImage
    /\ used' = used \cup {tag[n]}
    /\ UNCHANGED <<clock, tag, at, stamp, pruneVars>>

(* The sandboxes forked from image m are destroyed.                        *)
DestroyForks(m) ==
    /\ m \in used
    /\ used' = used \ {m}
    /\ UNCHANGED <<clock, tag, at, stamp, pruneVars>>

(* rmi refuses a name nothing has, and an image a container was made from. *)
Removable(n) == tag[n] # NoImage /\ tag[n] \notin used

Rmi(n) == tag' = [tag EXCEPT ![n] = NoImage]

RemoveSnapshot(n) ==
    /\ Removable(n)
    /\ Rmi(n)
    /\ UNCHANGED <<clock, at, stamp, used, pruneVars>>

---------------------------------------------------------------------------
(* PruneSnapshots: list, cutoff, and one rmi for each name judged too old  *)
(* by what the list said of it.                                            *)

Goto(p, s) == ppc' = [ppc EXCEPT ![p] = s]

(* Mutant: the rows without a tag are listed too.                          *)
AllRows == Names

(* ListSnapshots finds the names that are taken.                           *)
Rows == {n \in Names : tag[n] # NoImage}

PruneList(p) ==
    /\ ppc[p] = "idle"
    /\ began' = [began EXCEPT ![p] = clock]
    /\ listed' = [listed EXCEPT ![p] = tag]
    /\ todo' = [todo EXCEPT ![p] = Rows]
    /\ Goto(p, "listed")
    /\ UNCHANGED <<clock, store, cutoff, removed>>

PruneCutoff(p) ==
    /\ ppc[p] = "listed"
    /\ cutoff' = [cutoff EXCEPT ![p] = Unix(clock - MaxAge)]
    /\ Goto(p, "removing")
    /\ UNCHANGED <<clock, store, began, listed, todo, removed>>

(* Mutant: the snapshot whose age was not understood goes.                 *)
OldOrUnknown(p, n) == stamp[listed[p][n]] < cutoff[p]

TooOld(p, n) == stamp[listed[p][n]] # 0 /\ stamp[listed[p][n]] < cutoff[p]

(* Mutant: the error of the removal is not looked at.                      *)
ReportAll(p, n) == removed' = [removed EXCEPT ![p] = @ \cup {n}]

Report(p, n) == removed' = IF Removable(n) THEN [removed EXCEPT ![p] = @ \cup {n}]
                           ELSE removed

Judge(p, n) ==
    /\ ppc[p] = "removing" /\ n \in todo[p]
    /\ todo' = [todo EXCEPT ![p] = @ \ {n}]
    /\ UNCHANGED <<clock, at, stamp, used, ppc, began, listed, cutoff>>

Keep(p, n) == Judge(p, n) /\ ~TooOld(p, n) /\ UNCHANGED <<tag, removed>>

(* Mutant: the first removal that fails ends the loop.                     *)
GiveUp(p, n) ==
    /\ ppc[p] = "removing" /\ n \in todo[p] /\ TooOld(p, n)
    /\ UNCHANGED <<clock, at, stamp, used, ppc, began, listed, cutoff>>
    /\ IF Removable(n) THEN Rmi(n) /\ todo' = [todo EXCEPT ![p] = @ \ {n}]
       ELSE UNCHANGED tag /\ todo' = [todo EXCEPT ![p] = {}]
    /\ Report(p, n)

PruneOne(p, n) ==
    /\ Judge(p, n) /\ TooOld(p, n)
    /\ IF Removable(n) THEN Rmi(n) ELSE UNCHANGED tag
    /\ Report(p, n)

(* The engine, or the way to it, fails: the loop goes on.                  *)
RmiFails(p, n) == Judge(p, n) /\ TooOld(p, n) /\ UNCHANGED <<tag, removed>>

PruneEnd(p) ==
    /\ ppc[p] = "removing" /\ todo[p] = {}
    /\ Goto(p, "idle")
    /\ began' = [began EXCEPT ![p] = 0]
    /\ listed' = [listed EXCEPT ![p] = [n \in Names |-> NoImage]]
    /\ cutoff' = [cutoff EXCEPT ![p] = 0]
    /\ removed' = [removed EXCEPT ![p] = {}]
    /\ UNCHANGED <<clock, store, todo>>

---------------------------------------------------------------------------
Tick == /\ clock < Start + MaxClock
        /\ clock' = clock + 1
        /\ UNCHANGED <<store, pruneVars>>

Next ==
    \/ \E n \in Names : \/ \E m \in Images : Snapshot(n, m)
                        \/ Fork(n) \/ RemoveSnapshot(n)
    \/ \E m \in Images : DestroyForks(m)
    \/ \E p \in Pruners : \/ PruneList(p) \/ PruneCutoff(p) \/ PruneEnd(p)
                          \/ \E n \in Names : Keep(p, n) \/ PruneOne(p, n) \/ RmiFails(p, n)
    \/ Tick

Spec == Init /\ [][Next]_vars

---------------------------------------------------------------------------
(* Properties.                                                             *)

Removes(p, n) == n \in removed'[p] \ removed[p]
PassesOver(p, n) == n \in todo[p] \ todo'[p] /\ n \notin removed'[p]

(* "PruneSnapshots removes snapshots older than maxAge": however slow it   *)
(* is and whoever saves and removes beside it, it removes none that is     *)
(* not, but for what the two clocks differ by, and but for one that was    *)
(* saved under a listed name after the list.                               *)
PruneSparesYoung ==
    [][\A p \in Pruners, n \in Names :
          Removes(p, n) => \/ clock - at[tag[n]] > MaxAge - MaxSkew
                           \/ tag[n] # listed[p][n]]_vars

(* And it passes over none that was a second older than that, unless its   *)
(* age is not understood or the engine did not remove it.                  *)
PruneIsThorough ==
    [][\A p \in Pruners, n \in Names :
          PassesOver(p, n) =>
             \/ began[p] - at[listed[p][n]] < MaxAge + MaxSkew + Second
             \/ stamp[listed[p][n]] = 0
             \/ ~Removable(n) \/ RmiFails(p, n)]_vars

(* What PruneSnapshots reports removed is: the snapshot it judged is not   *)
(* under its name any more, and never comes back.                          *)
ReportIsTrue ==
    \A p \in Pruners : \A n \in removed[p] : tag[n] # listed[p][n]

---------------------------------------------------------------------------
(* The inductive invariant behind the theorems of SnapshotsProofs.         *)

(* An image without a time of its own has not been made.                   *)
Made(m) == at[m] # 0

(* A stamp that was understood is the second the image was made in, as     *)
(* closely as the clocks agree.                                            *)
Stamped ==
    \A m \in Images :
        stamp[m] # 0 => \E t \in Times : /\ stamp[m] = Unix(t)
                                        /\ at[m] - MaxSkew <= t /\ t <= at[m] + MaxSkew

(* A pruner's list is of images that were made, and those it removed have  *)
(* left their names; its cutoff is of a moment since.                      *)
Judging ==
    \A p \in Pruners :
        /\ began[p] <= clock
        /\ \A n \in todo[p] \cup removed[p] : Made(listed[p][n])
        /\ ppc[p] = "removing" =>
              \E t \in Times : /\ cutoff[p] = Unix(t)
                               /\ began[p] - MaxAge <= t /\ t <= clock - MaxAge

StoreInv ==
    /\ \A n \in Names : tag[n] # NoImage => Made(tag[n])
    /\ Stamped /\ Judging /\ ReportIsTrue
============================================================================
