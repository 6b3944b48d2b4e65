--------------------------- MODULE FirewallProofs ---------------------------
(***************************************************************************)
(* Theorems about Firewall, for any number of sandboxes, destroyers and    *)
(* sweepers, any bounds and any faults.                                    *)
(***************************************************************************)
EXTENDS Firewall, TLAPS

USE BoundsAssumption, NoIdAssumption
USE DEF vars, fwVars, sweepVars, destVars, Now, Idle, Leaks

---------------------------------------------------------------------------
(* What a pick leaves of the types, for either kind.                       *)
LEMMA PickTypes ==
  ASSUME TypeOK, NEW w \in Sweepers, NEW at, NEW next \in SweepPcs, NEW kind \in Kinds,
         NEW found \in SUBSET Ids, NEW bornAt, Pick(w, at, next, kind, found, bornAt)
  PROVE  TypeOK'
<1> DEFINE asked == {i \in found : Unlisted(w, i)}
<1>1. PICK mute \in SUBSET asked :
         /\ doomed' = [doomed EXCEPT ![w] = {i \in asked \ mute : OldEnough(bornAt[i])}]
         /\ untold' = [untold EXCEPT ![w] = @ \cup ({kind} \X mute)]
  BY DEF Pick, Silent
<1>2. asked \subseteq Ids /\ mute \subseteq Ids
  OBVIOUS
<1> HIDE DEF asked
<1>3. {i \in asked \ mute : OldEnough(bornAt[i])} \in SUBSET Ids
  BY <1>2
<1>4. untold[w] \cup ({kind} \X mute) \in SUBSET (Kinds \X Ids)
  BY <1>2 DEF TypeOK
<1>5. doomed' \in [Sweepers -> SUBSET Ids] /\ untold' \in [Sweepers -> SUBSET (Kinds \X Ids)]
  BY <1>1, <1>3, <1>4 DEF TypeOK
<1>6. QED
  BY <1>5 DEF Pick, TypeOK

(* Every variable keeps its type, and a destroyer at work knows what it    *)
(* destroys.                                                               *)
THEOREM FirewallTypes == Spec => []TypeOK
<1> USE DEF ScStates, BoxStates, Setup, Undo, Steps, DestroyPcs, SweepPcs
<1>1. Init => TypeOK
  BY DEF Init, TypeOK
<1>2. TypeOK /\ [Next]_vars => TypeOK'
  <2> SUFFICES ASSUME TypeOK, [Next]_vars PROVE TypeOK'
    OBVIOUS
  <2>1. ASSUME NEW i \in Ids, CreateStep(i) PROVE TypeOK'
    <3>1. CASE RunSidecar(i)
      BY <3>1 DEF RunSidecar, TypeOK
    <3>2. CASE AttachSidecar(i)
      BY <3>2 DEF AttachSidecar, Advance, TypeOK
    <3>3. CASE CopyProxy(i)
      BY <3>3 DEF CopyProxy, Advance, TypeOK
    <3>4. CASE MarkProxy(i)
      BY <3>4 DEF MarkProxy, Advance, TypeOK
    <3>5. CASE StartProxy(i)
      BY <3>5 DEF StartProxy, Advance, TypeOK
    <3>6. CASE RunBox(i)
      BY <3>6 DEF RunBox, TypeOK
    <3>7. CASE SetupFails(i)
      BY <3>7 DEF SetupFails, FirstUndo, Missing, TypeOK
    <3>8. CASE UndoSidecar(i)
      BY <3>8 DEF UndoSidecar, RemoveSidecar, TypeOK
    <3>9. CASE UndoNet(i)
      BY <3>9 DEF UndoNet, RemoveNet, NetFree, TypeOK
    <3>10. QED
      BY <2>1, <3>1, <3>2, <3>3, <3>4, <3>5, <3>6, <3>7, <3>8, <3>9 DEF CreateStep
  <2>2. ASSUME NEW i \in Ids, MakeNet(i) PROVE TypeOK'
    BY <2>2 DEF MakeNet, TypeOK
  <2>3. ASSUME NEW i \in Ids, CreatorDies(i) \/ CreateCancelled(i) PROVE TypeOK'
    BY <2>3 DEF CreatorDies, CreateCancelled, Interrupted, TypeOK
  <2>4. ASSUME NEW d \in Destroyers, DestroyStep(d) PROVE TypeOK'
    <3>1. CASE DestroyRm(d)
      BY <3>1 DEF DestroyRm, TypeOK
    <3>2. CASE DestroyFails(d)
      BY <3>2 DEF DestroyFails, TypeOK
    <3>3. CASE DestroySidecar(d)
      BY <3>3 DEF DestroySidecar, RemoveSidecar, TypeOK
    <3>4. CASE DestroyNet(d)
      BY <3>4 DEF DestroyNet, RemoveNet, NetFree, TypeOK
    <3>5. QED
      BY <2>4, <3>1, <3>2, <3>3, <3>4 DEF DestroyStep
  <2>5. ASSUME NEW d \in Destroyers, DestroyerDies(d) PROVE TypeOK'
    BY <2>5 DEF DestroyerDies, TypeOK
  <2>6. ASSUME NEW d \in Destroyers, NEW i \in Ids, Resolve(d, i) PROVE TypeOK'
    BY <2>6 DEF Resolve, Listed, TypeOK
  <2>7. ASSUME NEW w \in Sweepers, SweepStep(w) PROVE TypeOK'
    <3>1. CASE SweepBegin(w)
      BY <3>1 DEF SweepBegin, Listed, TypeOK
    <3>2. CASE PickSidecars(w)
      <4>1. Sidecars \subseteq Ids
        BY DEF Sidecars
      <4>2. QED
        BY <3>2, <4>1, PickTypes DEF PickSidecars, TypeOK, Kinds
    <3>3. CASE SidecarsDone(w)
      BY <3>3 DEF SidecarsDone, TypeOK
    <3>4. CASE PickNets(w)
      <4>1. {i \in Ids : net[i]} \subseteq Ids
        OBVIOUS
      <4>2. QED
        BY <3>4, <4>1, PickTypes DEF PickNets, TypeOK, Kinds
    <3>5. CASE SweepEnd(w)
      BY <3>5 DEF SweepEnd, Rest, TypeOK
    <3>6. CASE SweepStops(w)
      BY <3>6 DEF SweepStops, Rest, TypeOK
    <3>7. ASSUME NEW i \in Ids, SweepSidecar(w, i) PROVE TypeOK'
      BY <3>7 DEF SweepSidecar, RemoveSidecar, Swept, TypeOK
    <3>8. ASSUME NEW i \in Ids, SweepNet(w, i) PROVE TypeOK'
      BY <3>8 DEF SweepNet, RemoveNet, NetFree, Swept, TypeOK
    <3>9. QED
      BY <2>7, <3>1, <3>2, <3>3, <3>4, <3>5, <3>6, <3>7, <3>8 DEF SweepStep
  <2>8. CASE Tick
    BY <2>8 DEF Tick, TypeOK
  <2>9. CASE UNCHANGED vars
    BY <2>9 DEF TypeOK
  <2>10. QED
    BY <2>1, <2>2, <2>3, <2>4, <2>5, <2>6, <2>7, <2>8, <2>9 DEF Next
<1>3. QED
  BY <1>1, <1>2, PTL DEF Spec

---------------------------------------------------------------------------
(* Removals only ever hit sandboxes that are not there and will not be:    *)
(* the order of Create and of Destroy sees to it, and, for a sweep, the    *)
(* age of what it picks.                                                   *)
LEMMA OrderedStep ==
  ASSUME CreateBound + SweepBound < Grace,
         TypeOK, SetupIntact, Timely, Ordered, [Next]_vars
  PROVE  Ordered'
<1>1. ASSUME NEW i \in Ids, CreateStep(i) PROVE Ordered'
  <2>1. CASE RunSidecar(i)
    BY <2>1 DEF RunSidecar, TypeOK, Ordered, Unneeded, Setup, Undo
  <2>2. CASE AttachSidecar(i)
    BY <2>2 DEF AttachSidecar, Advance, TypeOK, Ordered, Unneeded, Setup, Undo
  <2>3. CASE CopyProxy(i)
    BY <2>3 DEF CopyProxy, Advance, TypeOK, Ordered, Unneeded, Setup, Undo
  <2>4. CASE MarkProxy(i)
    BY <2>4 DEF MarkProxy, Advance, TypeOK, Ordered, Unneeded, Setup, Undo
  <2>5. CASE StartProxy(i)
    BY <2>5 DEF StartProxy, Advance, TypeOK, Ordered, Unneeded, Setup, Undo
  <2>6. CASE RunBox(i)
    BY <2>6 DEF RunBox, TypeOK, Ordered, Unneeded, Setup, Undo
  <2>7. CASE SetupFails(i)
    BY <2>7 DEF SetupFails, FirstUndo, Missing, TypeOK, Ordered, Unneeded, Setup, Undo
  <2>8. CASE UndoSidecar(i)
    BY <2>8 DEF UndoSidecar, RemoveSidecar, TypeOK, Ordered, Unneeded, Setup, Undo
  <2>9. CASE UndoNet(i)
    BY <2>9 DEF UndoNet, RemoveNet, NetFree, TypeOK, Ordered, Unneeded, Setup, Undo
  <2>10. QED
    BY <1>1, <2>1, <2>2, <2>3, <2>4, <2>5, <2>6, <2>7, <2>8, <2>9 DEF CreateStep
<1>2. ASSUME NEW i \in Ids, MakeNet(i) PROVE Ordered'
  BY <1>2 DEF MakeNet, TypeOK, Ordered, Unneeded, Setup, Undo
<1>3. ASSUME NEW i \in Ids, CreatorDies(i) \/ CreateCancelled(i) PROVE Ordered'
  BY <1>3 DEF CreatorDies, CreateCancelled, Interrupted, TypeOK, Ordered, Unneeded, Setup, Undo
<1>4. ASSUME NEW d \in Destroyers, DestroyStep(d) PROVE Ordered'
  <2>1. CASE DestroyRm(d)
    BY <2>1 DEF DestroyRm, TypeOK, Ordered, Unneeded, Setup, Undo
  <2>2. CASE DestroyFails(d)
    BY <2>2 DEF DestroyFails, TypeOK, Ordered, Unneeded, Setup, Undo
  <2>3. CASE DestroySidecar(d)
    BY <2>3 DEF DestroySidecar, RemoveSidecar, TypeOK, Ordered, Unneeded, Setup, Undo
  <2>4. CASE DestroyNet(d)
    BY <2>4 DEF DestroyNet, RemoveNet, NetFree, TypeOK, Ordered, Unneeded, Setup, Undo
  <2>5. QED
    BY <1>4, <2>1, <2>2, <2>3, <2>4 DEF DestroyStep
<1>5. ASSUME NEW d \in Destroyers, DestroyerDies(d) PROVE Ordered'
  BY <1>5 DEF DestroyerDies, TypeOK, Ordered, Unneeded, Setup, Undo
<1>6. ASSUME NEW d \in Destroyers, NEW i \in Ids, Resolve(d, i) PROVE Ordered'
  BY <1>6 DEF Resolve, Listed, TypeOK, Ordered, Unneeded, Setup, Undo
<1>7. ASSUME NEW w \in Sweepers, SweepStep(w) PROVE Ordered'
  <2>1. CASE SweepBegin(w)
    BY <2>1 DEF SweepBegin, Listed, TypeOK, Ordered, Unneeded, Setup, Undo
  <2>2. CASE PickSidecars(w)
    BY <2>2 DEF PickSidecars, Sidecars, Pick, TypeOK, Ordered, Unneeded, Setup, Undo, Timely, OldEnough, Unlisted
  <2>3. CASE SidecarsDone(w)
    BY <2>3 DEF SidecarsDone, TypeOK, Ordered, Unneeded, Setup, Undo
  <2>4. CASE PickNets(w)
    BY <2>4 DEF PickNets, Pick, TypeOK, Ordered, Unneeded, Setup, Undo, Timely, OldEnough, Unlisted
  <2>5. CASE SweepEnd(w)
    BY <2>5 DEF SweepEnd, Rest, TypeOK, Ordered, Unneeded, Setup, Undo
  <2>6. CASE SweepStops(w)
    BY <2>6 DEF SweepStops, Rest, TypeOK, Ordered, Unneeded, Setup, Undo
  <2>7. ASSUME NEW i \in Ids, SweepSidecar(w, i) PROVE Ordered'
    BY <2>7 DEF SweepSidecar, RemoveSidecar, Swept, TypeOK, Ordered, Unneeded, Setup, Undo
  <2>8. ASSUME NEW i \in Ids, SweepNet(w, i) PROVE Ordered'
    BY <2>8 DEF SweepNet, RemoveNet, NetFree, Swept, TypeOK, Ordered, Unneeded, Setup, Undo
  <2>9. QED
    BY <1>7, <2>1, <2>2, <2>3, <2>4, <2>5, <2>6, <2>7, <2>8 DEF SweepStep
<1>8. CASE Tick
  BY <1>8 DEF Tick, TypeOK, Ordered, Unneeded, Setup, Undo
<1>9. CASE UNCHANGED vars
  BY <1>9 DEF TypeOK, Ordered, Unneeded, Setup, Undo
<1>10. QED
  BY <1>1, <1>2, <1>3, <1>4, <1>5, <1>6, <1>7, <1>8, <1>9 DEF Next

(* So a creation finds what it made, and a sandbox that is up is reached   *)
(* by none of them.                                                        *)
LEMMA IntactStep ==
  ASSUME TypeOK, LiveFirewall, SetupIntact, Ordered, [Next]_vars
  PROVE  LiveFirewall' /\ SetupIntact'
<1>1. ASSUME NEW i \in Ids, CreateStep(i) PROVE LiveFirewall' /\ SetupIntact'
  <2>1. CASE RunSidecar(i)
    BY <2>1 DEF RunSidecar, TypeOK, LiveFirewall, SetupIntact, Ordered, Unneeded, Setup, Undo
  <2>2. CASE AttachSidecar(i)
    BY <2>2 DEF AttachSidecar, Advance, TypeOK, LiveFirewall, SetupIntact, Ordered, Unneeded, Setup, Undo
  <2>3. CASE CopyProxy(i)
    BY <2>3 DEF CopyProxy, Advance, TypeOK, LiveFirewall, SetupIntact, Ordered, Unneeded, Setup, Undo
  <2>4. CASE MarkProxy(i)
    BY <2>4 DEF MarkProxy, Advance, TypeOK, LiveFirewall, SetupIntact, Ordered, Unneeded, Setup, Undo
  <2>5. CASE StartProxy(i)
    BY <2>5 DEF StartProxy, Advance, TypeOK, LiveFirewall, SetupIntact, Ordered, Unneeded, Setup, Undo
  <2>6. CASE RunBox(i)
    BY <2>6 DEF RunBox, TypeOK, LiveFirewall, SetupIntact, Ordered, Unneeded, Setup, Undo
  <2>7. CASE SetupFails(i)
    BY <2>7 DEF SetupFails, FirstUndo, Missing, TypeOK, LiveFirewall, SetupIntact, Ordered, Unneeded, Setup, Undo
  <2>8. CASE UndoSidecar(i)
    BY <2>8 DEF UndoSidecar, RemoveSidecar, TypeOK, LiveFirewall, SetupIntact, Ordered, Unneeded, Setup, Undo
  <2>9. CASE UndoNet(i)
    BY <2>9 DEF UndoNet, RemoveNet, NetFree, TypeOK, LiveFirewall, SetupIntact, Ordered, Unneeded, Setup, Undo
  <2>10. QED
    BY <1>1, <2>1, <2>2, <2>3, <2>4, <2>5, <2>6, <2>7, <2>8, <2>9 DEF CreateStep
<1>2. ASSUME NEW i \in Ids, MakeNet(i) PROVE LiveFirewall' /\ SetupIntact'
  BY <1>2 DEF MakeNet, TypeOK, LiveFirewall, SetupIntact, Ordered, Unneeded, Setup, Undo
<1>3. ASSUME NEW i \in Ids, CreatorDies(i) \/ CreateCancelled(i) PROVE LiveFirewall' /\ SetupIntact'
  BY <1>3 DEF CreatorDies, CreateCancelled, Interrupted, TypeOK, LiveFirewall, SetupIntact, Ordered, Unneeded, Setup, Undo
<1>4. ASSUME NEW d \in Destroyers, DestroyStep(d) PROVE LiveFirewall' /\ SetupIntact'
  <2>1. CASE DestroyRm(d)
    BY <2>1 DEF DestroyRm, TypeOK, LiveFirewall, SetupIntact, Ordered, Unneeded, Setup, Undo
  <2>2. CASE DestroyFails(d)
    BY <2>2 DEF DestroyFails, TypeOK, LiveFirewall, SetupIntact, Ordered, Unneeded, Setup, Undo
  <2>3. CASE DestroySidecar(d)
    BY <2>3 DEF DestroySidecar, RemoveSidecar, TypeOK, LiveFirewall, SetupIntact, Ordered, Unneeded, Setup, Undo
  <2>4. CASE DestroyNet(d)
    BY <2>4 DEF DestroyNet, RemoveNet, NetFree, TypeOK, LiveFirewall, SetupIntact, Ordered, Unneeded, Setup, Undo
  <2>5. QED
    BY <1>4, <2>1, <2>2, <2>3, <2>4 DEF DestroyStep
<1>5. ASSUME NEW d \in Destroyers, DestroyerDies(d) PROVE LiveFirewall' /\ SetupIntact'
  BY <1>5 DEF DestroyerDies, TypeOK, LiveFirewall, SetupIntact, Ordered, Unneeded, Setup, Undo
<1>6. ASSUME NEW d \in Destroyers, NEW i \in Ids, Resolve(d, i) PROVE LiveFirewall' /\ SetupIntact'
  BY <1>6 DEF Resolve, Listed, TypeOK, LiveFirewall, SetupIntact, Ordered, Unneeded, Setup, Undo
<1>7. ASSUME NEW w \in Sweepers, SweepStep(w) PROVE LiveFirewall' /\ SetupIntact'
  <2>1. CASE SweepBegin(w)
    BY <2>1 DEF SweepBegin, Listed, TypeOK, LiveFirewall, SetupIntact, Ordered, Unneeded, Setup, Undo
  <2>2. CASE PickSidecars(w)
    BY <2>2 DEF PickSidecars, Sidecars, Pick, TypeOK, LiveFirewall, SetupIntact, Ordered, Unneeded, Setup, Undo
  <2>3. CASE SidecarsDone(w)
    BY <2>3 DEF SidecarsDone, TypeOK, LiveFirewall, SetupIntact, Ordered, Unneeded, Setup, Undo
  <2>4. CASE PickNets(w)
    BY <2>4 DEF PickNets, Pick, TypeOK, LiveFirewall, SetupIntact, Ordered, Unneeded, Setup, Undo
  <2>5. CASE SweepEnd(w)
    BY <2>5 DEF SweepEnd, Rest, TypeOK, LiveFirewall, SetupIntact, Ordered, Unneeded, Setup, Undo
  <2>6. CASE SweepStops(w)
    BY <2>6 DEF SweepStops, Rest, TypeOK, LiveFirewall, SetupIntact, Ordered, Unneeded, Setup, Undo
  <2>7. ASSUME NEW i \in Ids, SweepSidecar(w, i) PROVE LiveFirewall' /\ SetupIntact'
    BY <2>7 DEF SweepSidecar, RemoveSidecar, Swept, TypeOK, LiveFirewall, SetupIntact, Ordered, Unneeded, Setup, Undo
  <2>8. ASSUME NEW i \in Ids, SweepNet(w, i) PROVE LiveFirewall' /\ SetupIntact'
    BY <2>8 DEF SweepNet, RemoveNet, NetFree, Swept, TypeOK, LiveFirewall, SetupIntact, Ordered, Unneeded, Setup, Undo
  <2>9. QED
    BY <1>7, <2>1, <2>2, <2>3, <2>4, <2>5, <2>6, <2>7, <2>8 DEF SweepStep
<1>8. CASE Tick
  BY <1>8 DEF Tick, TypeOK, LiveFirewall, SetupIntact, Ordered, Unneeded, Setup, Undo
<1>9. CASE UNCHANGED vars
  BY <1>9 DEF TypeOK, LiveFirewall, SetupIntact, Ordered, Unneeded, Setup, Undo
<1>10. QED
  BY <1>1, <1>2, <1>3, <1>4, <1>5, <1>6, <1>7, <1>8, <1>9 DEF Next

(* Time passes only as far as the bounds on creations and sweeps allow.    *)
LEMMA TimelyStep ==
  ASSUME TypeOK, SetupIntact, Timely, Ordered, [Next]_vars
  PROVE  Timely'
<1>1. ASSUME NEW i \in Ids, CreateStep(i) PROVE Timely'
  <2>1. CASE RunSidecar(i)
    BY <2>1 DEF RunSidecar, TypeOK, Timely, Unlisted, Setup, Undo
  <2>2. CASE AttachSidecar(i)
    BY <2>2 DEF AttachSidecar, Advance, TypeOK, Timely, Unlisted, Setup, Undo
  <2>3. CASE CopyProxy(i)
    BY <2>3 DEF CopyProxy, Advance, TypeOK, Timely, Unlisted, Setup, Undo
  <2>4. CASE MarkProxy(i)
    BY <2>4 DEF MarkProxy, Advance, TypeOK, Timely, Unlisted, Setup, Undo
  <2>5. CASE StartProxy(i)
    BY <2>5 DEF StartProxy, Advance, TypeOK, Timely, Unlisted, Setup, Undo
  <2>6. CASE RunBox(i)
    BY <2>6 DEF RunBox, TypeOK, Timely, Unlisted, Setup, Undo
  <2>7. CASE SetupFails(i)
    BY <2>7 DEF SetupFails, FirstUndo, Missing, TypeOK, Timely, Unlisted, Setup, Undo
  <2>8. CASE UndoSidecar(i)
    BY <2>8 DEF UndoSidecar, RemoveSidecar, TypeOK, Timely, Unlisted, Setup, Undo
  <2>9. CASE UndoNet(i)
    BY <2>9 DEF UndoNet, RemoveNet, NetFree, TypeOK, Timely, Unlisted, Setup, Undo
  <2>10. QED
    BY <1>1, <2>1, <2>2, <2>3, <2>4, <2>5, <2>6, <2>7, <2>8, <2>9 DEF CreateStep
<1>2. ASSUME NEW i \in Ids, MakeNet(i) PROVE Timely'
  BY <1>2 DEF MakeNet, TypeOK, Timely, Unlisted, Setup, Undo, Ordered
<1>3. ASSUME NEW i \in Ids, CreatorDies(i) \/ CreateCancelled(i) PROVE Timely'
  BY <1>3 DEF CreatorDies, CreateCancelled, Interrupted, TypeOK, Timely, Unlisted, Setup, Undo
<1>4. ASSUME NEW d \in Destroyers, DestroyStep(d) PROVE Timely'
  <2>1. CASE DestroyRm(d)
    BY <2>1 DEF DestroyRm, TypeOK, Timely, Unlisted, Setup, Undo
  <2>2. CASE DestroyFails(d)
    BY <2>2 DEF DestroyFails, TypeOK, Timely, Unlisted, Setup, Undo
  <2>3. CASE DestroySidecar(d)
    BY <2>3 DEF DestroySidecar, RemoveSidecar, TypeOK, Timely, Unlisted, Setup, Undo
  <2>4. CASE DestroyNet(d)
    BY <2>4 DEF DestroyNet, RemoveNet, NetFree, TypeOK, Timely, Unlisted, Setup, Undo
  <2>5. QED
    BY <1>4, <2>1, <2>2, <2>3, <2>4 DEF DestroyStep
<1>5. ASSUME NEW d \in Destroyers, DestroyerDies(d) PROVE Timely'
  BY <1>5 DEF DestroyerDies, TypeOK, Timely, Unlisted, Setup, Undo
<1>6. ASSUME NEW d \in Destroyers, NEW i \in Ids, Resolve(d, i) PROVE Timely'
  BY <1>6 DEF Resolve, Listed, TypeOK, Timely, Unlisted, Setup, Undo
<1>7. ASSUME NEW w \in Sweepers, SweepStep(w) PROVE Timely'
  <2>1. CASE SweepBegin(w)
    BY <2>1 DEF SweepBegin, Listed, TypeOK, Timely, Unlisted, Setup, Undo
  <2>2. CASE PickSidecars(w)
    BY <2>2 DEF PickSidecars, Sidecars, Pick, TypeOK, Timely, Unlisted, Setup, Undo
  <2>3. CASE SidecarsDone(w)
    BY <2>3 DEF SidecarsDone, TypeOK, Timely, Unlisted, Setup, Undo
  <2>4. CASE PickNets(w)
    BY <2>4 DEF PickNets, Pick, TypeOK, Timely, Unlisted, Setup, Undo
  <2>5. CASE SweepEnd(w)
    BY <2>5 DEF SweepEnd, Rest, TypeOK, Timely, Unlisted, Setup, Undo
  <2>6. CASE SweepStops(w)
    BY <2>6 DEF SweepStops, Rest, TypeOK, Timely, Unlisted, Setup, Undo
  <2>7. ASSUME NEW i \in Ids, SweepSidecar(w, i) PROVE Timely'
    BY <2>7 DEF SweepSidecar, RemoveSidecar, Swept, TypeOK, Timely, Unlisted, Setup, Undo
  <2>8. ASSUME NEW i \in Ids, SweepNet(w, i) PROVE Timely'
    BY <2>8 DEF SweepNet, RemoveNet, NetFree, Swept, TypeOK, Timely, Unlisted, Setup, Undo
  <2>9. QED
    BY <1>7, <2>1, <2>2, <2>3, <2>4, <2>5, <2>6, <2>7, <2>8 DEF SweepStep
<1>8. CASE Tick
  BY <1>8 DEF Tick, TypeOK, Timely, Unlisted, Setup, Undo
<1>9. CASE UNCHANGED vars
  BY <1>9 DEF TypeOK, Timely, Unlisted, Setup, Undo
<1>10. QED
  BY <1>1, <1>2, <1>3, <1>4, <1>5, <1>6, <1>7, <1>8, <1>9 DEF Next

(* With creations and sweeps that together take less than the grace, the   *)
(* whole invariant holds; it is inductive given the types.                 *)
THEOREM FirewallInv ==
  ASSUME CreateBound + SweepBound < Grace
  PROVE  Spec => []FwInv
<1>1. Init => FwInv
  BY DEF Init, FwInv, LiveFirewall, SetupIntact, Timely, Ordered, Unneeded, Setup, Undo
<1>2. TypeOK /\ FwInv /\ [Next]_vars => FwInv'
  BY OrderedStep, IntactStep, TimelyStep DEF FwInv
<1>3. QED
  BY <1>1, <1>2, FirewallTypes, PTL DEF Spec

(* So no sandbox that is up loses its firewall ...                         *)
THEOREM FirewallSafe ==
  ASSUME CreateBound + SweepBound < Grace
  PROVE  Spec => []LiveFirewall
<1>1. FwInv => LiveFirewall
  BY DEF FwInv
<1>2. QED
  BY <1>1, FirewallInv, PTL

(* ... and no creation what it has built so far.                           *)
THEOREM CreationsIntact ==
  ASSUME CreateBound + SweepBound < Grace
  PROVE  Spec => []SetupIntact
<1>1. FwInv => SetupIntact
  BY DEF FwInv
<1>2. QED
  BY <1>1, FirewallInv, PTL

---------------------------------------------------------------------------
(* What a sweep has to remove stays in its hands until it is removed: a    *)
(* creation only adds parts younger than every list.                       *)
LEMMA InHandKept ==
  ASSUME Grace > 0, TypeOK, Timely, InHand, UNCHANGED <<clock, sweepVars>>, leaky \subseteq leaky',
         \A i \in Ids : netAt'[i] = clock \/ (netAt'[i] = netAt[i] /\ (net'[i] => net[i])),
         \A i \in Ids : \/ scAt'[i] = clock
                       \/ (scAt'[i] = scAt[i] /\ (sc'[i] # "none" => sc[i] # "none"))
  PROVE  InHand'
<1> SUFFICES ASSUME NEW w \in Sweepers, NEW i \in Ids \ leaky', Outlived(w, i)', spc[w] # "idle"
             PROVE  /\ spc[w] = "rmSc" /\ sc'[i] # "none" => i \in doomed[w] \/ Untold(w, "container", i)
                    /\ spc[w] \in {"pickNet", "rmNet"} => sc'[i] = "none" \/ Untold(w, "container", i)
                    /\ spc[w] = "rmNet" /\ net'[i] =>
                          i \in doomed[w] \/ \E kind \in Kinds : Untold(w, kind, i)
  BY DEF InHand, Untold
<1>1. listAt[w] <= clock /\ listAt[w] \in Int /\ clock \in Int
  BY DEF Timely, TypeOK
<1>2. netAt'[i] # clock /\ scAt'[i] # clock
  BY <1>1 DEF Outlived
<1>3. Outlived(w, i) /\ i \notin leaky
  BY <1>2 DEF Outlived, Unlisted
<1>4. (net'[i] => net[i]) /\ (sc'[i] # "none" => sc[i] # "none")
  BY <1>2
<1>5. QED
  BY <1>3, <1>4 DEF InHand

LEMMA InHandStep ==
  ASSUME Grace > 0, TypeOK, Timely, Ordered, InHand, [Next]_vars
  PROVE  InHand'
<1>1. ASSUME NEW i \in Ids, CreateStep(i) PROVE InHand'
  <2>1. CASE RunSidecar(i) \/ AttachSidecar(i) \/ CopyProxy(i) \/ MarkProxy(i) \/ StartProxy(i) \/ RunBox(i)
    BY <2>1, InHandKept DEF RunSidecar, AttachSidecar, CopyProxy, MarkProxy, StartProxy, RunBox, Advance, TypeOK
  <2>2. CASE SetupFails(i)
    BY <2>2, InHandKept DEF SetupFails, TypeOK
  <2>3. CASE UndoSidecar(i)
    BY <2>3, InHandKept DEF UndoSidecar, RemoveSidecar, TypeOK
  <2>4. CASE UndoNet(i)
    BY <2>4, InHandKept DEF UndoNet, RemoveNet, TypeOK
  <2>5. QED
    BY <1>1, <2>1, <2>2, <2>3, <2>4 DEF CreateStep
<1>2. ASSUME NEW i \in Ids, MakeNet(i) PROVE InHand'
  <2>1. \A j \in Ids : netAt'[j] = clock \/ (netAt'[j] = netAt[j] /\ (net'[j] => net[j]))
    BY <1>2 DEF MakeNet, TypeOK
  <2>2. UNCHANGED <<clock, sweepVars, leaky, sc, scAt>>
    BY <1>2 DEF MakeNet
  <2>3. QED
    BY <2>1, <2>2, InHandKept
<1>3. ASSUME NEW i \in Ids, CreatorDies(i) \/ CreateCancelled(i) PROVE InHand'
  BY <1>3, InHandKept DEF CreatorDies, CreateCancelled, Interrupted
<1>4. ASSUME NEW d \in Destroyers, DestroyStep(d) PROVE InHand'
  <2>1. CASE DestroyRm(d) \/ DestroyFails(d)
    BY <2>1, InHandKept DEF DestroyRm, DestroyFails
  <2>2. CASE DestroySidecar(d)
    BY <2>2, InHandKept DEF DestroySidecar, RemoveSidecar, TypeOK
  <2>3. CASE DestroyNet(d)
    BY <2>3, InHandKept DEF DestroyNet, RemoveNet, TypeOK
  <2>4. QED
    BY <1>4, <2>1, <2>2, <2>3 DEF DestroyStep
<1>5. ASSUME NEW d \in Destroyers, DestroyerDies(d) \/ (\E i \in Ids : Resolve(d, i)) PROVE InHand'
  BY <1>5, InHandKept DEF DestroyerDies, Resolve
<1>6. ASSUME NEW w \in Sweepers, SweepStep(w) PROVE InHand'
  <2>1. CASE SweepBegin(w)
    BY <2>1 DEF SweepBegin, TypeOK, InHand, Outlived, Unlisted, Untold, Kinds
  <2>2. CASE PickSidecars(w)
    <3>1. listAt[w] <= clock
      BY <2>2 DEF PickSidecars, Sidecars, Pick, Timely
    <3>2. \A i \in Ids : Outlived(w, i) => OldEnough(scAt[i])
      BY <3>1 DEF Outlived, OldEnough, TypeOK
    <3>3. QED
      BY <2>2, <3>2 DEF PickSidecars, Sidecars, Pick, TypeOK, InHand, Outlived, Unlisted, Untold, Kinds
  <2>3. CASE SidecarsDone(w)
    BY <2>3 DEF SidecarsDone, TypeOK, InHand, Outlived, Unlisted, Untold, Kinds
  <2>4. CASE PickNets(w)
    <3>1. listAt[w] <= clock
      BY <2>4 DEF PickNets, Pick, Timely
    <3>2. \A i \in Ids : Outlived(w, i) => OldEnough(netAt[i])
      BY <3>1 DEF Outlived, OldEnough, TypeOK
    <3>3. QED
      BY <2>4, <3>2 DEF PickNets, Pick, TypeOK, InHand, Outlived, Unlisted, Untold, Kinds
  <2>5. CASE SweepEnd(w) \/ SweepStops(w)
    <3>1. spc' = [spc EXCEPT ![w] = "idle"]
      BY <2>5 DEF SweepEnd, SweepStops, Rest
    <3>2. ASSUME NEW v \in Sweepers \ {w}
          PROVE  /\ spc'[v] = spc[v] /\ listAt'[v] = listAt[v] /\ live'[v] = live[v]
                 /\ doomed'[v] = doomed[v] /\ untold'[v] = untold[v]
      BY <2>5 DEF SweepEnd, SweepStops, Rest, TypeOK
    <3>3. UNCHANGED <<net, netAt, sc, scAt, leaky>>
      BY <2>5 DEF SweepEnd, SweepStops, Rest
    <3>4. QED
      BY <3>1, <3>2, <3>3 DEF TypeOK, InHand, Outlived, Unlisted, Untold
  <2>6. ASSUME NEW i \in Ids, SweepSidecar(w, i) PROVE InHand'
    BY <2>6 DEF SweepSidecar, RemoveSidecar, Swept, TypeOK, InHand, Outlived, Unlisted, Untold, Kinds
  <2>7. ASSUME NEW i \in Ids, SweepNet(w, i) PROVE InHand'
    <3>1. box[i] # "up"
      BY <2>7 DEF SweepNet, Ordered, Unneeded
    <3>2. i \notin leaky /\ Outlived(w, i) /\ ~Untold(w, "container", i) => NetFree(i)
      BY <2>7, <3>1 DEF SweepNet, InHand, NetFree, Attached
    <3>3. QED
      BY <2>7, <3>2 DEF SweepNet, RemoveNet, Swept, TypeOK, InHand, Outlived, Unlisted, Untold, Kinds
  <2>8. QED
    BY <1>6, <2>1, <2>2, <2>3, <2>4, <2>5, <2>6, <2>7 DEF SweepStep
<1>7. CASE Tick
  BY <1>7 DEF Tick, InHand, Outlived, Unlisted, Untold, Kinds
<1>8. CASE UNCHANGED vars
  BY <1>8 DEF InHand, Outlived, Unlisted, Untold, Kinds
<1>9. QED
  BY <1>1, <1>2, <1>3, <1>4, <1>5, <1>6, <1>7, <1>8 DEF Next

(* A sweep that gets to its end leaves nothing behind that was past the    *)
(* grace when it began, unless the engine failed to remove it or to tell   *)
(* its age, whatever creators, destroyers and other sweeps do meanwhile.   *)
(* Where the age of networks is never told, it still holds of sidecars.    *)
THEOREM SweepsThorough ==
  ASSUME CreateBound + SweepBound < Grace
  PROVE  Spec => []SweepIsThorough
<1>1. Grace > 0
  OBVIOUS
<1>2. Init => InHand
  BY DEF Init, InHand, Outlived, Unlisted
<1>3. TypeOK /\ FwInv /\ InHand /\ [Next]_vars => InHand'
  BY <1>1, InHandStep DEF FwInv
<1>4. InHand => SweepIsThorough
  BY DEF InHand, SweepIsThorough
<1>5. QED
  BY <1>2, <1>3, <1>4, FirewallTypes, FirewallInv, PTL DEF Spec

---------------------------------------------------------------------------
(* Where the firewall of a sandbox nobody had trouble with stands when its *)
(* creation has failed, or its container is gone: torn down, or a Destroy  *)
(* is at it, or died at it.                                                *)
Undone(i) ==
    /\ step[i] = "undoNet" => sc[i] = "none"
    /\ step[i] = "failed" => sc[i] = "none" /\ ~net[i]
    /\ step[i] = "done" => box[i] \in {"up", "gone"}
    /\ step[i] = "done" /\ box[i] = "gone" =>
          \/ sc[i] = "none" /\ ~net[i]
          \/ \E d \in Destroyers :
                /\ dtgt[d] = i
                /\ dpc[d] \in {"rmSc", "dead"} \/ (dpc[d] = "rmNet" /\ sc[i] = "none")

TearInv == \A i \in Ids \ leaky : Undone(i)

(* Containers and calls, without the sweeps: what Ordered says that needs  *)
(* no bound on time.                                                       *)
Placed ==
    /\ \A i \in Ids : step[i] \in {"net"} \cup Setup => box[i] = "none"
    /\ \A i \in Ids : step[i] \in Undo => box[i] # "up"
    /\ \A d \in Destroyers : dpc[d] # "idle" => step[dtgt[d]] \notin {"net"} \cup Setup
    /\ \A d \in Destroyers : dpc[d] \in {"rmSc", "rmNet"} => box[dtgt[d]] = "gone"

LEMMA TearStep ==
  ASSUME TypeOK, TearInv, Placed, [Next]_vars
  PROVE  TearInv' /\ Placed'
<1>1. ASSUME NEW i \in Ids, CreateStep(i) PROVE TearInv' /\ Placed'
  <2>1. CASE RunSidecar(i)
    BY <2>1 DEF RunSidecar, TypeOK, TearInv, Undone, Placed, Setup, Undo
  <2>2. CASE AttachSidecar(i)
    BY <2>2 DEF AttachSidecar, Advance, TypeOK, TearInv, Undone, Placed, Setup, Undo
  <2>3. CASE CopyProxy(i)
    BY <2>3 DEF CopyProxy, Advance, TypeOK, TearInv, Undone, Placed, Setup, Undo
  <2>4. CASE MarkProxy(i)
    BY <2>4 DEF MarkProxy, Advance, TypeOK, TearInv, Undone, Placed, Setup, Undo
  <2>5. CASE StartProxy(i)
    BY <2>5 DEF StartProxy, Advance, TypeOK, TearInv, Undone, Placed, Setup, Undo
  <2>6. CASE RunBox(i)
    BY <2>6 DEF RunBox, TypeOK, TearInv, Undone, Placed, Setup, Undo
  <2>7. CASE SetupFails(i)
    BY <2>7 DEF SetupFails, FirstUndo, Missing, TypeOK, TearInv, Undone, Placed, Setup, Undo
  <2>8. CASE UndoSidecar(i)
    BY <2>8 DEF UndoSidecar, RemoveSidecar, TypeOK, TearInv, Undone, Placed, Setup, Undo
  <2>9. CASE UndoNet(i)
    BY <2>9 DEF UndoNet, RemoveNet, NetFree, Attached, TypeOK, TearInv, Undone, Placed, Setup, Undo
  <2>10. QED
    BY <1>1, <2>1, <2>2, <2>3, <2>4, <2>5, <2>6, <2>7, <2>8, <2>9 DEF CreateStep
<1>2. ASSUME NEW i \in Ids, MakeNet(i) PROVE TearInv' /\ Placed'
  BY <1>2 DEF MakeNet, TypeOK, TearInv, Undone, Placed, Setup, Undo
<1>3. ASSUME NEW i \in Ids, CreatorDies(i) \/ CreateCancelled(i) PROVE TearInv' /\ Placed'
  BY <1>3 DEF CreatorDies, CreateCancelled, Interrupted, TypeOK, TearInv, Undone, Placed, Setup, Undo
<1>4. ASSUME NEW d \in Destroyers, DestroyStep(d) PROVE TearInv' /\ Placed'
  <2>1. CASE DestroyRm(d)
    BY <2>1 DEF DestroyRm, TypeOK, TearInv, Undone, Placed, Setup, Undo
  <2>2. CASE DestroyFails(d)
    BY <2>2 DEF DestroyFails, TypeOK, TearInv, Undone, Placed, Setup, Undo
  <2>3. CASE DestroySidecar(d)
    BY <2>3 DEF DestroySidecar, RemoveSidecar, TypeOK, TearInv, Undone, Placed, Setup, Undo
  <2>4. CASE DestroyNet(d)
    BY <2>4 DEF DestroyNet, RemoveNet, NetFree, Attached, TypeOK, TearInv, Undone, Placed, Setup, Undo
  <2>5. QED
    BY <1>4, <2>1, <2>2, <2>3, <2>4 DEF DestroyStep
<1>5. ASSUME NEW d \in Destroyers, DestroyerDies(d) PROVE TearInv' /\ Placed'
  BY <1>5 DEF DestroyerDies, TypeOK, TearInv, Undone, Placed, Setup, Undo
<1>6. ASSUME NEW d \in Destroyers, NEW i \in Ids, Resolve(d, i) PROVE TearInv' /\ Placed'
  BY <1>6 DEF Resolve, Listed, TypeOK, TearInv, Undone, Placed, Setup, Undo
<1>7. ASSUME NEW w \in Sweepers, SweepStep(w) PROVE TearInv' /\ Placed'
  <2>1. ASSUME UNCHANGED <<fwVars, box, step, destVars>> PROVE TearInv' /\ Placed'
    BY <2>1 DEF TypeOK, TearInv, Undone, Placed, Setup, Undo
  <2>2. ASSUME NEW i \in Ids, SweepSidecar(w, i) PROVE TearInv' /\ Placed'
    BY <2>2 DEF SweepSidecar, RemoveSidecar, TypeOK, TearInv, Undone, Placed, Setup, Undo
  <2>3. ASSUME NEW i \in Ids, SweepNet(w, i) PROVE TearInv' /\ Placed'
    BY <2>3 DEF SweepNet, RemoveNet, NetFree, TypeOK, TearInv, Undone, Placed, Setup, Undo
  <2>4. QED
    BY <1>7, <2>1, <2>2, <2>3
       DEF SweepStep, SweepBegin, PickSidecars, Sidecars, SidecarsDone, PickNets, Pick, SweepEnd, SweepStops, Rest
<1>8. CASE Tick
  BY <1>8 DEF Tick, TypeOK, TearInv, Undone, Placed, Setup, Undo
<1>9. CASE UNCHANGED vars
  BY <1>9 DEF TypeOK, TearInv, Undone, Placed, Setup, Undo
<1>10. QED
  BY <1>1, <1>2, <1>3, <1>4, <1>5, <1>6, <1>7, <1>8, <1>9 DEF Next

(* While the removals work, Destroy and a failed Create leave nothing of a *)
(* firewall, whoever else removes: bounds on time play no part.            *)
THEOREM FirewallTorn == Spec => []TornDownTogether
<1>1. Init => TearInv /\ Placed
  BY DEF Init, TearInv, Undone, Placed, Undo
<1>2. TypeOK /\ TearInv /\ Placed /\ [Next]_vars => TearInv' /\ Placed'
  BY TearStep
<1>3. TypeOK /\ TearInv => TornDownTogether
  BY DEF TearInv, Undone, TornDownTogether, TypeOK, Listed, Begun
<1>4. QED
  BY <1>1, <1>2, <1>3, FirewallTypes, PTL DEF Spec
============================================================================
