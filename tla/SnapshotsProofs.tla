-------------------------- MODULE SnapshotsProofs --------------------------
(***************************************************************************)
(* Theorems about Snapshots, for any number of names, images and callers,  *)
(* any age limit, any length of a second and any difference of the clocks. *)
(***************************************************************************)
EXTENDS Snapshots, TLAPS

USE TimeAssumption, NoImageAssumption
USE DEF vars, store, pruneVars, Goto

---------------------------------------------------------------------------
(* Unix takes a time to the start of its second ...                        *)
LEMMA UnixFloor ==
  ASSUME NEW t \in Nat
  PROVE  Unix(t) \in Nat /\ Unix(t) <= t /\ t < Unix(t) + Second
BY DEF Unix

(* ... and so keeps the order of times a second apart.                     *)
LEMMA UnixOrder ==
  ASSUME NEW s \in Nat, NEW t \in Nat, Unix(s) < Unix(t)
  PROVE  s < t
<1> SUFFICES ASSUME t <= s PROVE Unix(t) <= Unix(s)
  BY UnixFloor
<1>1. t \div Second <= s \div Second
  OBVIOUS
<1>2. /\ t \div Second \in Nat /\ s \div Second \in Nat
  OBVIOUS
<1>3. QED
  BY <1>1, <1>2 DEF Unix

---------------------------------------------------------------------------
(* Every variable keeps its type, and a pruner knows what its list's names *)
(* stood for.                                                              *)
LEMMA TypeStep ==
  ASSUME TypeOK, [Next]_vars
  PROVE  TypeOK'
<1>1. ASSUME NEW n \in Names, NEW m \in Images, Snapshot(n, m) PROVE TypeOK'
  <2>1. stamp' \in [Images -> Times]
    <3>1. Stamps \subseteq Times
      <4>1. ASSUME NEW t \in Skewed PROVE Unix(t) \in Times
        BY UnixFloor DEF Skewed, Times, Start
      <4>2. QED
        BY <4>1 DEF Stamps, Times, Start
    <3>2. QED
      BY <1>1, <3>1 DEF Snapshot, TypeOK
  <2>2. clock \in Times
    BY DEF TypeOK, Start, Times
  <2>3. QED
    BY <1>1, <2>1, <2>2 DEF Snapshot, TypeOK
<1>2. ASSUME NEW n \in Names, Fork(n) PROVE TypeOK'
  BY <1>2 DEF Fork, TypeOK
<1>3. ASSUME NEW n \in Names, RemoveSnapshot(n) PROVE TypeOK'
  BY <1>3 DEF RemoveSnapshot, Removable, Rmi, TypeOK
<1>4. ASSUME NEW m \in Images, DestroyForks(m) PROVE TypeOK'
  BY <1>4 DEF DestroyForks, TypeOK
<1>5. ASSUME NEW p \in Pruners, PruneList(p) PROVE TypeOK'
  <2>1. clock \in Times
    BY DEF TypeOK, Start, Times
  <2>2. QED
    BY <1>5, <2>1 DEF PruneList, Rows, TypeOK
<1>6. ASSUME NEW p \in Pruners, PruneCutoff(p) PROVE TypeOK'
  <2>1. /\ clock - MaxAge \in Nat
        /\ clock - MaxAge <= Start + MaxClock + MaxSkew
    BY DEF TypeOK, Start
  <2>2. Unix(clock - MaxAge) \in Times
    BY <2>1, UnixFloor DEF Times, Start
  <2>3. QED
    BY <1>6, <2>2 DEF PruneCutoff, TypeOK
<1>7. ASSUME NEW p \in Pruners, PruneEnd(p) PROVE TypeOK'
  <2>1. 0 \in Times
    BY DEF Times, Start
  <2>2. QED
    BY <1>7, <2>1 DEF PruneEnd, TypeOK
<1>8. ASSUME NEW p \in Pruners, NEW n \in Names, Keep(p, n) PROVE TypeOK'
  BY <1>8 DEF Keep, Judge, TypeOK
<1>9. ASSUME NEW p \in Pruners, NEW n \in Names, PruneOne(p, n) PROVE TypeOK'
  BY <1>9 DEF PruneOne, Judge, TooOld, Removable, Rmi, Report, TypeOK
<1>10. ASSUME NEW p \in Pruners, NEW n \in Names, RmiFails(p, n) PROVE TypeOK'
  BY <1>10 DEF RmiFails, Judge, TypeOK
<1>11. CASE Tick
  BY <1>11 DEF Tick, Start, Times, TypeOK
<1>12. CASE UNCHANGED vars
  BY <1>12 DEF TypeOK
<1>13. QED
  BY <1>1, <1>2, <1>3, <1>4, <1>5, <1>6, <1>7, <1>8, <1>9, <1>10, <1>11, <1>12 DEF Next

THEOREM SnapshotTypes == Spec => []TypeOK
<1>1. Init => TypeOK
  BY DEF Init, TypeOK, Start, Times
<1>2. QED
  BY <1>1, TypeStep, PTL DEF Spec

---------------------------------------------------------------------------
(* What the pruners go by stays true of the images they listed, and a name *)
(* never returns to an image it has left: images are made once.            *)
LEMMA StoreStep ==
  ASSUME TypeOK, StoreInv, [Next]_vars
  PROVE  StoreInv'
<1>1. ASSUME NEW n \in Names, NEW m \in Images, Snapshot(n, m) PROVE StoreInv'
  <2> USE DEF TypeOK, StoreInv, Made
  <2>1. clock \in Times /\ clock # 0
    BY DEF Start, Times
  <2>2. Stamped'
    <3>1. \A t \in Stamps : t # 0 => \E u \in Times : /\ t = Unix(u)
                                                 /\ clock - MaxSkew <= u /\ u <= clock + MaxSkew
      BY DEF Stamps, Skewed
    <3>2. QED
      BY <1>1, <3>1 DEF Snapshot, Stamped
  <2>3. Judging'
    BY <1>1, <2>1 DEF Snapshot, Judging
  <2>4. ReportIsTrue'
    BY <1>1 DEF Snapshot, ReportIsTrue, Judging
  <2>5. QED
    BY <1>1, <2>1, <2>2, <2>3, <2>4 DEF Snapshot
<1>2. ASSUME NEW n \in Names, Fork(n) PROVE StoreInv'
  BY <1>2 DEF Fork, TypeOK, StoreInv, Made, Stamped, Judging, ReportIsTrue
<1>3. ASSUME NEW n \in Names, RemoveSnapshot(n) PROVE StoreInv'
  BY <1>3 DEF RemoveSnapshot, Removable, Rmi, TypeOK, StoreInv, Made, Stamped, Judging, ReportIsTrue
<1>4. ASSUME NEW m \in Images, DestroyForks(m) PROVE StoreInv'
  BY <1>4 DEF DestroyForks, TypeOK, StoreInv, Made, Stamped, Judging, ReportIsTrue
<1>5. ASSUME NEW p \in Pruners, PruneList(p) PROVE StoreInv'
  BY <1>5 DEF PruneList, Rows, TypeOK, StoreInv, Made, Stamped, Judging, ReportIsTrue
<1>6. ASSUME NEW p \in Pruners, PruneCutoff(p) PROVE StoreInv'
  <2> USE DEF TypeOK, StoreInv, Made
  <2>1. /\ clock - MaxAge \in Times /\ clock - MaxAge \in Nat /\ clock \in Nat
    BY DEF Start, Times
  <2>2. Judging'
    <3> SUFFICES ASSUME NEW q \in Pruners
                 PROVE  /\ began[q] <= clock
                        /\ \A n \in todo[q] \cup removed[q] : Made(listed[q][n])
                        /\ ppc'[q] = "removing" =>
                              \E t \in Times : /\ cutoff'[q] = Unix(t)
                                               /\ began[q] - MaxAge <= t /\ t <= clock - MaxAge
      BY <1>6 DEF PruneCutoff, Judging
    <3>1. /\ began[q] <= clock /\ began[q] \in Nat
          /\ \A n \in todo[q] \cup removed[q] : Made(listed[q][n])
      BY DEF Judging, Times
    <3>2. CASE q = p
      <4>1. /\ cutoff'[q] = Unix(clock - MaxAge)
            /\ began[q] - MaxAge <= clock - MaxAge
        BY <1>6, <2>1, <3>1, <3>2 DEF PruneCutoff
      <4>2. QED
        BY <2>1, <3>1, <4>1
    <3>3. CASE q # p
      BY <1>6, <3>3 DEF PruneCutoff, Judging
    <3>4. QED
      BY <3>2, <3>3
  <2>3. QED
    BY <1>6, <2>2 DEF PruneCutoff, Stamped, ReportIsTrue
<1>7. ASSUME NEW p \in Pruners, PruneEnd(p) PROVE StoreInv'
  BY <1>7 DEF PruneEnd, Start, Times, TypeOK, StoreInv, Made, Stamped, Judging, ReportIsTrue
<1>8. ASSUME NEW p \in Pruners, NEW n \in Names, Keep(p, n) PROVE StoreInv'
  BY <1>8 DEF Keep, Judge, TypeOK, StoreInv, Made, Stamped, Judging, ReportIsTrue
<1>9. ASSUME NEW p \in Pruners, NEW n \in Names, PruneOne(p, n) PROVE StoreInv'
  <2> USE DEF TypeOK, StoreInv, Made
  <2>1. \A k \in Names : tag'[k] # NoImage => Made(tag'[k])
    BY <1>9 DEF PruneOne, Judge, Rmi
  <2>2. Stamped' /\ Judging'
    BY <1>9 DEF PruneOne, Judge, Report, Stamped, Judging
  <2>3. ReportIsTrue'
    BY <1>9 DEF PruneOne, Judge, Removable, Rmi, Report, ReportIsTrue
  <2>4. QED
    BY <1>9, <2>1, <2>2, <2>3 DEF PruneOne, Judge
<1>10. ASSUME NEW p \in Pruners, NEW n \in Names, RmiFails(p, n) PROVE StoreInv'
  BY <1>10 DEF RmiFails, Judge, TypeOK, StoreInv, Made, Stamped, Judging, ReportIsTrue
<1>11. CASE Tick
  BY <1>11 DEF Tick, Start, Times, TypeOK, StoreInv, Made, Stamped, Judging, ReportIsTrue
<1>12. CASE UNCHANGED vars
  BY <1>12 DEF TypeOK, StoreInv, Made, Stamped, Judging, ReportIsTrue
<1>13. QED
  BY <1>1, <1>2, <1>3, <1>4, <1>5, <1>6, <1>7, <1>8, <1>9, <1>10, <1>11, <1>12 DEF Next

(* From the first listing on, the invariant holds.                         *)
THEOREM StoreHolds == Spec => []StoreInv
<1>1. Init => StoreInv
  BY DEF Init, StoreInv, Made, Stamped, Judging, ReportIsTrue, Start
<1>2. QED
  BY <1>1, StoreStep, SnapshotTypes, PTL DEF Spec

(* The report of a prune is true while it is made and when it is printed.  *)
THEOREM ReportTrue == Spec => []ReportIsTrue
<1>1. StoreInv => ReportIsTrue
  BY DEF StoreInv
<1>2. QED
  BY <1>1, StoreHolds, PTL

---------------------------------------------------------------------------
(* A pruner leaves a name behind in three ways only.                       *)
LEMMA Judges ==
  ASSUME TypeOK, [Next]_vars, NEW p \in Pruners, NEW n \in Names,
         Removes(p, n) \/ PassesOver(p, n)
  PROVE  Keep(p, n) \/ PruneOne(p, n) \/ RmiFails(p, n)
<1> USE DEF TypeOK, Removes, PassesOver
<1>1. CASE UNCHANGED <<todo, removed>>
  BY <1>1
<1>2. ASSUME NEW q \in Pruners, PruneList(q) \/ PruneEnd(q) PROVE FALSE
  BY <1>2 DEF PruneList, PruneEnd
<1>3. ASSUME NEW q \in Pruners, NEW k \in Names, Keep(q, k) \/ PruneOne(q, k) \/ RmiFails(q, k)
      PROVE  q = p /\ k = n
  BY <1>3 DEF Keep, PruneOne, RmiFails, Judge, Report
<1>4. QED
  BY <1>1, <1>2, <1>3
     DEF Next, Snapshot, Fork, RemoveSnapshot, DestroyForks, PruneCutoff, Tick

(* A snapshot judged too old is older than the limit, by the callers'      *)
(* clock and but for the skew.                                             *)
LEMMA OldIsOld ==
  ASSUME TypeOK, StoreInv, NEW p \in Pruners, NEW n \in Names,
         ppc[p] = "removing", n \in todo[p], TooOld(p, n)
  PROVE  clock - at[listed[p][n]] > MaxAge - MaxSkew
<1> DEFINE m == listed[p][n]
<1>1. m \in Images /\ at[m] \in Nat /\ clock \in Nat
  BY DEF TypeOK, Start, Times
<1>2. PICK t \in Times : stamp[m] = Unix(t) /\ at[m] - MaxSkew <= t /\ t <= at[m] + MaxSkew
  BY <1>1 DEF StoreInv, Stamped, TooOld
<1>3. PICK c \in Times : cutoff[p] = Unix(c) /\ c <= clock - MaxAge
  BY DEF StoreInv, Judging
<1>4. t \in Nat /\ c \in Nat
  BY DEF Times
<1>5. t < c
  BY <1>2, <1>3, <1>4, UnixOrder DEF TooOld
<1>6. QED
  BY <1>1, <1>2, <1>3, <1>4, <1>5

(* A snapshot with an age that is not judged too old was not, by a second  *)
(* and the skew, when it was listed.                                       *)
LEMMA KeptIsYoung ==
  ASSUME TypeOK, StoreInv, NEW p \in Pruners, NEW n \in Names,
         ppc[p] = "removing", n \in todo[p], ~TooOld(p, n), stamp[listed[p][n]] # 0
  PROVE  began[p] - at[listed[p][n]] < MaxAge + MaxSkew + Second
<1> DEFINE m == listed[p][n]
<1>1. m \in Images /\ at[m] \in Nat /\ began[p] \in Nat
  BY DEF TypeOK, Times
<1>2. PICK t \in Times : stamp[m] = Unix(t) /\ at[m] - MaxSkew <= t /\ t <= at[m] + MaxSkew
  BY <1>1 DEF StoreInv, Stamped
<1>3. PICK c \in Times : cutoff[p] = Unix(c) /\ began[p] - MaxAge <= c
  BY DEF StoreInv, Judging
<1>4. t \in Nat /\ c \in Nat
  BY DEF Times
<1>5. Unix(c) <= Unix(t)
  <2>1. Unix(t) \in Nat /\ Unix(c) \in Nat
    BY <1>4, UnixFloor
  <2>2. QED
    BY <1>2, <1>3, <2>1 DEF TooOld
<1>6. c < t + Second
  <2>1. /\ Unix(t) \in Nat /\ Unix(c) \in Nat
        /\ Unix(t) <= t /\ c < Unix(c) + Second
    BY <1>4, UnixFloor
  <2>2. QED
    BY <1>4, <1>5, <2>1
<1>7. QED
  BY <1>1, <1>2, <1>3, <1>4, <1>6

(* A prune removes nothing younger than its limit that it has listed ...   *)
THEOREM PruneSafe == Spec => PruneSparesYoung
<1>1. TypeOK /\ StoreInv /\ [Next]_vars =>
        [\A p \in Pruners, n \in Names :
           Removes(p, n) => \/ clock - at[tag[n]] > MaxAge - MaxSkew
                            \/ tag[n] # listed[p][n]]_vars
  <2> SUFFICES ASSUME TypeOK, StoreInv, [Next]_vars,
                      NEW p \in Pruners, NEW n \in Names, Removes(p, n),
                      tag[n] = listed[p][n]
               PROVE  clock - at[tag[n]] > MaxAge - MaxSkew
    OBVIOUS
  <2>1. PruneOne(p, n)
    BY Judges DEF Keep, RmiFails, Removes
  <2>2. QED
    BY <2>1, OldIsOld DEF PruneOne, Judge
<1>2. QED
  BY <1>1, SnapshotTypes, StoreHolds, PTL DEF Spec, PruneSparesYoung

(* ... and passes over nothing much older that the engine would remove.    *)
THEOREM PruneThorough == Spec => PruneIsThorough
<1>1. TypeOK /\ StoreInv /\ [Next]_vars =>
        [\A p \in Pruners, n \in Names :
           PassesOver(p, n) =>
             \/ began[p] - at[listed[p][n]] < MaxAge + MaxSkew + Second
             \/ stamp[listed[p][n]] = 0
             \/ ~Removable(n) \/ RmiFails(p, n)]_vars
  <2> SUFFICES ASSUME TypeOK, StoreInv, [Next]_vars,
                      NEW p \in Pruners, NEW n \in Names, PassesOver(p, n),
                      stamp[listed[p][n]] # 0, Removable(n), ~RmiFails(p, n)
               PROVE  began[p] - at[listed[p][n]] < MaxAge + MaxSkew + Second
    OBVIOUS
  <2>1. CASE PruneOne(p, n)
    BY <2>1 DEF PruneOne, Report, PassesOver, TypeOK
  <2>2. CASE Keep(p, n)
    BY <2>2, KeptIsYoung DEF Keep, Judge
  <2>3. QED
    BY <2>1, <2>2, Judges
<1>2. QED
  BY <1>1, SnapshotTypes, StoreHolds, PTL DEF Spec, PruneIsThorough

============================================================================
