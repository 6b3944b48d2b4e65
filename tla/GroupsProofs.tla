---------------------------- MODULE GroupsProofs ----------------------------
(* Proofs about Groups.  `up's that take turns do not make two sandboxes   *)
(* with one name, whatever the manifests, whoever types them and however   *)
(* many `down's run beside them, until a listing fails or a creation is    *)
(* left; an `up' that no `down' runs beside completes, and a `down' that   *)
(* nothing goes wrong under leaves nothing.                                *)
EXTENDS Groups, TLAPS

(* What NameInv says while it is calm.                                     *)
Named == Unique /\ Reserved /\ Alone

(* Taking the first name off a queue.                                      *)
LEMMA Dequeue ==
  ASSUME NEW q \in Seq(AllNames), q # <<>>, IsInjective(q)
  PROVE  /\ Tail(q) \in Seq(AllNames)
         /\ IsInjective(Tail(q))
         /\ Head(q) \in Range(q)
         /\ Range(Tail(q)) \subseteq Range(q)
         /\ Head(q) \notin Range(Tail(q))
<1>1. /\ Len(q) \in Nat /\ Len(q) >= 1 /\ Head(q) = q[1]
      /\ Tail(q) \in Seq(AllNames) /\ Len(Tail(q)) = Len(q) - 1
      /\ \A k \in 1..(Len(q) - 1) : Tail(q)[k] = q[k + 1]
      /\ DOMAIN q = 1..Len(q) /\ DOMAIN Tail(q) = 1..(Len(q) - 1)
  OBVIOUS
<1>2. \A j, k \in 1..Len(q) : q[j] = q[k] => j = k
  BY <1>1 DEF IsInjective
<1>3. IsInjective(Tail(q))
  BY <1>1, <1>2 DEF IsInjective
<1>4. Head(q) \in Range(q) /\ Range(Tail(q)) \subseteq Range(q)
  BY <1>1 DEF Range
<1>5. Head(q) \notin Range(Tail(q))
  BY <1>1, <1>2 DEF Range
<1>6. QED
  BY <1>1, <1>3, <1>4, <1>5

(* The queue of an `up' that begins.                                       *)
LEMMA NamesQueue ==
  ASSUME NEW g \in Goals
  PROVE  /\ Names(g) \in Seq(AllNames) /\ IsInjective(Names(g))
         /\ Range(Names(g)) \subseteq AllNames
  BY GoalsAssumption DEF AllNames

(* No step leaves the types.                                               *)
LEMMA GroupTypes == TypeOK /\ [Next]_vars => TypeOK'
<1> SUFFICES ASSUME TypeOK, [Next]_vars PROVE TypeOK'
  OBVIOUS
<1>1. ASSUME NEW u \in Users, NEW g \in Goals, UpList(u, g) PROVE TypeOK'
  <2>1. ListedNames \subseteq AllNames \cup {<<>>}
    BY DEF ListedNames, TypeOK
  <2>2. existing' \in [Users -> SUBSET (AllNames \cup {<<>>})]
    BY <1>1, <2>1 DEF UpList, TypeOK
  <2>3. troubles' \subseteq Faults
    BY <1>1 DEF UpList, TypeOK
  <2>4. QED
    BY <1>1, <2>2, <2>3, NamesQueue DEF UpList, TypeOK, boxVars, Goto
<1>2. ASSUME NEW u \in Users, UpSkip(u) PROVE TypeOK'
  BY <1>2 DEF UpSkip, TypeOK, boxVars
<1>3. ASSUME NEW u \in Users, NEW i \in Ids, UpCreate(u, i) PROVE TypeOK'
  <2>1. Head(queue[u]) \in AllNames /\ goal[u] \in Goals
    BY <1>3 DEF UpCreate, TypeOK
  <2>2. QED
    BY <1>3, <2>1 DEF UpCreate, TypeOK, BoxStates, Goto
<1>4. ASSUME NEW u \in Users, CreateDone(u) PROVE TypeOK'
  BY <1>4 DEF CreateDone, TypeOK, BoxStates, Goto
<1>5. ASSUME NEW u \in Users, Exit(u), UNCHANGED label, box' \in [Ids -> BoxStates],
             troubles' \subseteq Faults
      PROVE  TypeOK'
  <2>1. <<>> \in Seq(AllNames)
    OBVIOUS
  <2>2. QED
    BY <1>5, <2>1 DEF Exit, TypeOK, Goto
<1>6. ASSUME NEW u \in Users, CreateFails(u) PROVE TypeOK'
  <2>1. box' \in [Ids -> BoxStates]
    BY <1>6 DEF CreateFails, TypeOK, BoxStates
  <2>2. troubles' \subseteq Faults
    BY <1>6 DEF CreateFails, TypeOK
  <2>3. QED
    BY <1>5, <1>6, <2>1, <2>2 DEF CreateFails
<1>7. ASSUME NEW u \in Users, UpEnd(u) \/ DownEnd(u) \/ Interrupt(u) PROVE TypeOK'
  BY <1>5, <1>7 DEF UpEnd, DownEnd, Interrupt, boxVars, TypeOK
<1>8. ASSUME NEW u \in Users, NEW g \in Goals, DownList(u, g) PROVE TypeOK'
  <2>1. \A found \in Victims(g) : found \subseteq Ids
    BY DEF Victims, InGroup
  <2>2. doomed' \in [Users -> SUBSET Ids]
    BY <1>8, <2>1 DEF DownList, TypeOK
  <2>3. QED
    BY <1>8, <2>2 DEF DownList, TypeOK, boxVars, Goto, AllFaults
<1>9. ASSUME NEW u \in Users, NEW i \in Ids, DownRemove(u, i) \/ DownMisses(u, i)
      PROVE  TypeOK'
  BY <1>9 DEF DownRemove, DownMisses, Removed, TypeOK, BoxStates
<1>10. ASSUME NEW i \in Ids, EngineAlone(i) PROVE TypeOK'
  BY <1>10 DEF EngineAlone, TypeOK, BoxStates, userVars
<1>11. CASE UNCHANGED vars
  BY <1>11 DEF vars, boxVars, userVars, TypeOK
<1>12. QED
  BY <1>1, <1>2, <1>3, <1>4, <1>6, <1>7, <1>8, <1>9, <1>10, <1>11 DEF Next, Up, DownOf

(* A sandbox listed under a name the listing had not found is the first.   *)
LEMMA ListedStep ==
  ASSUME TypeOK, Named, UpsInTurn, NEW u \in Users,
         pc[u] = "create", box[tgt[u]] = "pulling",
         NEW s \in {"up", "dead", "none"},
         box' = [box EXCEPT ![tgt[u]] = s], label' = label
  PROVE  /\ Unique'
         /\ \A i \in Ids : Listed(i)' /\ i # tgt[u] => Listed(i)
         /\ \A i \in Ids : box'[i] # "pulling"
         /\ label[tgt[u]] = Head(queue[u])
<1>1. tgt[u] \in Ids /\ queue[u] # <<>> /\ queue[u] \in Seq(AllNames)
  BY DEF TypeOK
<1>2. /\ label[tgt[u]] = Head(queue[u]) /\ Head(queue[u]) \notin existing[u]
      /\ \A i \in Ids : Listed(i) /\ label[i] \in Range(queue[u]) => label[i] \in existing[u]
      /\ IsInjective(queue[u])
  BY DEF Named, Reserved
<1>3. Head(queue[u]) \in Range(queue[u])
  BY <1>1, <1>2, Dequeue
<1>4. \A i \in Ids : Listed(i) => label[i] # label[tgt[u]]
  BY <1>2, <1>3
<1>5. \A i \in Ids : Listed(i)' /\ i # tgt[u] => Listed(i)
  BY DEF Listed, TypeOK
<1>6. Unique'
  BY <1>1, <1>4, <1>5 DEF Named, Unique
<1>7. \A i \in Ids : box[i] = "pulling" => i = tgt[u]
  BY DEF Named, Alone, UpsInTurn, Upping
<1>8. \A i \in Ids : box'[i] # "pulling"
  BY <1>1, <1>7 DEF TypeOK
<1>9. QED
  BY <1>2, <1>5, <1>6, <1>8

(* No step breaks the invariant while `up's take turns.                    *)
LEMMA NamedStep ==
  ASSUME TypeOK, Named, UpsInTurn, UpsInTurn', [Next]_vars, Calm'
  PROVE  Named'
<1> USE DEF Named
<1>0. IsInjective(<<>>)
  BY DEF IsInjective
<1>1. ASSUME NEW u \in Users, NEW g \in Goals, UpList(u, g) PROVE Named'
  <2>1. existing' = [existing EXCEPT ![u] = ListedNames]
    BY <1>1 DEF UpList, Calm
  <2>2. Reserved'
    BY <1>1, <2>1, NamesQueue
       DEF UpList, TypeOK, Reserved, UpsInTurn, Upping, ListedNames, Listed, boxVars, Goto
  <2>3. QED
    BY <1>1, <2>2 DEF UpList, TypeOK, Unique, Alone, UpsInTurn, Upping, Listed, boxVars, Goto
<1>2. ASSUME NEW u \in Users, UpSkip(u) PROVE Named'
  <2>1. queue[u] \in Seq(AllNames) /\ queue[u] # <<>> /\ IsInjective(queue[u])
    BY <1>2 DEF UpSkip, TypeOK, Reserved
  <2>2. IsInjective(Tail(queue[u])) /\ Range(Tail(queue[u])) \subseteq Range(queue[u])
    BY <2>1, Dequeue
  <2>3. Reserved'
    BY <1>2, <2>2 DEF UpSkip, TypeOK, Reserved, UpsInTurn, Upping, Listed, boxVars
  <2>4. QED
    BY <1>2, <2>3 DEF UpSkip, Unique, Alone, Listed, boxVars
<1>3. ASSUME NEW u \in Users, NEW i \in Ids, UpCreate(u, i) PROVE Named'
  <2>1. /\ box' = [box EXCEPT ![i] = "pulling"] /\ label' = [label EXCEPT ![i] = Head(queue[u])]
        /\ tgt' = [tgt EXCEPT ![u] = i] /\ pc' = [pc EXCEPT ![u] = "create"]
        /\ UNCHANGED <<goal, existing, queue>>
        /\ pc[u] = "up" /\ Head(queue[u]) \notin existing[u]
    BY <1>3 DEF UpCreate, Goto
  <2>2. \A j \in Ids : Listed(j)' => Listed(j) /\ label'[j] = label[j]
    BY <2>1 DEF TypeOK, Listed
  <2>3. Unique'
    BY <2>2 DEF Unique
  <2>4. Reserved'
    BY <2>1, <2>2 DEF TypeOK, Reserved, UpsInTurn, Upping
  <2>5. Alone'
    BY <2>1 DEF TypeOK, Alone, UpsInTurn, Upping
  <2>6. QED
    BY <2>3, <2>4, <2>5
<1>4. ASSUME NEW u \in Users, CreateDone(u) PROVE Named'
  <2>1. /\ box' = [box EXCEPT ![tgt[u]] = "up"] /\ label' = label /\ existing' = existing
        /\ queue' = [queue EXCEPT ![u] = Tail(@)] /\ pc' = [pc EXCEPT ![u] = "up"]
        /\ pc[u] = "create" /\ box[tgt[u]] = "pulling"
    BY <1>4 DEF CreateDone, Goto
  <2>2. /\ Unique' /\ label[tgt[u]] = Head(queue[u])
        /\ \A i \in Ids : Listed(i)' /\ i # tgt[u] => Listed(i)
        /\ \A i \in Ids : box'[i] # "pulling"
    BY <2>1, ListedStep
  <2>3. queue[u] \in Seq(AllNames) /\ queue[u] # <<>> /\ IsInjective(queue[u])
    BY <2>1 DEF TypeOK, Reserved
  <2>4. /\ IsInjective(Tail(queue[u])) /\ Range(Tail(queue[u])) \subseteq Range(queue[u])
        /\ Head(queue[u]) \notin Range(Tail(queue[u]))
    BY <2>3, Dequeue
  <2>5. Reserved'
    BY <2>1, <2>2, <2>4 DEF TypeOK, Reserved, UpsInTurn, Upping
  <2>6. QED
    BY <2>2, <2>5 DEF Alone
<1>5. ASSUME NEW u \in Users, Upping(u) \/ UNCHANGED boxVars, Exit(u) PROVE Reserved'
  <2>1. CASE Upping(u)
    BY <1>0, <1>5, <2>1 DEF Exit, TypeOK, Reserved, UpsInTurn, Upping, Goto
  <2>2. CASE UNCHANGED boxVars
    BY <1>0, <1>5, <2>2 DEF Exit, TypeOK, Reserved, Goto, boxVars, Listed
  <2>3. QED
    BY <1>5, <2>1, <2>2
<1>6. ASSUME NEW u \in Users, CreateFails(u) PROVE Named'
  <2>1. PICK s \in {"dead", "none"} : box' = [box EXCEPT ![tgt[u]] = s]
    BY <1>6 DEF CreateFails
  <2>2. pc[u] = "create" /\ box[tgt[u]] = "pulling" /\ label' = label
    BY <1>6 DEF CreateFails
  <2>3. Unique' /\ \A i \in Ids : box'[i] # "pulling"
    BY <2>1, <2>2, ListedStep
  <2>4. QED
    BY <1>5, <1>6, <2>2, <2>3 DEF CreateFails, Alone, Upping
<1>7. ASSUME NEW u \in Users, UpEnd(u) \/ DownEnd(u) PROVE Named'
  <2>1. Reserved'
    BY <1>5, <1>7 DEF UpEnd, DownEnd
  <2>2. /\ pc[u] # "create" /\ UNCHANGED boxVars
        /\ \A v \in Users : v # u => UNCHANGED <<pc[v], tgt[v]>>
    BY <1>7 DEF UpEnd, DownEnd, Exit, Goto, TypeOK
  <2>3. Unique' /\ Alone'
    BY <2>2 DEF Unique, Alone, Listed, boxVars
  <2>4. QED
    BY <2>1, <2>3
<1>8. ASSUME NEW u \in Users, NEW g \in Goals, DownList(u, g) PROVE Named'
  <2>1. Reserved'
    BY <1>8 DEF DownList, TypeOK, Reserved, UpsInTurn, Upping, Listed, boxVars, Goto
  <2>2. QED
    BY <1>8, <2>1 DEF DownList, TypeOK, Unique, Alone, UpsInTurn, Upping, Listed, boxVars, Goto
<1>9. ASSUME NEW u \in Users, NEW i \in Ids, DownRemove(u, i) \/ DownMisses(u, i)
      PROVE  Named'
  <2>1. UNCHANGED <<label, pc, goal, existing, queue, tgt>>
    BY <1>9 DEF DownRemove, DownMisses, Removed
  <2>2. \A j \in Ids : Listed(j)' => Listed(j)
    BY <1>9 DEF DownRemove, DownMisses, Listed, TypeOK
  <2>3. \A j \in Ids : box'[j] = "pulling" => box[j] = "pulling"
    BY <1>9 DEF DownRemove, DownMisses, TypeOK
  <2>4. QED
    BY <2>1, <2>2, <2>3 DEF Unique, Reserved, Alone
<1>10. ASSUME NEW i \in Ids, EngineAlone(i) PROVE FALSE
  BY <1>10 DEF EngineAlone, Alone
<1>11. ASSUME NEW u \in Users, Interrupt(u) PROVE Named'
  <2>1. pc[u] # "create"
    BY <1>11 DEF Interrupt, Calm
  <2>2. Reserved'
    BY <1>5, <1>11 DEF Interrupt
  <2>3. Alone'
    BY <1>11, <2>1 DEF Interrupt, Exit, Alone, TypeOK, UpsInTurn, Upping, Goto, boxVars
  <2>4. QED
    BY <1>11, <2>2, <2>3 DEF Interrupt, Unique, Listed, boxVars
<1>12. CASE UNCHANGED vars
  BY <1>12 DEF vars, boxVars, userVars, Unique, Reserved, Alone, Listed
<1>13. QED
  BY <1>1, <1>2, <1>3, <1>4, <1>6, <1>7, <1>8, <1>9, <1>10, <1>11, <1>12
     DEF Next, Up, DownOf

(* The types hold whoever does what.                                       *)
THEOREM GroupsTyped == Spec => []TypeOK
<1>1. Init => TypeOK
  <2>1. <<>> \in Seq(AllNames)
    OBVIOUS
  <2>2. QED
    BY <2>1 DEF Init, TypeOK, BoxStates
<1>2. QED
  BY <1>1, GroupTypes, PTL DEF Spec

(* The invariant while `up's take turns.                                   *)
THEOREM NamesReserved == Spec /\ []UpsInTurn => []NameInv
<1>1. Init => NameInv
  BY DEF Init, NameInv, Unique, Reserved, Alone, Listed, IsInjective
<1>2. [Next]_vars /\ Calm' => Calm
  BY DEF Calm, Next, vars, Up, DownOf, UpList, UpSkip, UpCreate, CreateDone, CreateFails,
         UpEnd, DownList, DownRemove, DownMisses, DownEnd, Interrupt, EngineAlone
<1>3. TypeOK /\ NameInv /\ UpsInTurn /\ UpsInTurn' /\ [Next]_vars => NameInv'
  BY <1>2, NamedStep DEF NameInv, Named
<1>4. QED
  BY <1>1, <1>3, GroupsTyped, PTL DEF Spec

(* up and preview up commands that take turns, of one user or of many, and *)
(* however many `down's beside them, never make two sandboxes of one name, *)
(* however creations and removals fail and whatever command is             *)
(* interrupted, until a listing fails or a creation is left unfinished.    *)
THEOREM OneSandboxPerName == Spec /\ []UpsInTurn => []OnePerName
<1>1. NameInv => OnePerName
  BY DEF NameInv, OnePerName
<1>2. QED
  BY <1>1, NamesReserved, PTL

---------------------------------------------------------------------------
(* What an `up' still has to bring about is in its queue, and what it is   *)
(* creating has the first name there.                                      *)
Held(u) ==
    /\ existing[u] \subseteq ListedNames
    /\ Wanted(u) \subseteq Range(queue[u]) \cup ListedNames
    /\ pc[u] = "create" => label[tgt[u]] = Head(queue[u]) /\ box[tgt[u]] # "unused"

Covered == \A u \in Users : Upping(u) => Held(u)

LEMMA HeadAndTail ==
  ASSUME NEW q \in Seq(AllNames), q # <<>>
  PROVE  Range(q) \subseteq {Head(q)} \cup Range(Tail(q))
<1> SUFFICES ASSUME NEW k \in 1..Len(q), k # 1 PROVE q[k] \in Range(Tail(q))
  BY DEF Range
<1>1. /\ k - 1 \in 1..(Len(q) - 1) /\ Tail(q)[k - 1] = q[k]
      /\ DOMAIN Tail(q) = 1..(Len(q) - 1)
  OBVIOUS
<1>2. QED
  BY <1>1 DEF Range

(* A sandbox that was asked for keeps its name and is not asked for again, *)
(* and where no `down' runs no name goes.                                  *)
LEMMA NamesStay ==
  ASSUME TypeOK, [Next]_vars
  PROVE  /\ \A i \in Ids : box[i] # "unused" => box'[i] # "unused" /\ label'[i] = label[i]
         /\ (\A v \in Users : pc[v] # "down") => ListedNames \subseteq ListedNames'
<1> USE DEF TypeOK
<1>1. ASSUME NEW i \in Ids, box[i] # "unused"
      PROVE  /\ box'[i] # "unused" /\ label'[i] = label[i]
             /\ (\A v \in Users : pc[v] # "down") /\ Listed(i) => Listed(i)'
  <2> USE <1>1 DEF Listed
  <2>1. CASE UNCHANGED boxVars
    BY <2>1 DEF boxVars
  <2>2. ASSUME NEW v \in Users, NEW j \in Ids, UpCreate(v, j)
        PROVE  box'[i] = box[i] /\ label'[i] = label[i]
    BY <2>2 DEF UpCreate
  <2>3. ASSUME NEW v \in Users, CreateDone(v) \/ CreateFails(v)
        PROVE  /\ box'[i] # "unused" /\ label'[i] = label[i]
               /\ Listed(i) => Listed(i)'
    BY <2>3 DEF CreateDone, CreateFails
  <2>4. ASSUME NEW v \in Users, NEW j \in Ids, DownRemove(v, j)
        PROVE  box'[i] # "unused" /\ label'[i] = label[i] /\ pc[v] = "down"
    BY <2>4 DEF DownRemove, Removed
  <2>5. ASSUME NEW j \in Ids, EngineAlone(j)
        PROVE  /\ box'[i] # "unused" /\ label'[i] = label[i]
               /\ Listed(i) => Listed(i)'
    BY <2>5 DEF EngineAlone
  <2>6. QED
    BY <2>1, <2>2, <2>3, <2>4, <2>5
       DEF Next, Up, UpList, UpSkip, UpEnd, DownOf, DownList, DownMisses, Removed, DownEnd,
           Interrupt, boxVars, vars
<1>2. \A i \in Ids : Listed(i) => box[i] # "unused"
  BY DEF Listed
<1>3. QED
  BY <1>1, <1>2 DEF ListedNames

(* What an `up' holds it keeps through the steps of others.                *)
LEMMA StaysHeld ==
  ASSUME TypeOK, [Next]_vars, Undisturbed, NEW u \in Users, Upping(u), Held(u),
         UNCHANGED <<pc[u], queue[u], goal[u], existing[u], tgt[u]>>
  PROVE  Held(u)'
<1>1. ListedNames \subseteq ListedNames'
  BY NamesStay DEF Undisturbed
<1>2. pc[u] = "create" => label'[tgt[u]] = label[tgt[u]] /\ box'[tgt[u]] # "unused"
  BY NamesStay DEF Held, TypeOK
<1>3. QED
  BY <1>1, <1>2 DEF Held, Wanted

LEMMA CoveredStep ==
  ASSUME TypeOK, Covered, Undisturbed, [Next]_vars
  PROVE  Covered'
<1> SUFFICES ASSUME NEW u \in Users, Upping(u)' PROVE Held(u)'
  BY DEF Covered
<1>1. CASE UNCHANGED <<pc[u], queue[u], goal[u], existing[u], tgt[u]>>
  BY <1>1, StaysHeld DEF Covered, Upping
<1>2. ASSUME NEW g \in Goals, UpList(u, g) PROVE Held(u)'
  <2>1. /\ UNCHANGED boxVars /\ existing'[u] \in {{}, ListedNames}
        /\ goal'[u] = g /\ queue'[u] = Names(g) /\ pc'[u] = "up"
    BY <1>2 DEF UpList, TypeOK, Goto
  <2>2. UNCHANGED ListedNames
    BY <2>1 DEF ListedNames, Listed, boxVars
  <2>3. QED
    BY <2>1, <2>2 DEF Held, Wanted
<1>3. ASSUME UpSkip(u) PROVE Held(u)'
  <2>1. /\ UNCHANGED <<boxVars, pc, goal, existing, tgt>> /\ queue'[u] = Tail(queue[u])
        /\ Upping(u) /\ pc[u] # "create" /\ queue[u] \in Seq(AllNames) /\ queue[u] # <<>>
        /\ Head(queue[u]) \in existing[u]
    BY <1>3 DEF UpSkip, TypeOK, Upping
  <2>2. UNCHANGED ListedNames
    BY <2>1 DEF ListedNames, Listed, boxVars
  <2>3. QED
    BY <2>1, <2>2, HeadAndTail DEF Covered, Held, Wanted
<1>4. ASSUME NEW i \in Ids, UpCreate(u, i) PROVE Held(u)'
  <2>1. /\ pc[u] = "up" /\ box' = [box EXCEPT ![i] = "pulling"]
        /\ label' = [label EXCEPT ![i] = Head(queue[u])]
        /\ tgt'[u] = i /\ UNCHANGED <<goal, existing, queue>>
    BY <1>4 DEF UpCreate, TypeOK
  <2>2. ListedNames \subseteq ListedNames'
    BY <2>1, NamesStay DEF Undisturbed, Upping
  <2>3. label'[i] = Head(queue[u]) /\ box'[i] # "unused"
    BY <2>1 DEF TypeOK
  <2>4. QED
    BY <2>1, <2>2, <2>3 DEF Covered, Held, Wanted, Upping
<1>5. ASSUME CreateDone(u) PROVE Held(u)'
  <2>1. /\ pc[u] = "create" /\ box' = [box EXCEPT ![tgt[u]] = "up"] /\ tgt[u] \in Ids
        /\ queue'[u] = Tail(queue[u]) /\ queue[u] \in Seq(AllNames) /\ queue[u] # <<>>
        /\ UNCHANGED <<label, goal, existing>> /\ pc'[u] = "up"
    BY <1>5 DEF CreateDone, TypeOK, Goto
  <2>2. ListedNames \cup {label[tgt[u]]} \subseteq ListedNames'
    BY <2>1 DEF ListedNames, Listed, TypeOK
  <2>3. label[tgt[u]] = Head(queue[u])
    BY <2>1 DEF Covered, Held, Upping
  <2>4. QED
    BY <2>1, <2>2, <2>3, HeadAndTail DEF Covered, Held, Wanted, Upping
<1>6. ASSUME Exit(u) \/ (\E g \in Goals : DownList(u, g)) PROVE FALSE
  BY <1>6 DEF Exit, DownList, Upping, TypeOK, Goto
<1>7. ASSUME NEW v \in Users, v # u, Up(v) \/ DownOf(v) \/ Interrupt(v)
      PROVE  UNCHANGED <<pc[u], queue[u], goal[u], existing[u], tgt[u]>>
  BY <1>7 DEF Up, UpList, UpSkip, UpCreate, CreateDone, CreateFails, UpEnd, DownOf, DownList,
              DownRemove, DownMisses, Removed, DownEnd, Interrupt, Exit, Goto, TypeOK
<1>8. ASSUME NEW i \in Ids, DownRemove(u, i) \/ DownMisses(u, i)
      PROVE  UNCHANGED <<pc[u], queue[u], goal[u], existing[u], tgt[u]>>
  BY <1>8 DEF DownRemove, DownMisses, Removed
<1>9. CASE Up(u) \/ DownOf(u) \/ Interrupt(u)
  BY <1>1, <1>2, <1>3, <1>4, <1>5, <1>6, <1>8, <1>9
     DEF Up, DownOf, CreateFails, UpEnd, DownEnd, Interrupt
<1>10. CASE (\E i \in Ids : EngineAlone(i)) \/ UNCHANGED vars
  BY <1>1, <1>10 DEF EngineAlone, userVars, vars
<1>11. QED
  BY <1>1, <1>7, <1>9, <1>10 DEF Next

(* An `up' that ends without an error leaves a sandbox for every service,  *)
(* whatever the manifest, whatever failed before and however many users    *)
(* are at it, as long as nobody's `down' runs beside an `up'.              *)
THEOREM UpFinishes == Spec /\ []Undisturbed => UpCompletes
<1>1. Init => Covered
  BY DEF Init, Covered, Upping
<1>2. TypeOK /\ Covered /\ [Next]_vars
        => [\A u \in Users : UpIsOver(u) => Wanted(u) \subseteq ListedNames]_vars
  <2> SUFFICES ASSUME TypeOK, Covered, NEW u \in Users, UpIsOver(u)
               PROVE  Wanted(u) \subseteq ListedNames
    OBVIOUS
  <2>1. Range(queue[u]) = {}
    BY DEF UpIsOver, Range
  <2>2. QED
    BY <2>1 DEF UpIsOver, Covered, Held, Upping
<1>3. QED
  BY <1>1, <1>2, CoveredStep, GroupsTyped, PTL DEF Spec, UpCompletes

---------------------------------------------------------------------------
(* What a `down' still has to remove is doomed, if nothing went wrong.     *)
Marked ==
    \A u \in Users :
        pc[u] = "down" /\ troubles = {} =>
            \A i \in Ids : Listed(i) /\ label[i] \in Range(Names(goal[u])) => i \in doomed[u]

LEMMA MarkedStep ==
  ASSUME TypeOK, NameInv, Marked, Undisturbed, Undisturbed', [Next]_vars
  PROVE  Marked'
<1> SUFFICES ASSUME troubles' = {}, NEW u \in Users, pc'[u] = "down",
                    NEW i \in Ids, Listed(i)', label'[i] \in Range(Names(goal'[u]))
             PROVE  i \in doomed'[u]
  BY DEF Marked
<1>0. ASSUME UNCHANGED <<pc[u], goal[u], doomed[u], label[i]>>, troubles = {}, Listed(i)
      PROVE  i \in doomed'[u]
  BY <1>0 DEF Marked
<1>1. ASSUME NEW v \in Users, NEW g \in Goals, UpList(v, g) PROVE FALSE
  BY <1>1 DEF UpList, TypeOK, Goto, Undisturbed, Upping
<1>2. ASSUME NEW v \in Users, UpSkip(v) PROVE FALSE
  BY <1>2 DEF UpSkip, Undisturbed, Upping
<1>3. ASSUME NEW v \in Users, NEW j \in Ids, UpCreate(v, j) PROVE FALSE
  BY <1>3 DEF UpCreate, TypeOK, Goto, Undisturbed, Upping
<1>4. ASSUME NEW v \in Users, CreateDone(v) PROVE FALSE
  BY <1>4 DEF CreateDone, TypeOK, Goto, Undisturbed, Upping
<1>5. ASSUME NEW v \in Users, Exit(v)
      PROVE  v # u /\ UNCHANGED <<pc[u], goal[u], doomed[u]>> /\ ~Upping(v)
  <2>1. v # u /\ UNCHANGED <<pc[u], goal[u], doomed[u]>>
    BY <1>5 DEF Exit, TypeOK, Goto
  <2>2. QED
    BY <2>1 DEF Undisturbed
<1>6. ASSUME NEW v \in Users, CreateFails(v) \/ UpEnd(v) \/ DownEnd(v) \/ Interrupt(v)
      PROVE  i \in doomed'[u]
  <2>1. ~CreateFails(v) /\ ~UpEnd(v)
    BY <1>5 DEF CreateFails, UpEnd, Upping
  <2>2. Exit(v) /\ UNCHANGED boxVars /\ troubles \subseteq troubles'
    BY <1>6, <2>1 DEF DownEnd, Interrupt
  <2>3. QED
    BY <1>0, <1>5, <2>2 DEF boxVars, Listed
<1>7. ASSUME NEW v \in Users, NEW g \in Goals, DownList(v, g) PROVE i \in doomed'[u]
  <2>1. troubles = {} /\ UNCHANGED boxVars /\ Listed(i)
    BY <1>7 DEF DownList, Listed, boxVars
  <2>2. CASE v # u
    BY <1>0, <1>7, <2>1, <2>2 DEF DownList, TypeOK, Goto, boxVars
  <2>3. CASE v = u
    <3>1. goal'[u] = g
      BY <1>7, <2>3 DEF DownList, TypeOK
    <3>2. PICK found \in Victims(g) : doomed'[u] = found
      BY <1>7, <2>1, <2>3 DEF DownList, TypeOK
    <3>3. label[i] \in Range(Names(g))
      BY <2>1, <3>1 DEF boxVars
    <3>4. CASE g \in Groups
      BY <2>1, <3>2, <3>3, <3>4, PrefixAssumption DEF Victims, InGroup
    <3>5. CASE g \notin Groups
      <4>1. label[i] = g
        BY <3>3, <3>5 DEF Names, Range
      <4>2. \A j \in Ids : Listed(j) /\ label[j] = g => j = i
        BY <2>1, <4>1 DEF NameInv, Calm, Unique
      <4>3. QED
        BY <2>1, <3>2, <3>5, <4>1, <4>2 DEF Victims
    <3>6. QED
      BY <3>4, <3>5
  <2>4. QED
    BY <2>2, <2>3
<1>8. ASSUME NEW v \in Users, NEW j \in Ids, DownRemove(v, j) \/ DownMisses(v, j)
      PROVE  i \in doomed'[u]
  <2>1. /\ UNCHANGED <<label, pc, goal>> /\ doomed' = [doomed EXCEPT ![v] = @ \ {j}]
        /\ troubles = {} /\ Listed(i) /\ i # j
    BY <1>8 DEF DownRemove, DownMisses, Removed, Listed, TypeOK
  <2>2. i \in doomed[u]
    BY <2>1 DEF Marked
  <2>3. QED
    BY <2>1, <2>2 DEF TypeOK
<1>9. ASSUME NEW j \in Ids, EngineAlone(j) PROVE FALSE
  BY <1>9 DEF EngineAlone, NameInv, Calm, Alone
<1>10. CASE UNCHANGED vars
  BY <1>10 DEF Marked, vars, boxVars, userVars, Listed
<1>11. QED
  BY <1>1, <1>2, <1>3, <1>4, <1>6, <1>7, <1>8, <1>9, <1>10 DEF Next, Up, DownOf

(* Where `up's take turns and no `down' runs beside one, a `down' that     *)
(* nothing went wrong under leaves no sandbox of its group, nor of its     *)
(* preview, however many other `down's run with it.                        *)
THEOREM DownFinishes == Spec /\ []UpsInTurn /\ []Undisturbed => DownClears
<1>1. Init => Marked
  BY DEF Init, Marked
<1>2. TypeOK /\ Marked /\ [Next]_vars
        => [\A u \in Users : DownIsOver(u) /\ troubles = {}
              => Cleared(u)]_vars
  <2> SUFFICES ASSUME TypeOK, Marked, NEW u \in Users, DownIsOver(u), troubles = {}
               PROVE  Cleared(u)
    OBVIOUS
  <2>1. \A i \in Ids : ~(Listed(i) /\ label[i] \in Range(Names(goal[u])))
    BY DEF Marked, DownIsOver
  <2>2. QED
    BY <2>1 DEF ListedNames, Cleared
<1>3. QED
  BY <1>1, <1>2, MarkedStep, GroupsTyped, NamesReserved, PTL DEF Spec, DownClears
============================================================================
