------------------------------- MODULE Groups -------------------------------
(***************************************************************************)
(* The CLI's commands about named sandboxes (cmd/peapod/main.go): up and   *)
(* down of the services of a peapod.json, preview up and down of a git     *)
(* branch.  Nothing reserves a name: each command lists the sandboxes once *)
(* and goes by their name labels.  Each user types one command at a time,  *)
(* and several users (terminals, agents) may be at it at once.             *)
(*                                                                         *)
(* A name is the sequence of its words: "app" and "web" in "app-web".  So  *)
(* the label starts with a group's name and a dash exactly if the group's  *)
(* words are a strict prefix of its own.                                   *)
(***************************************************************************)
EXTENDS SequencesExt

CONSTANTS
    Users,      \* who runs commands, each one at a time
    Ids,        \* sandbox identifiers
    Groups,     \* the names of manifests: sequences of words
    Manifest,   \* Manifest[g]: the services of g, sorted by name
    Previews,   \* the names previewName gives to branches
    Faults,     \* what may go wrong: see AllFaults
    NoId, NoGroup

AllFaults == {"list",    \* the listing of an `up' fails
              "find",    \* the listing of a preview's `down' fails
              "create",  \* a creation fails
              "remove",  \* a removal fails and changes nothing
              "crash"}   \* a command is interrupted

(* The sandboxes an `up' of g is to bring about, in its order.             *)
Names(g) == IF g \in Groups THEN [k \in DOMAIN Manifest[g] |-> g \o Manifest[g][k]]
            ELSE <<g>>

Goals == Groups \cup Previews
AllNames == UNION {Range(Names(g)) : g \in Goals}

ASSUME GoalsAssumption ==
    \A g \in Goals : /\ Names(g) \in Seq(AllNames)
                     /\ IsInjective(Names(g))
ASSUME PrefixAssumption ==
    \A g \in Groups : \A n \in Range(Names(g)) : IsStrictPrefix(g, n)
ASSUME NamesAssumption == NoId \notin Ids /\ NoGroup \notin Goals
ASSUME FaultsAssumption == Faults \subseteq AllFaults

VARIABLES
    box,       \* box[i]: the container of sandbox i
    label,     \* label[i]: the name it was created with
    pc,        \* pc[u]: what user u's command is doing
    goal,      \* goal[u]: the group or preview it is about
    existing,  \* existing[u]: the names its listing found
    queue,     \* queue[u]: the names an `up' has still to look at
    tgt,       \* tgt[u]: the sandbox it is creating
    doomed,    \* doomed[u]: the sandboxes a `down' has still to remove
    troubles   \* history: the faults there were that names or a `down' suffer from

boxVars  == <<box, label>>
userVars == <<pc, goal, existing, queue, tgt, doomed>>
vars == <<boxVars, userVars, troubles>>

(* "dead": docker run made the container and could not start it.           *)
BoxStates == {"unused", "pulling", "up", "dead", "none", "gone"}
Listed(i) == box[i] \in {"up", "dead"}

TypeOK ==
    /\ box \in [Ids -> BoxStates]
    /\ label \in [Ids -> AllNames \cup {<<>>}]
    /\ pc \in [Users -> {"idle", "up", "create", "down"}]
    /\ goal \in [Users -> Goals \cup {NoGroup}]
    /\ existing \in [Users -> SUBSET (AllNames \cup {<<>>})]
    /\ queue \in [Users -> Seq(AllNames)]
    /\ tgt \in [Users -> Ids \cup {NoId}]
    /\ doomed \in [Users -> SUBSET Ids]
    /\ troubles \subseteq Faults
    /\ \A u \in Users : /\ pc[u] = "create" => tgt[u] \in Ids /\ queue[u] # <<>>
                        /\ pc[u] # "idle" => goal[u] \in Goals

Init ==
    /\ box = [i \in Ids |-> "unused"]
    /\ label = [i \in Ids |-> <<>>]
    /\ pc = [u \in Users |-> "idle"]
    /\ goal = [u \in Users |-> NoGroup]
    /\ existing = [u \in Users |-> {}]
    /\ queue = [u \in Users |-> <<>>]
    /\ tgt = [u \in Users |-> NoId]
    /\ doomed = [u \in Users |-> {}]
    /\ troubles = {}

---------------------------------------------------------------------------
Goto(u, l) == pc' = [pc EXCEPT ![u] = l]

(* Mutant: the command forgets all and is not over.                        *)
NotOver(u) ==
    /\ UNCHANGED pc
    /\ goal' = [goal EXCEPT ![u] = NoGroup]
    /\ existing' = [existing EXCEPT ![u] = {}]
    /\ queue' = [queue EXCEPT ![u] = <<>>]
    /\ tgt' = [tgt EXCEPT ![u] = NoId]
    /\ doomed' = [doomed EXCEPT ![u] = {}]

(* The command of u is over.                                               *)
Exit(u) ==
    /\ Goto(u, "idle")
    /\ goal' = [goal EXCEPT ![u] = NoGroup]
    /\ existing' = [existing EXCEPT ![u] = {}]
    /\ queue' = [queue EXCEPT ![u] = <<>>]
    /\ tgt' = [tgt EXCEPT ![u] = NoId]
    /\ doomed' = [doomed EXCEPT ![u] = {}]

---------------------------------------------------------------------------
(* up, and preview up.                                                     *)

(* Mutant: a listing of the running sandboxes only.                        *)
RunningNames == {label[i] : i \in {j \in Ids : box[j] = "up"}}

(* The names of the sandboxes there are, started or not.                   *)
ListedNames == {label[i] : i \in {j \in Ids : Listed(j)}}

(* A listing that fails is taken for an empty one.                         *)
UpList(u, g) ==
    /\ pc[u] = "idle"
    /\ \/ /\ existing' = [existing EXCEPT ![u] = ListedNames]
          /\ UNCHANGED troubles
       \/ /\ "list" \in Faults
          /\ existing' = [existing EXCEPT ![u] = {}]
          /\ troubles' = troubles \cup {"list"}
    /\ goal' = [goal EXCEPT ![u] = g]
    /\ queue' = [queue EXCEPT ![u] = Names(g)]
    /\ Goto(u, "up")
    /\ UNCHANGED <<boxVars, tgt, doomed>>

(* Mutant: the first service that is up ends the command.                  *)
UpReturns(u) ==
    /\ pc[u] = "up" /\ queue[u] # <<>> /\ Head(queue[u]) \in existing[u]
    /\ queue' = [queue EXCEPT ![u] = <<>>]
    /\ UNCHANGED <<boxVars, pc, goal, existing, tgt, doomed, troubles>>

UpSkip(u) ==
    /\ pc[u] = "up" /\ queue[u] # <<>> /\ Head(queue[u]) \in existing[u]
    /\ queue' = [queue EXCEPT ![u] = Tail(@)]
    /\ UNCHANGED <<boxVars, pc, goal, existing, tgt, doomed, troubles>>

UpCreate(u, i) ==
    /\ pc[u] = "up" /\ queue[u] # <<>> /\ Head(queue[u]) \notin existing[u]
    /\ box[i] = "unused"
    /\ box' = [box EXCEPT ![i] = "pulling"]
    /\ label' = [label EXCEPT ![i] = Head(queue[u])]
    /\ tgt' = [tgt EXCEPT ![u] = i]
    /\ Goto(u, "create")
    /\ UNCHANGED <<goal, existing, queue, doomed, troubles>>

(* docker run has started the container; up goes on to the next service.   *)
CreateDone(u) ==
    /\ pc[u] = "create" /\ box[tgt[u]] = "pulling"
    /\ box' = [box EXCEPT ![tgt[u]] = "up"]
    /\ queue' = [queue EXCEPT ![u] = Tail(@)]
    /\ tgt' = [tgt EXCEPT ![u] = NoId]
    /\ Goto(u, "up")
    /\ UNCHANGED <<label, goal, existing, doomed, troubles>>

(* docker run fails, with or without having made the container, or before  *)
(* that a port is no port; the command ends there, and what it brought up  *)
(* before stays.                                                           *)
CreateFails(u) ==
    /\ pc[u] = "create" /\ box[tgt[u]] = "pulling" /\ "create" \in Faults
    /\ \E s \in {"dead", "none"} : box' = [box EXCEPT ![tgt[u]] = s]
    /\ Exit(u)
    /\ UNCHANGED <<label, troubles>>

UpEnd(u) ==
    /\ pc[u] = "up" /\ queue[u] = <<>>
    /\ Exit(u)
    /\ UNCHANGED <<boxVars, troubles>>

---------------------------------------------------------------------------
(* down, and preview down.                                                 *)

(* Mutant: only the running ones are looked at.                            *)
RunningInGroup(g) == {i \in Ids : box[i] = "up" /\ IsStrictPrefix(g, label[i])}

InGroup(g) == {i \in Ids : Listed(i) /\ IsStrictPrefix(g, label[i])}

(* down takes all the sandboxes its prefix matches, preview down the first *)
(* with its name.                                                          *)
Victims(g) ==
    IF g \in Groups THEN {InGroup(g)}
    ELSE LET same == {i \in Ids : Listed(i) /\ label[i] = g}
         IN  IF same = {} THEN {{}} ELSE {{i} : i \in same}

(* A listing that fails ends a group's `down' with an error, and is taken  *)
(* for an empty one by a preview's.                                        *)
DownList(u, g) ==
    /\ pc[u] = "idle"
    /\ \/ /\ \E found \in Victims(g) : doomed' = [doomed EXCEPT ![u] = found]
          /\ UNCHANGED troubles
       \/ /\ g \notin Groups /\ "find" \in Faults
          /\ doomed' = [doomed EXCEPT ![u] = {}]
          /\ troubles' = troubles \cup {"find"}
    /\ goal' = [goal EXCEPT ![u] = g]
    /\ Goto(u, "down")
    /\ UNCHANGED <<boxVars, existing, queue, tgt>>

Removed(u, i) == /\ pc[u] = "down" /\ i \in doomed[u]
                 /\ doomed' = [doomed EXCEPT ![u] = @ \ {i}]
                 /\ UNCHANGED <<label, pc, goal, existing, queue, tgt>>

DownRemove(u, i) ==
    /\ Removed(u, i) /\ Listed(i)
    /\ box' = [box EXCEPT ![i] = "gone"]
    /\ UNCHANGED troubles

(* Another command was faster, or the engine refuses: down goes on.        *)
DownMisses(u, i) ==
    /\ \/ ~Listed(i) /\ UNCHANGED troubles
       \/ Listed(i) /\ "remove" \in Faults /\ troubles' = troubles \cup {"remove"}
    /\ Removed(u, i)
    /\ UNCHANGED box

DownEnd(u) ==
    /\ pc[u] = "down" /\ doomed[u] = {}
    /\ Exit(u)
    /\ UNCHANGED <<boxVars, troubles>>

---------------------------------------------------------------------------
(* A command is interrupted, and the engine may still finish what it had   *)
(* been asked for.                                                         *)

Interrupt(u) ==
    /\ pc[u] # "idle" /\ "crash" \in Faults
    /\ troubles' = IF pc[u] = "create" THEN troubles \cup {"crash"} ELSE troubles
    /\ Exit(u)
    /\ UNCHANGED boxVars

EngineAlone(i) ==
    /\ box[i] = "pulling" /\ \A u \in Users : tgt[u] # i
    /\ \E s \in {"up", "dead", "none"} : box' = [box EXCEPT ![i] = s]
    /\ UNCHANGED <<label, userVars, troubles>>

Up(u) == \/ \E g \in Goals : UpList(u, g)
         \/ UpSkip(u) \/ CreateDone(u) \/ CreateFails(u) \/ UpEnd(u)
         \/ \E i \in Ids : UpCreate(u, i)

DownOf(u) == \/ \E g \in Goals : DownList(u, g)
             \/ \E i \in Ids : DownRemove(u, i) \/ DownMisses(u, i)
             \/ DownEnd(u)

Next == \/ \E u \in Users : Up(u) \/ DownOf(u) \/ Interrupt(u)
        \/ \E i \in Ids : EngineAlone(i)

Spec == Init /\ [][Next]_vars

---------------------------------------------------------------------------
(* Properties.                                                             *)

(* No listing of an `up' has failed, and no command was interrupted in a   *)
(* creation.                                                               *)
Calm == troubles \cap {"list", "crash"} = {}

(* "Um sandbox por branch": no two sandboxes have one name.  While `up's   *)
(* take turns (UpsInTurn; one user's do) it holds through every `up' that  *)
(* stopped half way and was run again, as long as listings answer and      *)
(* creations are waited for.                                               *)
Unique == \A i, j \in Ids : Listed(i) /\ Listed(j) /\ label[i] = label[j] => i = j
OnePerName == Calm => Unique

UpIsOver(u) == pc[u] = "up" /\ queue[u] = <<>> /\ pc'[u] = "idle"
Wanted(u) == Range(Names(goal[u]))

(* An `up' that ends without an error leaves a sandbox for every service,  *)
(* those an earlier one failed at, was interrupted in, or did not come to  *)
(* included.                                                               *)
UpCompletes ==
    [][\A u \in Users : UpIsOver(u) => Wanted(u) \subseteq ListedNames]_vars

(* No `down' runs while an `up' does; no two `up's run at once.  Both are  *)
(* so with one user.                                                       *)
Upping(u) == pc[u] \in {"up", "create"}
Undisturbed == \A u, v \in Users : Upping(u) => pc[v] # "down"
UpsInTurn == \A u, v \in Users : Upping(u) /\ Upping(v) => u = v

DownIsOver(u) == pc[u] = "down" /\ doomed[u] = {} /\ pc'[u] = "idle"

Cleared(u) == Range(Names(goal[u])) \cap ListedNames = {}

(* A `down' that ends leaves no sandbox of its group or preview, the ones  *)
(* an `up' could not start included, if nothing ever went wrong under it:  *)
(* a preview's `down' removes one of two namesakes and takes a listing     *)
(* that fails for an empty one, and a removal that fails is passed over.   *)
DownClears ==
    [][\A u \in Users : DownIsOver(u) /\ troubles = {} => Cleared(u)]_vars

---------------------------------------------------------------------------
(* The inductive invariant behind OnePerName while `up's take turns.       *)

(* A name still in the queue has a sandbox only if the listing found it,   *)
(* and only the sandbox being created is neither listed nor over.          *)
Reserved ==
    \A u \in Users :
        /\ IsInjective(queue[u])
        /\ pc[u] \in {"up", "create"} =>
              \A i \in Ids : Listed(i) /\ label[i] \in Range(queue[u]) => label[i] \in existing[u]
        /\ pc[u] = "create" => /\ label[tgt[u]] = Head(queue[u])
                               /\ Head(queue[u]) \notin existing[u]

Alone == \A i \in Ids : box[i] = "pulling" => \E u \in Users : pc[u] = "create" /\ tgt[u] = i

NameInv == Calm => Unique /\ Reserved /\ Alone
============================================================================
