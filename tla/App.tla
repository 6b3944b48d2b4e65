-------------------------------- MODULE App --------------------------------
(***************************************************************************)
(* The view model of the native app (ui-native/Peapod.swift, class Model). *)
(* Everything it shows comes from `peapod' processes run off the main      *)
(* thread: listings (refresh) and one command at a time (act).  Callbacks  *)
(* run on the main thread, one by one, in the order the processes answer.  *)
(*                                                                         *)
(* The sandboxes are abstracted to the number of changes they have seen:   *)
(* a listing is the number it read, and a larger one is more recent.       *)
(***************************************************************************)
EXTENDS Integers

CONSTANTS
    Flights,    \* listings that could be in flight at once
    MaxWorld,   \* bound: the changes to the sandboxes
    Faults      \* what may go wrong: see AllFaults

AllFaults == {"down",    \* a listing finds no engine
              "list",    \* a listing fails in another way
              "act"}     \* a command fails

ASSUME FlightsAssumption == Flights # {}
ASSUME WorldAssumption == MaxWorld \in Nat
ASSUME FaultsAssumption == Faults \subseteq AllFaults

VARIABLES
    world,          \* the changes the engine's sandboxes have seen
    flight,         \* flight[k]: a listing: not running, not read yet, or its answer
    boxes,          \* the listing on the screen
    engineDown, refreshing, refreshQueued, busy,
    command,        \* the command of act: none, running, or its answer
    flash           \* the sticky message: what it is about

listVars == <<flight, boxes, engineDown, refreshing, refreshQueued>>
actVars  == <<busy, command>>
vars == <<world, listVars, actVars, flash>>

Free   == -1        \* no listing
Unread == -2        \* a listing whose process has not read the engine yet
Down   == -3        \* the answers that carry no list
Broken == -4
Empty  == -1        \* an empty list, on the screen

Commands == {"none", "running", "ok", "failed"}
Flashes  == {"none", "list", "act", "note"}

TypeOK ==
    /\ world \in 0..MaxWorld
    /\ flight \in [Flights -> {Free, Unread, Down, Broken} \cup 0..MaxWorld]
    /\ boxes \in {Empty} \cup 0..MaxWorld
    /\ engineDown \in BOOLEAN /\ refreshing \in BOOLEAN
    /\ refreshQueued \in BOOLEAN /\ busy \in BOOLEAN
    /\ command \in Commands
    /\ flash \in Flashes

Init ==
    /\ world = 0
    /\ flight = [k \in Flights |-> Free]
    /\ boxes = Empty
    /\ engineDown = FALSE /\ refreshing = FALSE
    /\ refreshQueued = FALSE /\ busy = FALSE
    /\ command = "none"
    /\ flash = "none"

---------------------------------------------------------------------------
(* refresh().  A call while a listing is in flight is only noted.          *)

(* Launching a listing, in the state that follows f.                       *)
Launch(f) == /\ \E k \in Flights : f[k] = Free /\ flight' = [f EXCEPT ![k] = Unread]
             /\ refreshing' = TRUE

(* Mutants: a call during a listing is lost; it starts a second listing.   *)
RefreshLost == \/ refreshing /\ UNCHANGED <<flight, refreshing, refreshQueued>>
               \/ ~refreshing /\ Launch(flight) /\ UNCHANGED refreshQueued
RefreshAtOnce == Launch(flight) /\ UNCHANGED refreshQueued

Refresh ==
    \/ /\ refreshing
       /\ refreshQueued' = TRUE
       /\ UNCHANGED <<flight, refreshing>>
    \/ /\ ~refreshing
       /\ Launch(flight)
       /\ UNCHANGED refreshQueued

(* The window appears, its three-second timer fires outside a command, or  *)
(* the user asks: the button of the engine-down screen is never disabled.  *)
AskRefresh ==
    /\ ~busy \/ engineDown
    /\ Refresh
    /\ UNCHANGED <<world, boxes, engineDown, actVars, flash>>

(* The process of listing k reads the engine's sandboxes, or fails.        *)
ListRead(k) ==
    /\ flight[k] = Unread
    /\ \E a \in {world} \cup {Down : f \in Faults \cap {"down"}}
                        \cup {Broken : f \in Faults \cap {"list"}} :
          flight' = [flight EXCEPT ![k] = a]
    /\ UNCHANGED <<world, boxes, engineDown, refreshing, refreshQueued, actVars, flash>>

(* Mutant: an answer without a list is shown like any other.               *)
DisplayBlindly(a) == boxes' = a /\ engineDown' = FALSE /\ UNCHANGED flash

(* What the callback of a listing puts on the screen.                      *)
Display(a) ==
    \/ /\ a >= 0
       /\ boxes' = a /\ engineDown' = FALSE
       /\ UNCHANGED flash
    \/ /\ a = Down
       /\ boxes' = Empty /\ engineDown' = TRUE
       /\ UNCHANGED flash
    \/ /\ a = Broken
       /\ engineDown' = FALSE
       /\ flash' = "list"
       /\ UNCHANGED boxes

(* The callback of listing k, and the refresh its `defer' makes up for.    *)
ListAnswer(k) ==
    /\ flight[k] \notin {Free, Unread}
    /\ Display(flight[k])
    /\ refreshQueued' = FALSE
    /\ LET rest == [flight EXCEPT ![k] = Free] IN
          \/ refreshQueued /\ Launch(rest)
          \/ ~refreshQueued /\ flight' = rest /\ refreshing' = FALSE
    /\ UNCHANGED <<world, actVars>>

---------------------------------------------------------------------------
(* act(): create, destroy, pause, resume and snapshot.                     *)

Act ==
    /\ ~busy
    /\ busy' = TRUE
    /\ flash' = "none"
    /\ command' = "running"
    /\ UNCHANGED <<world, listVars>>

(* The command ends; it may have changed the sandboxes either way.         *)
CommandEnds ==
    /\ command = "running"
    /\ command' \in {"ok"} \cup {"failed" : f \in Faults \cap {"act"}}
    /\ world' \in {world, world + 1} \cap 0..MaxWorld
    /\ UNCHANGED <<listVars, busy, flash>>

(* Its callback: the failure is told (a snapshot tells its success), and   *)
(* the list is refreshed.                                                  *)
ActAnswer ==
    /\ command \in {"ok", "failed"}
    /\ busy' = FALSE
    /\ command' = "none"
    /\ \/ command = "ok" /\ flash' \in {flash, "note"}
       \/ command = "failed" /\ flash' = "act"
    /\ Refresh
    /\ UNCHANGED <<world, boxes, engineDown>>

Dismiss ==
    /\ flash # "none"
    /\ flash' = "none"
    /\ UNCHANGED <<world, listVars, actVars>>

(* An agent or another window changes the sandboxes.                       *)
OthersChange ==
    /\ world < MaxWorld
    /\ world' = world + 1
    /\ UNCHANGED <<listVars, actVars, flash>>

ListStep == \E k \in Flights : ListRead(k) \/ ListAnswer(k)

Next == \/ AskRefresh \/ Act \/ CommandEnds \/ ActAnswer \/ Dismiss \/ OthersChange
        \/ ListStep

Spec == Init /\ [][Next]_vars

(* Listings end and callbacks run: weak fairness of ListStep and ActAnswer *)
(* with their guards in the place of ENABLED, which TLAPS does not reason  *)
(* about.  No timer, user or command is counted on.                        *)
ListingsGoOn == []<>(\A k \in Flights : flight[k] = Free) \/ []<><<ListStep>>_vars
CallbackRuns == []<>(command \notin {"ok", "failed"}) \/ []<><<ActAnswer>>_vars

LiveSpec == Spec /\ ListingsGoOn /\ CallbackRuns

---------------------------------------------------------------------------
(* Properties.                                                             *)

(* Answers overtaking each other never make the screen go back to an older *)
(* state of the sandboxes: the flag keeps the listings in sequence.        *)
NeverGoesBack == [][boxes' >= boxes \/ boxes' = Empty]_vars

(* The screen comes to show what a command has done, or that the engine or *)
(* a listing failed, even if the command's callback finds a listing in     *)
(* flight that read the engine before, and no timer or user asks again.    *)
ShowsWhatWasDone ==
    \A v \in 0..MaxWorld :
        command \in {"ok", "failed"} /\ world = v
        ~> boxes >= v \/ engineDown \/ flash = "list"

---------------------------------------------------------------------------
(* The inductive invariant behind the theorems of AppProofs.               *)

(* The flag stands for the one listing in flight, a refresh waits only for *)
(* a listing, and no answer is older than the screen.                      *)
OneListing ==
    /\ \A j, k \in Flights : flight[j] # Free /\ flight[k] # Free => j = k
    /\ refreshing <=> \E k \in Flights : flight[k] # Free
    /\ refreshQueued => refreshing

Forward ==
    /\ boxes <= world
    /\ \A k \in Flights : flight[k] >= 0 => boxes <= flight[k] /\ flight[k] <= world

Serial == busy <=> command # "none"

AppInv == OneListing /\ Forward /\ Serial
============================================================================
