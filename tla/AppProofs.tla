----------------------------- MODULE AppProofs -----------------------------
(* Proofs about App, for any number of listings and changes.               *)
EXTENDS App, TLAPS

(* The parts of TypeOK: numbers, and flags and strings.                    *)
Numbers == /\ world \in 0..MaxWorld
           /\ flight \in [Flights -> {Free, Unread, Down, Broken} \cup 0..MaxWorld]
           /\ boxes \in {Empty} \cup 0..MaxWorld

Flags == /\ engineDown \in BOOLEAN /\ refreshing \in BOOLEAN
         /\ refreshQueued \in BOOLEAN /\ busy \in BOOLEAN
         /\ command \in Commands
         /\ flash \in Flashes

LEMMA TypeParts == TypeOK <=> Numbers /\ Flags
  BY DEF TypeOK, Numbers, Flags

(* refresh() launches a listing only when there is none.                   *)
LEMMA RefreshStep ==
  ASSUME Numbers, Flags, OneListing, Forward, Refresh, UNCHANGED <<world, boxes>>
  PROVE  /\ Numbers' /\ OneListing' /\ Forward'
         /\ refreshing' \in BOOLEAN /\ refreshQueued' \in BOOLEAN
<1>1. CASE refreshing /\ refreshQueued' = TRUE /\ UNCHANGED <<flight, refreshing>>
  BY <1>1 DEF Numbers, Flags, OneListing, Forward
<1>2. CASE ~refreshing /\ Launch(flight) /\ UNCHANGED refreshQueued
  <2>1. PICK k \in Flights : flight' = [flight EXCEPT ![k] = Unread]
    BY <1>2 DEF Launch
  <2>2. \A j \in Flights : flight[j] = Free
    BY <1>2 DEF OneListing
  <2>3. \A j \in Flights : flight'[j] = IF j = k THEN Unread ELSE Free
    BY <2>1, <2>2 DEF Numbers
  <2>4. Numbers'
    BY <2>1 DEF Numbers
  <2>5. refreshing' = TRUE
    BY <1>2 DEF Launch
  <2>6. OneListing'
    BY <1>2, <2>3, <2>5 DEF OneListing, Free, Unread
  <2>7. Forward'
    BY <2>3 DEF Forward, Free, Unread
  <2>8. QED
    BY <1>2, <2>4, <2>5, <2>6, <2>7 DEF Flags
<1>3. QED
  BY <1>1, <1>2 DEF Refresh

(* The callback of a listing frees it before it may launch the next.       *)
LEMMA AnswerStep ==
  ASSUME Numbers, Flags, OneListing, Forward, NEW k \in Flights, ListAnswer(k)
  PROVE  /\ Numbers' /\ Flags' /\ OneListing' /\ Forward'
         /\ boxes' >= boxes \/ boxes' = Empty
<1> DEFINE rest == [flight EXCEPT ![k] = Free]
<1>1. /\ boxes' \in {Empty} \cup 0..MaxWorld /\ boxes' <= world
      /\ boxes' >= boxes \/ boxes' = Empty
  <2>1. flight[k] \in {Down, Broken} \cup 0..MaxWorld
    BY DEF ListAnswer, Numbers
  <2>2. flight[k] >= 0 => boxes <= flight[k] /\ flight[k] <= world
    BY DEF Forward
  <2>3. CASE flight[k] >= 0 /\ boxes' = flight[k]
    BY <2>1, <2>2, <2>3, WorldAssumption DEF Down, Broken
  <2>4. CASE boxes' = Empty
    BY <2>4 DEF Empty, Numbers
  <2>5. CASE boxes' = boxes
    BY <2>5, WorldAssumption DEF Numbers, Forward, Empty
  <2>6. QED
    BY <2>3, <2>4, <2>5 DEF ListAnswer, Display
<1>2. /\ engineDown' \in BOOLEAN /\ flash' \in Flashes /\ refreshQueued' = FALSE
      /\ world' = world /\ busy' = busy /\ command' = command
  BY DEF ListAnswer, Display, Flags, Flashes, actVars
<1>3. \A j \in Flights : rest[j] = Free
  BY Zenon DEF ListAnswer, Numbers, OneListing
<1>4. CASE refreshQueued /\ Launch(rest)
  <2>1. PICK j \in Flights : flight' = [rest EXCEPT ![j] = Unread]
    BY <1>4 DEF Launch
  <2>2. \A i \in Flights : flight'[i] = IF i = j THEN Unread ELSE Free
    BY <1>3, <2>1 DEF Numbers
  <2>3. flight' \in [Flights -> {Free, Unread, Down, Broken} \cup 0..MaxWorld]
    BY <2>1 DEF Numbers
  <2>4. refreshing' = TRUE
    BY <1>4 DEF Launch
  <2>5. OneListing'
    BY <1>2, <2>2, <2>4 DEF OneListing, Free, Unread
  <2>6. Forward'
    BY <1>1, <1>2, <2>2 DEF Forward, Free, Unread
  <2>7. QED
    BY <1>1, <1>2, <2>3, <2>4, <2>5, <2>6 DEF Numbers, Flags
<1>5. CASE ~refreshQueued /\ flight' = rest /\ refreshing' = FALSE
  <2>1. flight' \in [Flights -> {Free, Unread, Down, Broken} \cup 0..MaxWorld]
    BY <1>5 DEF Numbers
  <2>2. OneListing'
    BY <1>2, <1>3, <1>5 DEF OneListing
  <2>3. Forward'
    BY <1>1, <1>2, <1>3, <1>5 DEF Forward, Free
  <2>4. QED
    BY <1>1, <1>2, <1>5, <2>1, <2>2, <2>3 DEF Numbers, Flags
<1>6. QED
  BY <1>4, <1>5 DEF ListAnswer

(* A step outside the listings leaves them in order.                       *)
LEMMA ElsewhereStep ==
  ASSUME Numbers, OneListing, Forward, UNCHANGED listVars,
         world' \in 0..MaxWorld, world <= world'
  PROVE  Numbers' /\ OneListing' /\ Forward' /\ boxes' = boxes
<1>1. UNCHANGED <<flight, boxes, refreshing, refreshQueued>>
  BY DEF listVars
<1>2. Numbers'
  BY <1>1 DEF Numbers
<1>3. OneListing'
  BY <1>1 DEF OneListing
<1>4. boxes <= world'
  BY WorldAssumption DEF Numbers, Forward, Empty
<1>5. ASSUME NEW k \in Flights, flight[k] >= 0
      PROVE  flight[k] <= world'
  BY <1>5, WorldAssumption DEF Numbers, Forward, Free, Unread, Down, Broken
<1>6. Forward'
  BY <1>1, <1>4, <1>5 DEF Forward
<1>7. QED
  BY <1>1, <1>2, <1>3, <1>6

(* Every step keeps the invariant, and none puts an older list on the      *)
(* screen.                                                                 *)
LEMMA AppStep ==
  ASSUME TypeOK, AppInv, [Next]_vars
  PROVE  TypeOK' /\ AppInv' /\ (boxes' >= boxes \/ boxes' = Empty)
<1>0. Numbers /\ Flags /\ OneListing /\ Forward /\ Serial
  BY TypeParts DEF AppInv
<1>a. boxes >= boxes /\ world \in 0..MaxWorld /\ world <= world
  BY <1>0, WorldAssumption DEF Numbers, Empty
<1> DEFINE Good == /\ Numbers' /\ Flags' /\ OneListing' /\ Forward' /\ Serial'
                   /\ boxes' >= boxes \/ boxes' = Empty
<1>1. ASSUME AskRefresh
      PROVE  Good
  <2>1. Refresh /\ UNCHANGED <<world, boxes, engineDown, busy, command, flash>>
    BY <1>1 DEF AskRefresh, actVars
  <2>2. Numbers' /\ OneListing' /\ Forward' /\ refreshing' \in BOOLEAN /\ refreshQueued' \in BOOLEAN
    BY <1>0, <2>1, RefreshStep
  <2>3. Flags' /\ Serial'
    BY <1>0, <2>1, <2>2 DEF Flags, Serial
  <2>4. QED
    BY <1>a, <2>1, <2>2, <2>3
<1>2. ASSUME Act
      PROVE  Good
  <2>1. UNCHANGED <<world, listVars>>
    BY <1>2 DEF Act
  <2>2. Numbers' /\ OneListing' /\ Forward' /\ boxes' = boxes
    BY <1>0, <1>a, <2>1, ElsewhereStep
  <2>3. Flags' /\ Serial'
    BY <1>0, <1>2 DEF Act, Flags, Serial, listVars, Commands, Flashes
  <2>4. QED
    BY <1>a, <2>2, <2>3
<1>3. ASSUME CommandEnds
      PROVE  Good
  <2>1. UNCHANGED listVars /\ world' \in 0..MaxWorld /\ world <= world'
    BY <1>a, <1>3, WorldAssumption DEF CommandEnds
  <2>2. Numbers' /\ OneListing' /\ Forward' /\ boxes' = boxes
    BY <1>0, <2>1, ElsewhereStep
  <2>3. command' \in {"ok", "failed"} /\ command = "running" /\ UNCHANGED <<busy, flash>>
    BY <1>3 DEF CommandEnds
  <2>4. Flags' /\ Serial'
    BY <1>0, <2>1, <2>3 DEF Flags, Serial, listVars, Commands
  <2>5. QED
    BY <1>a, <2>2, <2>4
<1>4. ASSUME ActAnswer
      PROVE  Good
  <2>1. /\ Refresh /\ UNCHANGED <<world, boxes, engineDown>>
        /\ busy' = FALSE /\ command' = "none"
    BY <1>4 DEF ActAnswer
  <2>2. flash' \in Flashes
    BY <1>0, <1>4 DEF ActAnswer, Flags, Flashes
  <2>3. Numbers' /\ OneListing' /\ Forward' /\ refreshing' \in BOOLEAN /\ refreshQueued' \in BOOLEAN
    BY <1>0, <2>1, RefreshStep
  <2>4. Flags' /\ Serial'
    BY <1>0, <2>1, <2>2, <2>3 DEF Flags, Serial, Commands
  <2>5. QED
    BY <1>a, <2>1, <2>3, <2>4
<1>5. ASSUME Dismiss
      PROVE  Good
  <2>1. UNCHANGED <<world, listVars, busy, command>> /\ flash' \in Flashes
    BY <1>5 DEF Dismiss, actVars, Flashes
  <2>2. Numbers' /\ OneListing' /\ Forward' /\ boxes' = boxes
    BY <1>0, <1>a, <2>1, ElsewhereStep
  <2>3. Flags' /\ Serial'
    BY <1>0, <2>1 DEF Flags, Serial, listVars
  <2>4. QED
    BY <1>a, <2>2, <2>3
<1>6. ASSUME OthersChange
      PROVE  Good
  <2>1. UNCHANGED <<listVars, busy, command, flash>> /\ world' \in 0..MaxWorld /\ world <= world'
    BY <1>a, <1>6, WorldAssumption DEF OthersChange, actVars
  <2>2. Numbers' /\ OneListing' /\ Forward' /\ boxes' = boxes
    BY <1>0, <2>1, ElsewhereStep
  <2>3. Flags' /\ Serial'
    BY <1>0, <2>1 DEF Flags, Serial, listVars
  <2>4. QED
    BY <1>a, <2>2, <2>3
<1>7. ASSUME NEW k \in Flights, ListRead(k)
      PROVE  Good
  <2>1. PICK a \in {world, Down, Broken} : flight' = [flight EXCEPT ![k] = a]
    BY <1>7 DEF ListRead
  <2>2. UNCHANGED <<world, boxes, engineDown, refreshing, refreshQueued, busy, command, flash>>
    BY <1>7 DEF ListRead, actVars
  <2>3. flight[k] = Unread
    BY <1>7 DEF ListRead
  <2>4. Numbers'
    BY <1>0, <1>a, <2>1, <2>2 DEF Numbers
  <2>5. a # Free /\ flight[k] # Free
    BY <1>a, <2>1, <2>3, WorldAssumption DEF Down, Broken, Free, Unread
  <2>6. \A j \in Flights : flight'[j] # Free <=> flight[j] # Free
    BY <1>0, <2>1, <2>5 DEF Numbers
  <2>7. OneListing'
    BY <1>0, <2>2, <2>6 DEF OneListing
  <2>8. Forward'
    BY <1>0, <1>a, <2>1, <2>2, WorldAssumption DEF Numbers, Forward, Down, Broken
  <2>9. Flags' /\ Serial'
    BY <1>0, <2>2 DEF Flags, Serial
  <2>10. QED
    BY <1>a, <2>2, <2>4, <2>7, <2>8, <2>9
<1>8. ASSUME NEW k \in Flights, ListAnswer(k)
      PROVE  Good
  BY <1>0, <1>8, AnswerStep DEF Serial, ListAnswer, actVars
<1>9. ASSUME UNCHANGED vars
      PROVE  Good
  <2>1. UNCHANGED <<world, listVars, busy, command, flash>>
    BY <1>9 DEF vars, actVars
  <2>2. Numbers' /\ OneListing' /\ Forward' /\ boxes' = boxes
    BY <1>0, <1>a, <2>1, ElsewhereStep
  <2>3. Flags' /\ Serial'
    BY <1>0, <2>1 DEF Flags, Serial, listVars
  <2>4. QED
    BY <1>a, <2>2, <2>3
<1>10. Good
  BY <1>1, <1>2, <1>3, <1>4, <1>5, <1>6, <1>7, <1>8, <1>9 DEF Next, ListStep
<1>11. QED
  BY <1>10 DEF Numbers, Flags, TypeOK, AppInv

(* Types and the invariant hold: one listing at a time, none older than    *)
(* what is on the screen.                                                  *)
THEOREM AppSafe == Spec => [](TypeOK /\ AppInv)
<1>1. Init => TypeOK /\ AppInv
  <2> SUFFICES ASSUME Init PROVE TypeOK /\ AppInv
    OBVIOUS
  <2>1. world \in 0..MaxWorld
    BY WorldAssumption DEF Init
  <2>2. flight \in [Flights -> {Free, Unread, Down, Broken} \cup 0..MaxWorld]
    BY DEF Init
  <2>3. boxes \in {Empty} \cup 0..MaxWorld
    BY DEF Init
  <2>4. engineDown \in BOOLEAN /\ refreshing \in BOOLEAN /\ refreshQueued \in BOOLEAN /\ busy \in BOOLEAN
    BY DEF Init
  <2>5. command \in Commands /\ flash \in Flashes
    BY DEF Init, Commands, Flashes
  <2>6. Forward
    BY DEF Init, Forward, Free, Empty
  <2>7. OneListing
    BY Zenon DEF Init, OneListing
  <2>8. Serial
    BY DEF Init, Serial
  <2>9. QED
    BY <2>1, <2>2, <2>3, <2>4, <2>5, <2>6, <2>7, <2>8 DEF TypeOK, AppInv
<1>2. QED
  BY <1>1, AppStep, PTL DEF Spec

(* Every variable of the view model keeps its type.                        *)
THEOREM AppTyped == Spec => []TypeOK
BY AppSafe, PTL

(* The screen never goes back to an older state of the sandboxes.          *)
THEOREM ScreenMovesOn == Spec => NeverGoesBack
<1>1. TypeOK /\ AppInv /\ [Next]_vars => [boxes' >= boxes \/ boxes' = Empty]_vars
  BY AppStep
<1>2. QED
  BY <1>1, AppSafe, PTL DEF Spec, NeverGoesBack

---------------------------------------------------------------------------
(* What a command did comes to be shown.  For a change number v, once the  *)
(* command has ended: a listing that may be too old is in flight and a     *)
(* refresh waits for it, a listing has yet to read the engine, or a        *)
(* listing has read what was done, or failed.                              *)

Queued(v) == world >= v /\ refreshQueued /\ \E k \in Flights : flight[k] \notin {Free, Unread}
Asked(v) == world >= v /\ \E k \in Flights : flight[k] = Unread
Known(v) == \E k \in Flights : flight[k] >= v \/ flight[k] \in {Down, Broken}
Told(v) == boxes >= v \/ engineDown \/ flash = "list"
Done(v) == world >= v /\ command \in {"ok", "failed"}

(* Until it reads or answers, the listing in flight stays as it is, and so *)
(* does a refresh that waits for it; the engine's sandboxes only move on.  *)
LEMMA ListingStays ==
  ASSUME TypeOK, AppInv, [Next]_vars, ~ListStep, NEW k \in Flights, flight[k] # Free
  PROVE  /\ flight' = flight /\ (refreshQueued => refreshQueued')
         /\ world \in Nat /\ world' \in Nat /\ world' >= world
<1>1. refreshing
  BY DEF AppInv, OneListing
<1>2. world \in Nat
  BY WorldAssumption DEF TypeOK
<1>3. CASE Refresh /\ UNCHANGED world
  BY <1>1, <1>2, <1>3 DEF Refresh
<1>4. CASE UNCHANGED <<flight, refreshQueued>> /\ world' \in {world, world + 1}
  BY <1>2, <1>4
<1>5. \/ Refresh /\ UNCHANGED world
      \/ UNCHANGED <<flight, refreshQueued>> /\ world' \in {world, world + 1}
  BY DEF Next, AskRefresh, Act, CommandEnds, ActAnswer, Dismiss, OthersChange, vars, listVars
<1>6. QED
  BY <1>3, <1>4, <1>5

(* A step of a listing is a step of the one in flight.                     *)
LEMMA OneSteps ==
  ASSUME AppInv, ListStep, NEW k \in Flights, flight[k] # Free
  PROVE  ListRead(k) \/ ListAnswer(k)
<1>1. PICK j \in Flights : ListRead(j) \/ ListAnswer(j)
  BY DEF ListStep
<1>2. flight[j] # Free
  BY <1>1 DEF ListRead, ListAnswer, Unread, Free
<1>3. QED
  BY <1>1, <1>2 DEF AppInv, OneListing

(* Each part of the way is kept until the listing's next step, and that    *)
(* step leads to the next part.                                            *)
LEMMA QueuedStep ==
  ASSUME TypeOK, AppInv, [Next]_vars, NEW v \in 0..MaxWorld, Queued(v)
  PROVE  /\ Queued(v)' \/ Asked(v)'
         /\ ListStep => Asked(v)'
<1>1. PICK k \in Flights : flight[k] \notin {Free, Unread}
  BY DEF Queued
<1>2. CASE ~ListStep
  <2>1. /\ flight' = flight /\ (refreshQueued => refreshQueued')
        /\ world \in Nat /\ world' \in Nat /\ world' >= world
    BY <1>1, <1>2, ListingStays
  <2>2. world' >= v
    BY <2>1, WorldAssumption DEF Queued
  <2>3. QED
    BY <1>1, <1>2, <2>1, <2>2 DEF Queued
<1>3. CASE ListStep
  <2>1. ListAnswer(k)
    BY <1>1, <1>3, OneSteps DEF ListRead
  <2>2. PICK j \in Flights : flight' = [[flight EXCEPT ![k] = Free] EXCEPT ![j] = Unread]
    BY <2>1 DEF ListAnswer, Launch, Queued
  <2>3. flight'[j] = Unread /\ world' = world
    BY <2>1, <2>2 DEF TypeOK, ListAnswer
  <2>4. QED
    BY <2>3 DEF Asked, Queued
<1>4. QED
  BY <1>2, <1>3

LEMMA AskedStep ==
  ASSUME TypeOK, AppInv, [Next]_vars, NEW v \in 0..MaxWorld, Asked(v)
  PROVE  /\ Asked(v)' \/ Known(v)'
         /\ ListStep => Known(v)'
<1>1. PICK k \in Flights : flight[k] = Unread
  BY DEF Asked
<1>2. CASE ~ListStep
  <2>1. flight[k] # Free
    BY <1>1 DEF Free, Unread
  <2>2. flight' = flight /\ world \in Nat /\ world' \in Nat /\ world' >= world
    BY <1>1, <1>2, <2>1, ListingStays
  <2>3. world' >= v
    BY <2>2, WorldAssumption DEF Asked
  <2>4. QED
    BY <1>1, <1>2, <2>2, <2>3 DEF Asked
<1>3. CASE ListStep
  <2>1. flight[k] # Free
    BY <1>1 DEF Free, Unread
  <2>2. ListRead(k)
    BY <1>1, <1>3, <2>1, OneSteps DEF ListAnswer
  <2>3. flight'[k] \in {world, Down, Broken}
    BY <2>2 DEF ListRead, TypeOK
  <2>4. QED
    BY <2>3 DEF Known, Asked
<1>4. QED
  BY <1>2, <1>3

LEMMA KnownStep ==
  ASSUME TypeOK, AppInv, [Next]_vars, NEW v \in 0..MaxWorld, Known(v)
  PROVE  /\ Known(v)' \/ Told(v)'
         /\ ListStep => Told(v)'
<1>1. PICK k \in Flights : flight[k] >= v \/ flight[k] \in {Down, Broken}
  BY DEF Known
<1>2. flight[k] \notin {Free, Unread} /\ (flight[k] >= 0 => flight[k] >= v)
  BY <1>1, WorldAssumption DEF Free, Unread, Down, Broken
<1>3. CASE ~ListStep
  BY <1>1, <1>2, <1>3, ListingStays DEF Known
<1>4. CASE ListStep
  <2>1. ListAnswer(k)
    BY <1>2, <1>4, OneSteps DEF ListRead
  <2>2. QED
    BY <1>2, <2>1 DEF ListAnswer, Display, Told
<1>5. QED
  BY <1>3, <1>4

(* When the command's callback has run, a listing will read the engine.    *)
LEMMA DoneStep ==
  ASSUME TypeOK, AppInv, [Next]_vars, NEW v \in 0..MaxWorld, Done(v)
  PROVE  /\ Done(v)' \/ Queued(v)' \/ Asked(v)'
         /\ ActAnswer => Queued(v)' \/ Asked(v)'
<1>1. CASE ActAnswer
  <2>1. world' = world /\ world >= v /\ Refresh
    BY <1>1 DEF ActAnswer, Done
  <2>2. CASE refreshing /\ refreshQueued' = TRUE /\ UNCHANGED flight
    <3>1. PICK k \in Flights : flight'[k] # Free
      BY <2>2 DEF AppInv, OneListing
    <3>2. QED
      BY <2>1, <2>2, <3>1 DEF Queued, Asked
  <2>3. CASE Launch(flight)
    BY <2>1, <2>3 DEF Launch, Asked, TypeOK
  <2>4. QED
    BY <2>1, <2>2, <2>3 DEF Refresh
<1>2. CASE ~ActAnswer
  <2>1. ~Act /\ ~CommandEnds
    BY DEF Done, AppInv, Serial, Act, CommandEnds
  <2>2. CASE ListStep
    BY <1>2, <2>2 DEF ListStep, ListRead, ListAnswer, actVars, Done
  <2>3. CASE AskRefresh \/ Dismiss \/ UNCHANGED vars
    BY <1>2, <2>3 DEF AskRefresh, Dismiss, vars, actVars, Done
  <2>4. CASE OthersChange
    <3>1. world \in Nat /\ world' = world + 1 /\ command' = command
      BY <2>4, WorldAssumption DEF OthersChange, actVars, TypeOK
    <3>2. QED
      BY <1>2, <3>1, WorldAssumption DEF Done
  <2>5. QED
    BY <1>2, <2>1, <2>2, <2>3, <2>4 DEF Next
<1>3. QED
  BY <1>1, <1>2

(* The screen comes to show what a command has done, or that the engine or *)
(* a listing failed, whatever listings are in flight when it ends and      *)
(* however the sandboxes go on changing.                                   *)
THEOREM WhatWasDoneShows == LiveSpec => ShowsWhatWasDone
<1>1. ASSUME NEW v \in 0..MaxWorld
      PROVE  LiveSpec => (command \in {"ok", "failed"} /\ world = v
                          ~> boxes >= v \/ engineDown \/ flash = "list")
  <2> DEFINE InFlight == ~(\A k \in Flights : flight[k] = Free)
             Waiting == command \in {"ok", "failed"} /\ world = v
  <2>1. TypeOK /\ AppInv /\ [Next]_vars /\ Done(v) => (Done(v) \/ Queued(v) \/ Asked(v))'
    BY DoneStep
  <2>2. TypeOK /\ AppInv /\ <<ActAnswer>>_vars /\ Done(v) => (Queued(v) \/ Asked(v))'
    BY DoneStep DEF Next
  <2>3. TypeOK /\ AppInv /\ [Next]_vars /\ Queued(v) => (Queued(v) \/ Asked(v))'
    BY QueuedStep
  <2>4. TypeOK /\ AppInv /\ <<ListStep>>_vars /\ Queued(v) => Asked(v)'
    BY QueuedStep DEF Next
  <2>5. TypeOK /\ AppInv /\ [Next]_vars /\ Asked(v) => (Asked(v) \/ Known(v))'
    BY AskedStep
  <2>6. TypeOK /\ AppInv /\ <<ListStep>>_vars /\ Asked(v) => Known(v)'
    BY AskedStep DEF Next
  <2>7. TypeOK /\ AppInv /\ [Next]_vars /\ Known(v) => (Known(v) \/ Told(v))'
    BY KnownStep
  <2>8. TypeOK /\ AppInv /\ <<ListStep>>_vars /\ Known(v) => Told(v)'
    BY KnownStep DEF Next
  <2>9. /\ Done(v) => ~(command \notin {"ok", "failed"})
        /\ Queued(v) \/ Asked(v) \/ Known(v) => InFlight
    BY WorldAssumption DEF Done, Queued, Asked, Known, Free, Unread, Down, Broken
  <2>10. TypeOK /\ Waiting => Done(v)
    BY WorldAssumption DEF Done, TypeOK
  <2>11. Told(v) => boxes >= v \/ engineDown \/ flash = "list"
    BY DEF Told
  <2>12. QED
    BY <2>1, <2>2, <2>3, <2>4, <2>5, <2>6, <2>7, <2>8, <2>9, <2>10, <2>11, AppSafe, PTL
    DEF Spec, LiveSpec, ListingsGoOn, CallbackRuns
<1>2. QED
  BY <1>1 DEF ShowsWhatWasDone
=============================================================================
