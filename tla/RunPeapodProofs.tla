-------------------------- MODULE RunPeapodProofs --------------------------
(* Proofs about RunPeapod, for pipes and texts of any size.                *)
EXTENDS RunPeapod, TLAPS

(* No step leaves the types, or loses or invents a chunk.                  *)
LEMMA PipeStep == TypeOK /\ Conserved /\ [Next]_vars => TypeOK' /\ Conserved'
<1> SUFFICES ASSUME TypeOK, Conserved, [Next]_vars PROVE TypeOK' /\ Conserved'
  OBVIOUS
<1> USE RoomAssumption DEF TypeOK, Conserved, texts, Children, Apps
<1>1. CASE Launch
  BY <1>1 DEF Launch
<1>2. CASE PrintOut
  BY <1>2 DEF PrintOut
<1>3. CASE PrintErr
  BY <1>3 DEF PrintErr
<1>4. CASE ChildGoesOn
  BY <1>4 DEF ChildGoesOn
<1>5. CASE ReadOut
  BY <1>5 DEF ReadOut
<1>6. CASE OutEnds
  BY <1>6 DEF OutEnds
<1>7. CASE ReadErr
  BY <1>7 DEF ReadErr
<1>8. CASE ErrEnds
  BY <1>8 DEF ErrEnds
<1>9. CASE WaitUntilExit
  BY <1>9 DEF WaitUntilExit, Decoded
<1>10. CASE UNCHANGED vars
  BY <1>10 DEF vars
<1>11. QED
  BY <1>1, <1>2, <1>3, <1>4, <1>5, <1>6, <1>7, <1>8, <1>9, <1>10
     DEF Next, Child, Reader

(* The pipes keep their types and every chunk is somewhere.                *)
THEOREM PipesConserve == Spec => [](TypeOK /\ Conserved)
<1>1. Init => TypeOK /\ Conserved
  BY RoomAssumption DEF Init, TypeOK, Conserved, Children, Apps
<1>2. QED
  BY <1>1, PipeStep, PTL DEF Spec

(* No pipe ever holds more than its room.                                  *)
THEOREM PipesTyped == Spec => []TypeOK
BY PipesConserve, PTL

(* Whenever a run delivers, it delivers all the child printed in UTF-8, on *)
(* either stream, however large the texts and small the pipes; of a stream *)
(* that is not UTF-8, nothing.                                             *)
THEOREM DeliversAll == Spec => []NothingLost
<1>1. TypeOK /\ Conserved => NothingLost
  BY DEF TypeOK, Conserved, NothingLost, Decoded
<1>2. QED
  BY <1>1, PipesConserve, PTL

(* Past stdout, all of stderr was in the pipe before the app read any.     *)
LEMMA PastStdout ==
  TypeOK /\ Conserved /\ WedgedByStderr /\ [Next]_vars
  => (app' \in {"err", "wait", "done"} => total'.err <= Room)
<1> SUFFICES ASSUME TypeOK, Conserved, WedgedByStderr, [Next]_vars, app' \in {"err", "wait", "done"}
             PROVE  total'.err <= Room
  OBVIOUS
<1> USE DEF TypeOK, WedgedByStderr
<1>1. CASE OutEnds
  <2>1. errLeft = 0 /\ err = 0 /\ errLeft + errPipe + err = total.err /\ total' = total
    BY <1>1 DEF OutEnds, Conserved, texts
  <2>2. QED
    BY <2>1
<1>2. CASE ~OutEnds
  <2>1. app \in {"err", "wait", "done"} /\ total' = total
    BY <1>2 DEF Next, Child, Reader, Launch, PrintOut, PrintErr, ChildGoesOn, ReadOut, ReadErr,
                ErrEnds, WaitUntilExit, vars, texts
  <2>2. QED
    BY <2>1
<1>3. QED
  BY <1>1, <1>2

(* A run that is not over can always go on, but for the one wedge: more on *)
(* stderr than the pipe holds, before the app has read all of stdout.  And *)
(* such a run never gets past stdout, whatever the sizes: the app's run    *)
(* comes back if and only if stderr fits its pipe.                         *)
THEOREM OnlyStderrWedges == Spec => []WedgedByStderr
<1>1. Init => WedgedByStderr
  BY DEF Init, WedgedByStderr, CanStep, Wedged
<1>2. TypeOK /\ Conserved /\ WedgedByStderr /\ [Next]_vars => WedgedByStderr'
  <2> SUFFICES ASSUME TypeOK, Conserved, WedgedByStderr, [Next]_vars PROVE WedgedByStderr'
    OBVIOUS
  <2>1. TypeOK' /\ Conserved'
    BY PipeStep
  <2>2. /\ app' \in {"done", "failed"} \/ Wedged' \/ CanStep'
        /\ Wedged' => total'.err > Room
    BY <2>1, RoomAssumption DEF TypeOK, Conserved, Wedged, CanStep, Children, Apps
  <2>3. QED
    BY <2>2, PastStdout DEF WedgedByStderr
<1>3. QED
  BY <1>1, <1>2, PipesConserve, PTL DEF Spec

(* And nothing the two do gets them out of it again.                       *)
THEOREM WedgeIsForEver == Spec => WedgedForEver
<1>1. TypeOK /\ [Next]_vars => [Wedged => Wedged']_vars
  BY DEF TypeOK, Next, Child, Reader, Launch, PrintOut, PrintErr, ChildGoesOn, ReadOut, OutEnds,
         ReadErr, ErrEnds, WaitUntilExit, vars, texts, Wedged
<1>2. QED
  BY <1>1, PipesTyped, PTL DEF Spec, WedgedForEver

(* Every step leaves fewer to take: a run that can always go on is over    *)
(* after so many, and one that is wedged stands still.                     *)
THEOREM EveryRunEnds == Spec => RunsOut
<1>1. TypeOK /\ Conserved /\ [Next]_vars => [StepsLeft' < StepsLeft]_vars
  <2> SUFFICES ASSUME TypeOK, Conserved, Next PROVE StepsLeft' < StepsLeft
    BY DEF vars
  <2> USE DEF StepsLeft, ChildLeft, AppLeft, TypeOK, Children, Apps
  <2>1. CASE Launch
    BY <2>1 DEF Launch, texts, Conserved
  <2>2. CASE PrintOut
    BY <2>2 DEF PrintOut
  <2>3. CASE PrintErr
    BY <2>3 DEF PrintErr
  <2>4. CASE ChildGoesOn
    BY <2>4 DEF ChildGoesOn, texts
  <2>5. CASE ReadOut
    BY <2>5 DEF ReadOut
  <2>6. CASE ReadErr
    BY <2>6 DEF ReadErr
  <2>7. CASE OutEnds \/ ErrEnds \/ WaitUntilExit
    BY <2>7 DEF OutEnds, ErrEnds, WaitUntilExit, texts
  <2>8. QED
    BY <2>1, <2>2, <2>3, <2>4, <2>5, <2>6, <2>7 DEF Next, Child, Reader
<1>2. QED
  BY <1>1, PipesConserve, PTL DEF Spec, RunsOut
============================================================================
