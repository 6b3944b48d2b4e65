----------------------------- MODULE RunPeapod -----------------------------
(***************************************************************************)
(* How the native app runs the CLI (runPeapod, ui-native/Peapod.swift):    *)
(* the child prints what its command wrote to stdout, then what it wrote   *)
(* to stderr (cmd/peapod/main.go, sandbox exec), into two pipes that hold  *)
(* so much and no more; the app reads one to its end, then the other, then *)
(* waits for the child and turns what it has read into strings.  Text is   *)
(* counted in chunks.                                                      *)
(***************************************************************************)
EXTENDS Naturals

CONSTANTS
    Room,        \* what a pipe holds
    MaxOut,      \* bound: the longest stdout
    MaxErr       \* bound: the longest stderr

ASSUME RoomAssumption == Room \in Nat \ {0} /\ MaxOut \in Nat /\ MaxErr \in Nat

VARIABLES
    outLeft, errLeft,   \* what the child has still to print on each
    outPipe, errPipe,   \* what the pipes hold
    out, err,           \* what the app has read
    total,              \* what the child had to print, on stdout and stderr
    utf8,               \* whether that is UTF-8: a command prints what bytes it likes
    handed,             \* the strings the run hands over
    child,              \* "none", "out", "err" (printing there), "exited"
    app                 \* "start", "out", "err" (reading there), "wait", "done", "failed"

texts == <<outLeft, errLeft, outPipe, errPipe, out, err, total, utf8>>
vars == <<texts, handed, child, app>>

Children == {"none", "out", "err", "exited"}
Apps == {"start", "out", "err", "wait", "done", "failed"}

TypeOK ==
    /\ outLeft \in Nat /\ errLeft \in Nat
    /\ outPipe \in 0..Room /\ errPipe \in 0..Room
    /\ out \in Nat /\ err \in Nat
    /\ total \in [out : 0..MaxOut, err : 0..MaxErr]
    /\ utf8 \in [out : BOOLEAN, err : BOOLEAN]
    /\ handed \in [out : Nat, err : Nat]
    /\ child \in Children
    /\ app \in Apps

Init ==
    /\ total \in [out : 0..MaxOut, err : 0..MaxErr]
    /\ utf8 \in [out : BOOLEAN, err : BOOLEAN]
    /\ outLeft = total.out /\ errLeft = total.err
    /\ outPipe = 0 /\ errPipe = 0
    /\ out = 0 /\ err = 0
    /\ handed = [out |-> 0, err |-> 0]
    /\ child = "none"
    /\ app = "start"

---------------------------------------------------------------------------
(* The child.  A write blocks while its pipe is full.                      *)

(* Mutant: a write never blocks.                                           *)
PrintUnbounded ==
    /\ child = "out" /\ outLeft > 0
    /\ outLeft' = outLeft - 1
    /\ outPipe' = outPipe + 1
    /\ UNCHANGED <<errLeft, errPipe, out, err, total, utf8, handed, child, app>>

PrintOut ==
    /\ child = "out" /\ outLeft > 0 /\ outPipe < Room
    /\ outLeft' = outLeft - 1
    /\ outPipe' = outPipe + 1
    /\ UNCHANGED <<errLeft, errPipe, out, err, total, utf8, handed, child, app>>

PrintErr ==
    /\ child = "err" /\ errLeft > 0 /\ errPipe < Room
    /\ errLeft' = errLeft - 1
    /\ errPipe' = errPipe + 1
    /\ UNCHANGED <<outLeft, outPipe, out, err, total, utf8, handed, child, app>>

ChildGoesOn ==
    /\ \/ child = "out" /\ outLeft = 0 /\ child' = "err"
       \/ child = "err" /\ errLeft = 0 /\ child' = "exited"
    /\ UNCHANGED <<texts, handed, app>>

---------------------------------------------------------------------------
(* The app.  readDataToEndOfFile returns once the child has exited, which  *)
(* closes both pipes, and the pipe is empty.                               *)

(* Mutant: the child is waited for before its output is read.              *)
LaunchThenWait ==
    /\ app = "start"
    /\ \/ app' = "wait" /\ child' = "out"
       \/ app' = "failed" /\ UNCHANGED child
    /\ UNCHANGED <<texts, handed>>

Launch ==
    /\ app = "start"
    /\ \/ app' = "out" /\ child' = "out"
       \/ app' = "failed" /\ UNCHANGED child
    /\ UNCHANGED <<texts, handed>>

ReadOut ==
    /\ app = "out" /\ outPipe > 0
    /\ outPipe' = outPipe - 1
    /\ out' = out + 1
    /\ UNCHANGED <<outLeft, errLeft, errPipe, err, total, utf8, handed, child, app>>

(* Mutant: stdout counts as read while the child may still print.          *)
OutEndsEarly ==
    /\ app = "out" /\ outPipe = 0
    /\ app' = "err"
    /\ UNCHANGED <<texts, handed, child>>

OutEnds ==
    /\ app = "out" /\ outPipe = 0 /\ child = "exited"
    /\ app' = "err"
    /\ UNCHANGED <<texts, handed, child>>

ReadErr ==
    /\ app = "err" /\ errPipe > 0
    /\ errPipe' = errPipe - 1
    /\ err' = err + 1
    /\ UNCHANGED <<outLeft, errLeft, outPipe, out, total, utf8, handed, child, app>>

ErrEnds ==
    /\ app = "err" /\ errPipe = 0 /\ child = "exited"
    /\ app' = "wait"
    /\ UNCHANGED <<texts, handed, child>>

(* String(data:encoding:.utf8) ?? "": of bytes that are not UTF-8, nothing. *)
Decoded(n, isUtf8) == IF isUtf8 THEN n ELSE 0

WaitUntilExit ==
    /\ app = "wait" /\ child = "exited"
    /\ app' = "done"
    /\ handed' = [out |-> Decoded(out, utf8.out), err |-> Decoded(err, utf8.err)]
    /\ UNCHANGED <<texts, child>>

Child == PrintOut \/ PrintErr \/ ChildGoesOn
Reader == ReadOut \/ OutEnds \/ ReadErr \/ ErrEnds \/ WaitUntilExit

Next == Launch \/ Child \/ Reader

Spec == Init /\ [][Next]_vars

(* Both processes run on.                                                  *)
LiveSpec == Spec /\ WF_vars(Launch) /\ WF_vars(Child) /\ WF_vars(Reader)

---------------------------------------------------------------------------
(* Properties.                                                             *)

(* What run hands to its callback is all the child printed on a stream, if *)
(* that was UTF-8, whatever came on the other one, and never a part of it. *)
NothingLost ==
    app = "done" => /\ handed.out = total.out \/ (~utf8.out /\ handed.out = 0)
                    /\ handed.err = total.err \/ (~utf8.err /\ handed.err = 0)

(* "Runs peapod off the main thread and delivers the result": every run    *)
(* whose stderr fits its pipe comes back, whatever else it prints.         *)
FittingRunEnds == total.err <= Room ~> app \in {"done", "failed"}

(* The child waits for room on stderr, the app for the end of stdout.      *)
Wedged == app = "out" /\ outPipe = 0 /\ child = "err" /\ errLeft > 0 /\ errPipe = Room

(* A step of either process can be taken: its guards, spelled out.         *)
CanStep ==
    \/ app = "start"
    \/ child = "out" /\ (outLeft = 0 \/ outPipe < Room)
    \/ child = "err" /\ (errLeft = 0 \/ errPipe < Room)
    \/ app = "out" /\ (outPipe > 0 \/ child = "exited")
    \/ app = "err" /\ (errPipe > 0 \/ child = "exited")
    \/ app = "wait" /\ child = "exited"

(* A run that is not over either goes on or is wedged by its stderr, which *)
(* the app reads too late: it is wedged only if the child prints more      *)
(* there than the pipe holds, and gets past stdout only if it does not.    *)
WedgedByStderr ==
    /\ app \in {"done", "failed"} \/ Wedged \/ CanStep
    /\ Wedged => total.err > Room
    /\ app \in {"err", "wait", "done"} => total.err <= Room

(* The inductive invariant: chunks are conserved, the child prints stdout  *)
(* first, and the app leaves a pipe only when nothing can come any more.   *)
Conserved ==
    /\ outLeft + outPipe + out = total.out
    /\ errLeft + errPipe + err = total.err
    /\ child \in {"err", "exited"} => outLeft = 0
    /\ child = "exited" => errLeft = 0
    /\ child = "none" <=> app \in {"start", "failed"}
    /\ app \in {"start", "out"} => err = 0
    /\ app \in {"err", "wait", "done"} => child = "exited" /\ outPipe = 0
    /\ app \in {"wait", "done"} => errPipe = 0
    /\ app = "done" => handed = [out |-> Decoded(out, utf8.out), err |-> Decoded(err, utf8.err)]

---------------------------------------------------------------------------
(* More on how a run ends, for the theorems of RunPeapodProofs.            *)

(* A wedged run stays so.                                                  *)
WedgedForEver == [][Wedged => Wedged']_vars

(* How many steps a run has left, at most.                                 *)
ChildLeft == IF child = "none" THEN 3 ELSE IF child = "out" THEN 2
             ELSE IF child = "err" THEN 1 ELSE 0
AppLeft == IF app = "start" THEN 4 ELSE IF app = "out" THEN 3
           ELSE IF app = "err" THEN 2 ELSE IF app = "wait" THEN 1 ELSE 0
StepsLeft == 2 * (outLeft + errLeft) + outPipe + errPipe + ChildLeft + AppLeft

(* No step of a run is taken for ever.                                     *)
RunsOut == [][StepsLeft' < StepsLeft]_vars
============================================================================
