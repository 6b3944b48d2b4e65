------------------------- MODULE SandboxLifecycle -------------------------
(***************************************************************************)
(* What the nucleo promises about each sandbox, whatever calls, loops and  *)
(* crashes interleave: its life runs forward only, and its audit trail     *)
(* grows one command at a time and is erased only once the sandbox is      *)
(* gone.  Manager.tla implements this specification (see Manager!Life).    *)
(***************************************************************************)
EXTENDS Sequences

CONSTANTS Ids,      \* sandbox identifiers, each used for one sandbox
          Cmds      \* command invocations, each written down at most once

VARIABLES phase,    \* phase[i]: where sandbox i is in its life
          log       \* log[i]: the commands its audit trail holds, oldest first

lifeVars == <<phase, log>>

Phases == {"unborn", "made", "running", "paused", "stopped", "gone"}

Entries(s) == {s[k] : k \in DOMAIN s}

LifeInit == /\ phase = [i \in Ids |-> "unborn"]
            /\ log = [i \in Ids |-> <<>>]

(* Sandbox i moves from one of the phases `from' to `to'; no trail moves.  *)
Turn(i, from, to) == /\ phase[i] \in from
                     /\ phase' = [phase EXCEPT ![i] = to]
                     /\ UNCHANGED log

Make(i)   == Turn(i, {"unborn"}, "made")
Boot(i)   == Turn(i, {"made"}, "running")
Abort(i)  == Turn(i, {"unborn"}, "gone")
Freeze(i) == Turn(i, {"running"}, "paused")
Thaw(i)   == Turn(i, {"paused"}, "running")
Halt(i)   == Turn(i, {"made", "running", "paused"}, "stopped")
End(i)    == Turn(i, {"made", "running", "paused", "stopped"}, "gone")

(* One command is written at the end of the trail, and never twice.        *)
Note(i, c) == /\ phase[i] # "unborn"
              /\ \A j \in Ids : c \notin Entries(log[j])
              /\ log' = [log EXCEPT ![i] = Append(@, c)]
              /\ UNCHANGED phase

(* The trail of a sandbox that no longer exists is erased.                 *)
Erase(i) == /\ phase[i] = "gone"
            /\ log' = [log EXCEPT ![i] = <<>>]
            /\ UNCHANGED phase

LifeNext == \E i \in Ids : \/ Make(i) \/ Boot(i) \/ Abort(i) \/ Freeze(i)
                           \/ Thaw(i) \/ Halt(i) \/ End(i) \/ Erase(i)
                           \/ \E c \in Cmds : Note(i, c)

LifeSpec == LifeInit /\ [][LifeNext]_lifeVars

---------------------------------------------------------------------------
(* What follows for a reader of the trails.                                *)

(* No command is in two places of the trails.                              *)
WrittenOnce == \A i, j \in Ids : \A k \in DOMAIN log[i], l \in DOMAIN log[j] :
                  log[i][k] = log[j][l] => i = j /\ k = l

(* A sandbox that is gone stays so, and until then each line of its trail  *)
(* stays where it is.                                                      *)
Kept(i) == /\ phase[i] = "gone" => phase'[i] = "gone"
           /\ phase[i] # "gone" => \A k \in DOMAIN log[i] : /\ k \in DOMAIN log'[i]
                                                            /\ log'[i][k] = log[i][k]
EachKept == \A i \in Ids : Kept(i)
OneLife == [][EachKept]_lifeVars
===========================================================================
