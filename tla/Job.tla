-------------------------------- MODULE Job --------------------------------
(***************************************************************************)
(* What exec_forked_pipeline promises its caller, exec_pipeline.  A job of *)
(* Count commands is launched from left to right; every command launched   *)
(* ends by itself in its own time; when all of them could be launched they *)
(* are collected from left to right, and only then does the call return,   *)
(* with the value of the last.  When a call fails on the way it promises   *)
(* less: without memory or a pipe it returns 1 at once, and a command that *)
(* could not be forked leaves the collecting in disorder, so that commands *)
(* may go on after the call has returned.  How the commands are joined,    *)
(* and what makes them end, is not said here.                              *)
(***************************************************************************)
EXTENDS Integers

CONSTANTS Count,   \* the number of commands
          Value    \* what a command may end with

(* What the modules that use a Job see to. *)
JobAssumption == Count \in Nat \ {0} /\ Value \subseteq Nat /\ 1 \in Value

Cmds == 0 .. Count - 1

VARIABLES state,   \* where each command is in its life
          value,   \* what it ended with
          result   \* what the call returned, or NoResult

vars == <<state, value, result>>

NoResult == -1

TypeOK ==
    /\ state \in [Cmds -> {"new", "missing", "live", "ended", "collected"}]
    /\ value \in [Cmds -> Value \cup {NoResult}]
    /\ result \in Value \cup {NoResult}

Init ==
    /\ state = [n \in Cmds |-> "new"]
    /\ value = [n \in Cmds |-> NoResult]
    /\ result = NoResult

Launched == \A n \in Cmds : state[n] # "new"
Whole    == \A n \in Cmds : state[n] # "missing"

(* fork: the command runs, or is missing. *)
Launch(n) ==
    /\ result = NoResult
    /\ state[n] = "new"
    /\ \A m \in 0 .. n - 1 : state[m] # "new"
    /\ \E to \in {"live", "missing"} : state' = [state EXCEPT ![n] = to]
    /\ UNCHANGED <<value, result>>

(* Several commands end at once when a key sends a signal to all of them. *)
End(S, v) ==
    /\ S # {}
    /\ \A n \in S : state[n] = "live"
    /\ state' = [n \in Cmds |-> IF n \in S THEN "ended" ELSE state[n]]
    /\ value' = [n \in Cmds |-> IF n \in S THEN v ELSE value[n]]
    /\ UNCHANGED result

(* The wait for a missing command takes any other. *)
Collect(n) ==
    /\ result = NoResult
    /\ state[n] = "ended"
    /\ Launched
    /\ Whole => \A m \in 0 .. n - 1 : state[m] = "collected"
    /\ state' = [state EXCEPT ![n] = "collected"]
    /\ UNCHANGED <<value, result>>

(* All is collected; or a wait found no child, 1, or took that of an earlier
   line, anything; or a pipe or memory could not be had. *)
Return ==
    /\ result = NoResult
    /\ \/ (\A n \in Cmds : state[n] = "collected") /\ result' = value[Count - 1]
       \/ Launched /\ ~ Whole /\ result' \in Value
       \/ ~ Launched /\ result' = 1
    /\ UNCHANGED <<state, value>>

Over == result # NoResult /\ UNCHANGED vars

Next ==
    \/ \E n \in Cmds : Launch(n) \/ Collect(n)
    \/ \E S \in SUBSET Cmds, v \in Value : End(S, v)
    \/ Return
    \/ Over

Spec == Init /\ [][Next]_vars
=============================================================================
