---------------------------- MODULE TurnContract ----------------------------
(***************************************************************************)
(* What query_loop relies on when it runs the tools of an assistant turn:  *)
(* a call is run at most once, it is answered at most once and never run   *)
(* after that, the attempt a call belongs to may be given up as a whole,   *)
(* and the turn ends either with all of its calls answered or given up.    *)
(***************************************************************************)
CONSTANT Calls

VARIABLES status, ended

contractVars == <<status, ended>>

Init ==
  /\ status = [c \in Calls |-> "none"]
  /\ ended = FALSE

(* The model asks for a call.                                              *)
Ask(c) ==
  /\ ~ended /\ status[c] = "none"
  /\ status' = [status EXCEPT ![c] = "asked"]
  /\ UNCHANGED ended

Run(c) ==
  /\ ~ended /\ status[c] = "asked"
  /\ status' = [status EXCEPT ![c] = "running"]
  /\ UNCHANGED ended

(* Some calls get their results; one that never ran may get one too.       *)
Answer(C) ==
  /\ ~ended /\ \A c \in C : status[c] \in {"asked", "running"}
  /\ status' = [c \in Calls |-> IF c \in C THEN "answered" ELSE status[c]]
  /\ UNCHANGED ended

(* The attempt is given up before any of its calls was answered, for good  *)
(* or to be streamed again.                                                *)
GiveUp ==
  /\ ~ended
  /\ \A c \in Calls : status[c] # "answered"
  /\ status' = [c \in Calls |-> IF status[c] = "none" THEN "none" ELSE "void"]
  /\ ended' \in BOOLEAN

(* The tool-result message is complete.                                    *)
Close ==
  /\ ~ended
  /\ \A c \in Calls : status[c] \in {"none", "void", "answered"}
  /\ ended' = TRUE
  /\ UNCHANGED status

Next ==
  \/ \E c \in Calls : Ask(c) \/ Run(c)
  \/ \E C \in SUBSET Calls : Answer(C)
  \/ GiveUp \/ Close

Spec == Init /\ [][Next]_contractVars

=============================================================================
