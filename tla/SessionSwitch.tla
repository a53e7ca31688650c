---------------------------- MODULE SessionSwitch ----------------------------
(***************************************************************************)
(* SessionStore with a history of what it saved of the conversations that  *)
(* a switch to another session put aside.                                  *)
(***************************************************************************)
EXTENDS SessionStore

VARIABLE shelved  \* the messages of those conversations, once snapshot and log are done

\* The session loop is done saving for a switch to another session, which has
\* a snapshot to load.
Shelving == /\ pc.at = "truncate" /\ pc'.at = "then"
            /\ pc.then \in Ids \ {sid}
            /\ snap[pc.then] # None

InitShelved == Init /\ shelved = {}
NextShelved ==
  /\ Next
  /\ shelved' = IF Shelving THEN shelved \cup Spoken(conv) ELSE shelved
SpecShelved == InitShelved /\ [][NextShelved]_<<vars, shelved>>

(* A switch saves the outgoing session's messages and loads the target's      *)
(* (runtime.rs:1143): what it saved is in a file from then on.                *)
OutgoingKept == shelved \subseteq OnDisk
=============================================================================
