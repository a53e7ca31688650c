------------------------------ MODULE MCTaskLock ------------------------------
(* Two processes and two tasks; an update sets the status and the owner, or *)
(* adds an edge between the tasks, on either side.                          *)
EXTENDS TaskLock

FieldChanges == [status : Statuses \cup {"same"}, owner : Agents \cup {NoOne},
                 add_blocked_by : {0}, add_blocks : {0}]
EdgeChanges == [status : {"same"}, owner : {NoOne},
                add_blocked_by : {2}, add_blocks : {0}]
               \cup [status : {"same"}, owner : {NoOne},
                     add_blocked_by : {0}, add_blocks : {2}]
MCChanges == FieldChanges \cup EdgeChanges
=============================================================================
