----------------------------- MODULE MCToolTurn -----------------------------
(* Instances of ToolTurn for TLC.                                          *)
EXTENDS ToolTurn

B(t, p) == [tool |-> t, path |-> p]

(* Every tool, and every way through the gates that the group it belongs   *)
(* to tells apart.                                                         *)
AllBlocks ==
  { B("read", "clear"), B("read", "guarded"), B("read", "malformed"),
    B("write", "clear"), B("bash", "clear"), B("bash", "guarded"),
    B("enter", "clear"), B("exit", "malformed") }

FewBlocks ==
  { B("read", "clear"), B("read", "guarded"), B("bash", "clear"),
    B("write", "malformed") }

=============================================================================
