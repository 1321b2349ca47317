-------------------------- MODULE MCWorkspaceWrite --------------------------
(* Two operations, one of them approved; a change set that adds a directory *)
(* with a file, replaces a file and deletes a directory with a file.        *)
EXTENDS WorkspaceWrite

CONSTANTS o1, o2

MCOperation == {o1, o2}
MCApproved == {o1}

Change(does, kind, up) == [does |-> does, kind |-> kind, up |-> up]

MCDiff ==
  << Change("add", "directory", 0), Change("add", "file", 1),
     Change("modify", "file", 0),
     Change("delete", "file", 5), Change("delete", "directory", 0) >>
=============================================================================
