------------------------------ MODULE MCServer -------------------------------
(***************************************************************************)
(* One request of every kind, and the bind mounts of the program and of a  *)
(* command that brings its own proc.                                       *)
(***************************************************************************)
EXTENDS Server

HostDirs == <<"usr", "lib64">>
BothBindLists == {<<"tmp">>, <<"proc", "tmp">>}

Get(path, token, url) == [path |-> path, token |-> token, url |-> url]
AllQueries == { Get("/render", TRUE, "http"), Get("/render/csv", TRUE, "other scheme"),
                Get("/version", FALSE, "none") }
=============================================================================
