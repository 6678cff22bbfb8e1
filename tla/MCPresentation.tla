---------------------------- MODULE MCPresentation ----------------------------
(***************************************************************************)
(* Small presentations for TLC and the calls of their clients.             *)
(***************************************************************************)
EXTENDS Presentation

Designer == {"new", "set", "clear", "enable"}

\* One session in which tables are deleted, and a form that is saved and opened
\* again, from which only datasources are deleted that nothing depends on.
SessionClient == Designer \cup {"save", "vanish", "destroy", "destroymaster"}
FileClient    == Designer \cup {"destroy", "save", "load"}
Working       == {SessionClient, FileClient}
=============================================================================
