---------------------------- MODULE MCDatasource ----------------------------
(***************************************************************************)
(* Small instances of Datasource for TLC: the calls different clients make *)
(* and who may answer with no.                                             *)
(***************************************************************************)
EXTENDS Datasource

\* The actions of hk_button, what is typed into the fields of a form, and
\* opening and closing it.
FormCalls == {"goto", "insertrow", "delete", "store", "edit", "enable", "disable"}

\* A form whose script calls enable() on a datasource that is enabled.
ScriptedCalls == FormCalls \cup {"reenable"}

AllCalls == ScriptedCalls \cup {"normal", "deleterows", "readonly", "ignore"}

\* What the run that shows a disagreement needs.
EditAndStore == {"enable", "edit", "store"}

Everybody == {"update", "insert", "delete", "load", "details", "cascade",
              "store?", "delete?"}

\* A form whose datasource has loaded: no statement fails that a detail sends.
FormRefusals == Everybody \ {"load", "cascade"}

\* A server that never refuses an UPDATE or a DELETE, and no details.
RowRefusals == {"insert", "store?", "delete?"}

UpdateRefused == {"update"}
=============================================================================
