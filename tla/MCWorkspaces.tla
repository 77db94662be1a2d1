---------------------------- MODULE MCWorkspaces ----------------------------
(* Three editors and a browser; two workspaces have one name.  The dashes in *)
(* the second title are mixed: what it is taken for is no workspace.  The    *)
(* third editor has no file open.                                            *)
EXTENDS Workspaces

MCWindows ==
    {[proc |-> "code", ws |-> <<"notes">>,
      title |-> EditorTitle(<<"a", HY, "Cursor">>, <<"notes", " (Workspace)">>, EM,
                            <<"Visual Studio Code", HY, "Insiders">>)],
     [proc |-> "codium", ws |-> <<"notes">>,
      title |-> EditorTitle(<<"b", EM, "c">>, <<"notes">>, HY, <<"VSCodium">>)],
     [proc |-> "cursor", ws |-> <<"notes">>,
      title |-> EditorTitle(<<>>, <<"notes">>, HY, <<"Cursor">>)],
     [proc |-> "chrome", ws |-> <<>>,
      title |-> <<"notes", HY, "Google Chrome">>]}

Json(uri, name, exists, written) ==
    [uri |-> uri, name |-> name, exists |-> exists, written |-> written]

MCStorage == << Json("workspace", <<"notes">>, TRUE, 1),
                Json("folder", <<"idp">>, FALSE, 1),
                Json("folder", <<"notes">>, TRUE, 0) >>
=============================================================================
