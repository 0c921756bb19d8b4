----------------------------- MODULE MCFolderCrawl -----------------------------
(* FolderCrawl for TLC: folders side by side and in one another. *)
EXTENDS FolderCrawl

Segments == {"a", "b", "p"}
Folders == {<<>>, <<"a">>, <<"b">>, <<"a", "b">>}
Jobs == {<<"p">>, <<"a", "p">>, <<"b", "p">>, <<"a", "b", "p">>}
================================================================================
