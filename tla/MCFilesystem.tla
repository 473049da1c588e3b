---------------------------- MODULE MCFilesystem ----------------------------
EXTENDS FilesystemPage

(* Directories that are there to begin with and a default file, and        *)
(* three levels that are not: the first two also typed with an ending, the *)
(* second with a dot in front of its name.                                 *)
SomePaths == {Demo, Hello, Subdir, <<"a">>, <<"a", "">>, <<"a", ".">>, <<"a", ".b">>,
              <<"a", ".b", "">>, <<"a", ".b", "c">>}
=============================================================================
