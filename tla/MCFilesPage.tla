----------------------------- MODULE MCFilesPage -----------------------------
(* A data directory with one directory, and pages of two names.  The       *)
(* second file of that directory has a "+" in its name.                    *)
EXTENDS FilesPage, TLC

MCDirs == {<<>>, <<"a">>}
MCFiles == {<<"a", "f">>, <<"a", "g">>}
MCRankOf == ".." :> 0 @@ "a" :> 1 @@ "f" :> 2 @@ "g" :> 3
MCBeginnings == {MCDirs \cup MCFiles}
=============================================================================
