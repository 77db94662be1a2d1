-------------------------------- MODULE MCPage --------------------------------
(* The page against what it should say, on every short day.  Workspace a is *)
(* a repository, b a directory of it and others: git log fails in one, and  *)
(* one directory is in none.                                                *)
EXTENDS Page

MCResolved == [l \in Labels |-> IF l = "a" THEN "code/a" ELSE "code"]
MCToplevel == ("code" :> NoRoot) @@ ("code/a" :> "a") @@ ("code/doc" :> "a")
                @@ ("code/lib" :> "lib") @@ ("code/old" :> "old") @@ ("code/tmp" :> NoRoot)
MCSubDirs == ("code" :> <<"code/a", "code/doc", "code/lib", "code/old", "code/tmp">>)
                @@ ("code/a" :> <<>>)

\* generator.go:63: "Fill in estimated duration for in-progress sessions so
\* the report shows current activity instead of 0s" (generator.go:66-75).
InProgressEstimated ==
    pc = "done" =>
        \A k \in DOMAIN day :
            day[k].end = NULL /\ day[k].start < asOf => day[k].dur > 0
=============================================================================
