------------------------------ MODULE MCExplain ------------------------------
(* Explain and Stats beside Tracker on a small instance: see README.md. *)
EXTENDS Stats

CONSTANTS r1, r2

(* A repository with a subdirectory, a linked worktree and a malformed gitlink in it,
   a bare repository, a plain directory, and a clone under /tmp. *)
Main == <<"home", "repo">>
Sub == Main \o <<"src">>
Broken == Main \o <<"vendor">>
Tree == <<"home", "tree">>
Bare == <<"home", "bare">>
Clone == <<"tmp", "clone">>

File(content) == content @@ [is |-> "file"]
Dir == [is |-> "dir"]
Back == [absolute |-> FALSE, path |-> <<"..", "..">>]

MCDisk ==
    (Main \o <<".git">>) :> Dir
    @@ (Main \o <<".git", "worktrees", "tree", "commondir">>) :> File([text |-> Back])
    @@ (Broken \o <<".git">>) :> File([gitdir |-> {}])
    @@ (Tree \o <<".git">>) :> File([gitdir |->
            {[absolute |-> TRUE, path |-> Main \o <<".git", "worktrees", "tree">>]}])
    @@ (Bare \o <<".git">>) :> Dir
    @@ (Bare \o <<".git", "config">>) :> File([bare |-> TRUE])
    @@ (Clone \o <<".git">>) :> Dir

MCTempRoots == {<<"tmp">>, <<"dev", "shm">>}

(* The repository each directory belongs to, as git sees it. *)
MCRepository ==
    Main :> Main @@ Sub :> Main @@ Broken :> Main @@ Tree :> Main
    @@ Bare :> Bare @@ Clone :> <<"(ephemeral)">>

Cmd(program, rest, rule, bypassed, project, raw, kept) ==
    [argv |-> <<<<"usr", "bin", program>>>> \o rest, rule |-> rule, bypassed |-> bypassed,
     project |-> project, raw |-> raw, kept |-> kept]

MCHistories ==
    { r1 :> Cmd("git", <<"log">>, {"git"}, FALSE, Sub, 8, 2)
        @@ r2 :> Cmd("git", <<"log", "-v">>, {"git"}, FALSE, Tree, 1, 4),
      r1 :> Cmd("make", <<"all">>, {}, FALSE, Sub, 8, 8)
        @@ r2 :> Cmd("pnpm", <<"-D">>, {"pkg"}, TRUE, Clone, 4, 4) }

MCRequests ==
    { [project |-> {}, rule |-> {}, since |-> {}],
      [project |-> {[absolute |-> FALSE, path |-> <<".", "src">>]},
       rule |-> {"pkg"}, since |-> {1}] }
MCCwd == Main
=============================================================================
