---------------------------- MODULE MCLocalFiles ----------------------------
(***************************************************************************)
(* The files of the clients: runs of Codex's sync, runs of Claude Code's,  *)
(* or one mutation group in full detail (a directory, a file in it and a   *)
(* file beside it, each created, replaced, removed or only expected).      *)
(*                                                                         *)
(* One prefix must be served and one need not; the files of the first run  *)
(* are a fresh directory, one an older version left, one with files of the *)
(* user's where the sync writes, and one with a link.                      *)
(***************************************************************************)
EXTENDS LocalFiles, PreparedGroup

CONSTANTS claude, direct, m1, m2, minimax, mini, other, gpt, kimi

MCOffers == {<<>>, <<m1>>, <<m2, m1>>}
MCPathEntries == {<<Launcher(kimi), <<"bin">>>>, <<<<"bin">>>>, <<<<"opt">>>>}

User(x) == Line("user", x)
Table(p) == Line("table", p)
BeginOf(b) == Line("begin", b)
EndOf(b) == Line("end", b)
Overlay(p) == Line("overlay", p)

Fresh == <<User(1)>>
WithOverlays == <<User(1), Line("model", m1), Overlay(claude), User(2), Table(other), User(3), EndOf("profiles")>>
WithBlocks == <<BeginOf("catalog"), User(1), EndOf("catalog"), User(2), BeginOf("profiles"), Table(claude), EndOf("profiles"), User(3)>>
WithKey == <<Table(claude), Line("env_key", claude), Line("wire_api", claude), Table(other), Line("model", m1)>>
Unfinished == <<BeginOf("nux"), User(1)>>
Twice == <<BeginOf("profiles"), EndOf("profiles"), Overlay(claude), User(1), Table(other), Table(direct)>>
MCUserTexts == {WithKey, Unfinished}

Of(text) == Config :> File("user", text, FALSE)
OldSettings(s) == Settings :> File("user", s, FALSE)
Routed0 == [base |-> "reverso", token |-> "reverso", small |-> "reverso", discovery |-> "on", other |-> "user",
            headers |-> {"reverso", "user"}, marker |-> "on", model |-> "broken"]
Tagged0 == [token |-> "user", small |-> "user", discovery |-> "on", headers |-> {"reverso"}, model |-> "broken"]

MCStartFiles ==
    {<<>>,
     Of(Fresh) @@ OldSettings(Tagged0),
     Of(WithOverlays) @@ OldSettings(Routed0) @@ (Bare(claude) :> File("reverso", m1, TRUE))
         @@ (Catalog(claude) :> File("reverso", <<m2>>, FALSE)) @@ (Bare(mini) :> File("reverso", m1, FALSE)),
     Of(WithBlocks) @@ (Canon(direct) :> File("reverso", m1, TRUE)) @@ (Catalog(direct) :> File("reverso", <<m1>>, FALSE)),
     Of(Twice) @@ (Bare(minimax) :> UserFile) @@ (Bare(claude) :> UserFile),
     Of(WithKey) @@ (Bare(mini) :> File("link", None, FALSE)) @@ (Settings :> File("link", None, FALSE))}

VARIABLE part
localVars == <<part, filesVars, groupVars>>

Directory == <<0, 1, 0>>

\* The two clients have no file in common, so a behaviour has runs of one of them.
LocalInit ==
    /\ part \in {"codex", "claude", "group"}
    /\ FilesInit /\ GroupInit
    /\ part = "group" => disk = <<>>
    /\ part = "claude" => Settings \in DOMAIN disk \/ disk = <<>>
    /\ part # "group" => before = [p \in Paths |-> "absent"] /\ after = [p \in Paths |-> IF p = 1 THEN "directory" ELSE "new"]

LocalNext ==
    /\ UNCHANGED part
    /\ \/ /\ part # "group" /\ FilesNext /\ UNCHANGED groupVars
          /\ run'.mode = None \/ (run'.mode = "claude") = (part = "claude")
          /\ IF part = "codex" THEN Launcher(kimi) \notin DOMAIN disk'
             ELSE \A x \in DOMAIN disk' : x[1] \in {"bare", "canon", "config"} => x \in DOMAIN disk /\ disk'[x] = disk[x]
       \/ part = "group" /\ GroupNext /\ UNCHANGED filesVars

LocalSpec == LocalInit /\ [][LocalNext]_localVars
=============================================================================
