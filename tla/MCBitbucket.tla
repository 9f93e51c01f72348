---------------------------- MODULE MCBitbucket ----------------------------
(* Bitbucket and its pull requests for TLC.                                *)
EXTENDS MCWorker, Bitbucket

CONSTANTS asked, other

\* The directory of app 2 has a name that begins like that of app 1, app 1
\* has a path below its annotation too, and app 2 has no annotation.
MCManifests ==
  <<[repository |-> "mono", source |-> <<"a", "/", "o">>, basePath |-> <<".", "/", "a">>],
    [repository |-> "mono", source |-> <<"a", "a">>, basePath |-> <<>>]>>
MCBaseName == <<"b">>
MCComponentsName == <<"c">>

In(path) == [old |-> path, new |-> path]
Moved == <<[old |-> <<"a", "/", "b", "/", "x">>, new |-> <<"r">>]>>
Added == <<[old |-> <<>>, new |-> <<"a", "/", "o", "/", "x">>], In(<<"r">>)>>
ThirdIsCut ==
  <<In(<<"r">>), In(<<"a", "a", "/", "x">>), In(<<"a", "/", "o">>)>>
MCDiffs == {Moved, ThirdIsCut}
MCFirstDiff == [p \in PullRequests |-> Added]

MCUsers == {asked, other}
MCReviewers == [p \in PullRequests |-> IF p = 1 THEN {asked} ELSE {}]
Silence == [id |-> 0, pending |-> FALSE, deleted |-> FALSE,
            command |-> "none", env |-> ""]
Say(command, env) == [Silence EXCEPT !.id = 1, !.command = command, !.env = env]
MCComments ==
  {Say("lock", "all"), [Say("lock", "dev") EXCEPT !.deleted = TRUE]}

\* All events that a payload may be parsed to.
ParsedEvents ==
  [type : {"opened", "updated", "declined", "merged", "commented", "unknown"},
   pr : PullRequests, command : {"lock", "unlock", "none"},
   env : {"", "all", "dev", "test"},
   reviewers : 0 .. 2, approved : 0 .. 2, requestChanged : 0 .. 2]

MCTouches == [p \in PullRequests |-> Matches[MCFirstDiff[p]]]

ASSUME InstanceOfPaths == TextsArePaths

\* Texts of up to four characters: the search of texts is one of names.
Texts == UNION {[1 .. n -> {Slash, Dot, "a", "b"}] : n \in 0 .. 4}
ASSUME SearchIsByName ==
  \A file, path \in {t \in Texts : IsPath(t)} :
    ContainsText(cleanPaths(file), cleanPaths(path)) <=> PassesThrough(file, path)
=============================================================================
