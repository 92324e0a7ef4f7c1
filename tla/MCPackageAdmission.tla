------------------------- MODULE MCPackageAdmission -------------------------
(* Archives of up to five entries and their root over paths that collide once folded, with *)
(* directories that only a deeper path implies, and links to a directory,   *)
(* to a file below it and upwards.                                          *)
EXTENDS PackageAdmission

MCSegment == {"a", "A", "l", "x", "y", "info.txt", "manifest.txt", "MANIFEST.TXT"}
MCLower   == [s \in MCSegment |-> CASE s = "A" -> "a"
                                    [] s = "MANIFEST.TXT" -> "manifest.txt"
                                    [] OTHER -> s]

\* In the byte order of the manifest.
MCOrder == <<<<"A">>, <<"A", "x">>, <<"MANIFEST.TXT">>, <<"a">>, <<"a", "y">>, <<"info.txt">>,
             <<"l">>, <<"l", "y">>, <<"manifest.txt">>, <<"x">>>>

MCPath     == {MCOrder[i] : i \in DOMAIN MCOrder}
MCPosition == [p \in MCPath |-> CHOOSE i \in DOMAIN MCOrder : MCOrder[i] = p]
MCInfo     == <<"info.txt">>
MCManifest == <<"manifest.txt">>

MCHost == {[folds |-> FALSE, links |-> TRUE,  umask |-> "0700"],
           [folds |-> FALSE, links |-> TRUE,  umask |-> "0755"],
           [folds |-> TRUE,  links |-> TRUE,  umask |-> "0755"],
           [folds |-> TRUE,  links |-> FALSE, umask |-> "0700"]}

Dir(p)        == [path |-> p, type |-> "dir", exec |-> FALSE, target |-> <<>>, size |-> 0, bytes |-> 0]
File(p, x, n) == [Dir(p) EXCEPT !.type = "file", !.exec = x, !.size = n, !.bytes = n]
Link(p, t)    == [Dir(p) EXCEPT !.type = "link", !.target = t]

MCEntry ==
  {File(MCInfo, FALSE, 1), [File(MCInfo, FALSE, 1) EXCEPT !.bytes = 2], File(MCManifest, FALSE, 1), File(<<"MANIFEST.TXT">>, FALSE, 1),
   Dir(<<"A">>), File(<<"A">>, FALSE, 1), File(<<"A", "x">>, TRUE, 1),
   Dir(<<"a">>), Link(<<"a">>, <<"A", "x">>),
   File(<<"a", "y">>, TRUE, 1), File(<<"a", "y">>, FALSE, 0), Link(<<"a", "y">>, <<"..", "l">>),
   Dir(<<"a", "y">>), Dir(<<"l">>), File(<<"l">>, TRUE, 1),
   Link(<<"l">>, <<"a">>), Link(<<"l">>, <<"a", "y">>), Link(<<"l">>, <<"..", "l">>),
   File(<<"l", "y">>, FALSE, 0), File(<<"x">>, TRUE, 1)}

\* A package with a command, a directory and a link to its parent.
MCLinkEntry ==
  {File(MCInfo, FALSE, 1), File(MCManifest, FALSE, 1), File(<<"x">>, TRUE, 1),
   Dir(<<"a">>), Dir(<<"a", "y">>), Link(<<"l">>, <<"a">>)}

MCCommandSets == {{}, {<<"a", "y">>}, {<<"A", "x">>}, {<<"l">>}, {<<"x">>}}
=============================================================================
