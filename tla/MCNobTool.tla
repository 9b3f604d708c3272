----------------------------- MODULE MCNobTool ------------------------------
(* The tool ./nob for TLC: how it rebuilds itself (NobRebuild), and what its commands do   *)
(* (NobBuild).  The two share no state, so each behaviour takes up one of them: two        *)
(* sources and two tests, one change of the sources and two of nob.c, three seconds.       *)
EXTENDS NobRebuild, NobBuild

VARIABLE focus

ToolInit == focus \in {"rebuild", "build"} /\ Init /\ BuildInit

ToolNext ==
  \/ focus = "rebuild" /\ Next /\ UNCHANGED << focus, buildVars >>
  \/ focus = "build" /\ BuildNext /\ UNCHANGED << focus, vars >>

ToolSpec == ToolInit /\ [][ToolNext]_<< focus, vars, buildVars >> /\ WF_vars(Tool)

\* A version as in nob.c:87, one with too few numbers, and one with an empty prerelease.
Shapes == {<< "0", ".", "0", ".", "0" >>, << "0", ".", "0" >>, << "0", ".", "0", ".", "0", "-" >>}

\* is_valid_semver() accepts of all strings of up to six characters exactly those of its shape.
Strings(n) == UNION {[1 .. k -> Character] : k \in 0 .. n}
ASSUME SemverIsAccepted == \A v \in Strings(6) : IsValidSemver(v) <=> Accepted(v)

-----------------------------------------------------------------------------
(* The string views of nob.h, over all views of all texts of up to four characters. *)

S == INSTANCE NobStringView

Texts == UNION {[1 .. k -> {"a", " ", ","}] : k \in 0 .. 4}
Views(s) == {S!FromParts(d, Len(s) - d - e) : d, e \in 0 .. Len(s)}
ViewsOf(s) == {v \in Views(s) : S!IsView(s, v)}

\* Pieces cut at a delimiter hold none, and joined by it are the text; trimming takes
\* off blanks, all of them.
ASSUME PiecesRejoin ==
  \A s \in Texts : \A v \in ViewsOf(s) :
    LET c == S!ChopByDelim(s, v, ",")
        piece == S!Text(s, c.piece)
        delims == {k \in 1 .. v.count : S!Text(s, v)[k] = ","}
    IN  /\ \A k \in DOMAIN piece : piece[k] # ","
        /\ S!Text(s, v) =
             IF delims = {} THEN piece ELSE piece \o << "," >> \o S!Text(s, c.rest)

ASSUME TrimTakesBlanks ==
  \A s \in Texts : \A v \in ViewsOf(s) :
    LET t == S!Trim(s, v, {" "})
        inner == S!Text(s, t)
        outer == S!Text(s, v)
    IN  /\ inner # << >> => inner[1] # " " /\ inner[Len(inner)] # " "
        /\ \A k \in 1 .. v.count :
             ~(k - 1 \in t.data - v.data .. t.data - v.data + t.count - 1) => outer[k] = " "

\* A view has a prefix or a suffix exactly if it is it and what chopping it off leaves.
ASSUME ChopsAffixes ==
  \A s \in Texts : \A v, a \in ViewsOf(s) :
    /\ S!StartsWith(s, v, a) <=>
         S!Text(s, v) = S!Text(s, a) \o S!Text(s, S!ChopPrefix(s, v, a))
    /\ S!EndsWith(s, v, a) <=>
         S!Text(s, v) = S!Text(s, S!ChopSuffix(s, v, a)) \o S!Text(s, a)
=============================================================================
