--------------------------- MODULE MCToolRequests ---------------------------
(* Short paths over every kind of component, numbers at the ends of the range *)
(* of ports and other JSON values, for TLC.                                   *)
EXTENDS ToolRequests

MCPaths == UNION {[1..n -> {"", ".", "..", "a..b", "a", "b"}] : n \in 1..2}
              \cup {<<"", "a", "b">>, <<"", "a", "..">>, <<"", "", "">>}
MCDirs == {<<"">>, <<"", "">>, <<"a">>, <<"", "b">>, <<"..", "a">>, <<".">>}
MCFileNames == {"", ".", "..", "a", "a.b", "a..b", "a/b", "../b", "a.raw", "../b.raw"}
MCSwitches == {Absent, Null, Truth(TRUE), Truth(FALSE), Text("true"), Number(0)}
\* -1, 0, 0.5, 80.5, 65536 and what is no number
MCNumbers == {Absent, Null, Truth(TRUE), Digits(160)}
                \cup {Number(h) : h \in {-2, 0, 1, 161, 131072}}
MCTexts == {Absent, Null, Number(2), Text(""), Text("bad"), Text("slow")}
\* -0.5, 0, 0.5, 1, 80.5, 65535, 65535.5, 65536
MCHalves == {-1, 0, 1, 2, 161, 131070, 131071, 131072}
MCPorts == {Absent} \cup {Number(h) : h \in MCHalves} \cup {Digits(h) : h \in MCHalves}
\* Entries 0, 1 and 2 exist, -1 and 3 do not.
MCNumberIds == {Absent, Null, Text("e1"), Digits(2), Digits(3)}
                  \cup {Number(h) : h \in {-2, 0, 1, 2, 3, 4, 6}}
MCTextIds == {Absent, Number(2)}
                \cup {Text(s) : s \in {"", "e1", "e2", "e3", "..", "e1/", "e2?", "../route/e1"}}
=============================================================================
