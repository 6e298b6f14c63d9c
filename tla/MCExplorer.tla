----------------------------- MODULE MCExplorer -----------------------------
EXTENDS FileExplorer

MCComponent == {"a", "b", "e", "n", "t0", "t1", "x", "y", "z"}

MCTemps == <<"t0", "t1">>

MCMembers == << [path |-> <<"e">>, dir |-> TRUE],
                [path |-> <<"e", "x">>, dir |-> FALSE],
                [path |-> <<"y">>, dir |-> FALSE] >>

MCZip == <<"a", "z">>

\* A folder with a file and an archive, and a second folder. What else there is
\* occupies or blocks a target, is a folder to copy, or was left by a power cut.
MCCard(more) == [p \in {<<"a">>, <<"a", "x">>, MCZip, <<"b">>} \cup more |->
                    CASE p \in {<<"a">>, <<"b">>, <<"a", "e">>} -> "dir"
                      [] p = MCZip -> "archive"
                      [] p = <<"b", "t0">> -> "part"
                      [] OTHER -> "own"]

MCCards == {MCCard({<<"a", "e">>}), MCCard({<<"b", "e">>}),
            MCCard({<<"b", "x">>}), MCCard({<<"b", "t0">>})}

=============================================================================
