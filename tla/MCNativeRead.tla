---------------------------- MODULE MCNativeRead ----------------------------
EXTENDS NativeRead

MCDirs == [
    a |-> [place |-> "standard", value |-> 1],
    b |-> [place |-> "standard", value |-> 2],
    x |-> [place |-> "custom", value |-> 3],
    y |-> [place |-> "foreign", value |-> 3],
    z |-> [place |-> "unqualified", value |-> 3]]

\* Two data files and hidden files in a, a file without suffix and a directory in b.
File(dir, kind, suffix) == [dir |-> dir, kind |-> kind, suffix |-> suffix]
MCFiles == <<File("a", "hidden", TRUE), File("a", "file", TRUE), File("a", "file", TRUE),
             File("b", "file", FALSE), File("b", "directory", FALSE)>>

Part(dir, value) == [dir |-> dir, value |-> value]
Keyed(root, parts) == [keyed |-> TRUE, root |-> root, parts |-> parts]
MCTables == {
    [keyed |-> FALSE, root |-> "standard", parts |-> <<[dir |-> "a", value |-> None]>>],
    Keyed("standard", <<>>),
    Keyed("standard", <<Part("a", 1), Part("b", 2)>>),
    Keyed("standard", <<Part("b", 2)>>),
    Keyed("standard", <<Part("b", 1)>>),
    Keyed("standard", <<Part("a", 1), Part("a", 1)>>),
    Keyed("standard", <<Part("a", 1), Part("x", 3)>>),
    Keyed("standard", <<Part("y", 3)>>),
    Keyed("standard", <<Part("z", 3)>>),
    Keyed("unsupported", <<Part("a", 1)>>),
    Keyed("unqualified", <<Part("a", 1)>>)}

MCContents == {[schema |-> "same", rows |-> 0], [schema |-> "same", rows |-> 1],
               [schema |-> "castable", rows |-> 1], [schema |-> "other", rows |-> 1]}

MCPublished == [f \in DataFiles |->
    IF f = 2 THEN MCContents ELSE {c \in MCContents : c.schema = "same"}]
=============================================================================
