------------------------- MODULE MCExternalMetadata -------------------------
EXTENDS ExternalMetadata

Error(code, words, absent) ==
    [code |-> code, words |-> words, absent |-> absent, denied |-> FALSE]
Denial(code, words) == [code |-> code, words |-> words, absent |-> {}, denied |-> TRUE]

\* The cases of tests/unit/test_metadata.py, denials that also mention what the
\* classification looks for, a missing object and a lost connection.
MCErrors == {
    Denial(1045, {"denied"}),
    Denial(1105, {"denied", "unknown", "variable", "catalogs", "catalog", "columns"}),
    Denial(5087, {"unknown", "syntax", "catalogs", "catalog", "columns", "$partitions", "partition"}),
    Denial(1105, {"permission", "syntax", "catalog", "partition"}),
    Error(1193, {"unknown", "variable"}, {"session"}),
    Error(1105, {"unknown", "variable"}, {"session"}),
    Error(1305, {"not exist"}, {"catalog"}),
    Error(1054, {"unknown"}, {"catalog", "columns"}),
    Error(1064, {"syntax", "catalogs", "catalog"}, {"catalog", "show-catalog"}),
    Error(1109, {"unknown", "information_schema"}, {"columns"}),
    Error(1105, {"unsupported", "$partitions", "partition"}, {"partitions", "show-partitions"}),
    Error(1064, {"syntax", "partition"}, {"show-partitions"}),
    Error(1146, {"not exist"}, {}),
    Error(1105, {"unknown"}, {}),
    Error(2013, {}, {})}
=============================================================================
