---------------------------- MODULE MCDatasource ----------------------------
(* Instances of Datasource for TLC. *)
EXTENDS Datasource, TLC

CONSTANTS p, q    \* conditions on columns "a" and "b"

MCColumnOf == (p :> "a") @@ (q :> "b")

R(tablet, meets) == [tablet |-> tablet, meets |-> meets]

\* Rows of both conditions, of either, and of none; one comes late.
MCInitialRows == {R(1, {p}), R(2, {p, q}), R(3, {q})}
MCRows == MCInitialRows \cup {R(1, {p, q})}

MCInitialColumns == <<"a", "b">>
MCAlteredColumns == <<"a", "c">>

MCProjections == {None, <<>>, <<"b">>, <<"b", "a">>}

MCRowLimits == {None, 0, 1}
=============================================================================
