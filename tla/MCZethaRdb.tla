------------------------------ MODULE MCZethaRdb ------------------------------
(* Two tables whose names begin alike, and keys that would join the same.  *)
EXTENDS ZethaRdb

Text_(d)  == [kind |-> "text", data |-> d]
bc == <<"b", "c">>
c1 == <<"c">>

MCTables  == {<<"a">>, <<"a", "b">>}
MCData    == {c1, bc}
MCOrder   == <<RowKey(<<"a">>, bc), RowKey(<<"a">>, c1), RowKey(<<"a", "b">>, bc), RowKey(<<"a", "b">>, c1)>>
MCColumns == {"id", "n"}

Strict  == [columns |-> {"id", "n"}, primary_key |-> "id", nullable |-> {}, defaults |-> [x \in {"n"} |-> Text_(c1)]]
Loose   == [columns |-> {"id", "n"}, primary_key |-> "id", nullable |-> {"n"}, defaults |-> <<>>]
Keyless == [columns |-> {"n"}, primary_key |-> "none", nullable |-> {"n"}, defaults |-> <<>>]

MCSchemas == {<<"a">> :> Strict @@ <<"a", "b">> :> Loose, <<"a">> :> Keyless}

Row(pk)    == [x \in {"id"} |-> pk]
MCInputs   == {Row(Text_(c1)), Row([kind |-> "integer", data |-> bc]), Row(NullValue),
               [x \in {"id", "n"} |-> Text_(bc)], [x \in {"id", "other"} |-> Text_(bc)]}
MCPatches  == {[x \in {"n"} |-> NullValue], [x \in {"id"} |-> Text_(bc)]}
=============================================================================
