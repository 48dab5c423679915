----------------------------- MODULE MCRowImages -----------------------------
(* Tables of a few columns that hold a few values each, one after the      *)
(* other through the kinds of columns, changes of definition and settings. *)
EXTENDS RowImages

N(n) == <<"num", n>>
T(t) == <<"text", t>>
At(t) == <<"time", t>>
Zero == <<"zero", 0>>

Col(name, type, holds) ==
  [name |-> name, type |-> type, unsigned |-> FALSE, charset |-> "", digits |-> 0, labels |-> <<>>,
   generated |-> FALSE, holds |-> holds]
Unsigned(c) == [c EXCEPT !.unsigned = TRUE]
Generated(c) == [c EXCEPT !.generated = TRUE]
Digits(c, n) == [c EXCEPT !.digits = n]
Labelled(c, labels) == [c EXCEPT !.labels = labels]
Text(name, charset, holds) == [Col(name, "char", holds) EXCEPT !.charset = charset]

Id == Col("id", "int", {N(1)})
A == Text("a", "utf8", {T("accent")})
B == Col("b", "int", {N(0), Null})
C == Col("c", "int", {N(1), Null})
Size(labels) == Labelled(Col("size", "enum", {<<"member", i>> : i \in 0..Len(labels)}), labels)
Tags(labels, holds) == Labelled(Col("tags", "set", {<<"members", m>> : m \in holds}), labels)

Good ==
  [flavor |-> "mysql", version |-> <<8, 0, 36>>, log_bin |-> "ON", binlog_format |-> "ROW",
   binlog_row_image |-> "FULL", binlog_row_metadata |-> "FULL", gtid_mode |-> "ON",
   binlog_row_value_options |-> "", server_id |-> 1,
   grants |-> {"REPLICATION SLAVE", "REPLICATION CLIENT", "SELECT"}]

CaseOf(shapes) ==
  [shapes |-> shapes, excluded |-> {}, index |-> {}, statements |-> {}, globals |-> <<Good>>,
   serverID |-> 2, parseTime |-> FALSE, zeroDate |-> "null", zone |-> 0,
   dialect |-> "elasticsearch"]

\* Every kind of column whose values both sources agree on.
MCTypes == <<
  CaseOf(<<<<Unsigned(Col("id", "bigint", {N(1), N(12)})),
           Unsigned(Col("u", "int", {N(3)})), Col("n", "int", {N(-1)}),
           Col("flag", "bool", {N(1)}), Col("y", "year", {N(1)})>>>>),
  [CaseOf(<<<<Text("id", "utf8", {T("accent")}), Size(<<"s", "m">>),
            Tags(<<"x", "y">>, {{2}}), Generated(Col("g", "int", {N(1)}))>>>>)
     EXCEPT !.dialect = "clickhouse"],
  [CaseOf(<<<<Id, Col("price", "decimal", {<<"exact", "1.50">>}), Col("f", "float", {<<"float", "x">>}),
            Col("raw", "blob", {<<"blob", "y">>, Null}), Col("doc", "json", {<<"json", "z">>})>>>>)
     EXCEPT !.dialect = "clickhouse"] >>

\* Dates, in the source's zone and with every policy for those that are none.
MCDates ==
  [p \in 1..3 |->
    [CaseOf(<<<<Id, Col("at", "datetime", {At(5), Zero}), Col("ts", "timestamp", {At(5)})>>>>)
       EXCEPT !.zone = 2, !.zeroDate = <<"null", "epoch", "error">>[p]]]
  \o <<
  [CaseOf(<<<<Id, Col("day", "date", {At(24)}), Col("ts", "timestamp", {At(5)})>>>>)
     EXCEPT !.parseTime = TRUE],
  CaseOf(<<<<Id, Col("day", "date", {At(24), <<"partial", 0>>})>>>>),
  [CaseOf(<<<<Col("at", "datetime", {At(5)})>>>>) EXCEPT !.parseTime = TRUE],
  CaseOf(<<<<Digits(Col("at", "datetime", {At(5)}), 6)>>>>) >>

\* Columns that are added at the end and before it, dropped and renamed; labels
\* that are added; a type that grows, into an index that can hold it and one that
\* cannot; a column that cannot be represented, left out and not.
MCShapes == <<
  CaseOf(<<<<Id, A>>, <<Id, A, B>>, <<Id, C, A, B>>>>),
  CaseOf(<<<<Id, B, A>>, <<Id, A>>, <<Id, A, C>>>>),
  CaseOf(<<<<Id, Size(<<"s">>)>>, <<Id, Size(<<"s", "m">>)>>>>),
  CaseOf(<<<<Id, Tags(<<"x">>, {{1}})>>, <<Id, Tags(<<"x", "y">>, {{1}, {1, 2}})>>>>),
  CaseOf(<<<<Id, Col("place", "point", {Null})>>, <<Id, A>>>>),
  CaseOf(<<<<Id, B>>, <<Id, Col("b", "bigint", {N(5)})>>>>),
  [CaseOf(<<<<Id, B>>, <<Id, Col("b", "bigint", {N(5)})>>>>) EXCEPT !.index = {<<"b", "long">>}],
  [CaseOf(<<<<Id, A, C>>, <<Id, A>>>>) EXCEPT !.excluded = {"c"}] >>

Statements == {
  [kind |-> "statement", ddl |-> TRUE, mentions |-> {}, any |-> TRUE],
  [kind |-> "statement", ddl |-> TRUE, mentions |-> {}, any |-> FALSE],
  [kind |-> "statement", ddl |-> FALSE, mentions |-> {"this"}, any |-> FALSE] }

\* Settings that preflight refuses, before the start and after.
Others == <<
  [Good EXCEPT !.binlog_row_metadata = "MINIMAL"], [Good EXCEPT !.binlog_row_image = "MINIMAL"],
  [Good EXCEPT !.binlog_row_value_options = "PARTIAL_JSON"],
  [Good EXCEPT !.binlog_format = "STATEMENT"], [Good EXCEPT !.server_id = 2],
  [Good EXCEPT !.version = <<8, 0>>, !.grants = {"ALL PRIVILEGES"}],
  [Good EXCEPT !.gtid_mode = "OFF", !.binlog_row_value_options = "unsupported"] >>
MCSettings ==
  [o \in DOMAIN Others |->
    [CaseOf(<<<<Id, Unsigned(Col("u", "bigint", {N(12)})),
                Col("doc", "json", {<<"json", 1>>, <<"json", 2>>})>>, <<Id>>>>)
       EXCEPT !.globals = <<Good, Others[o], Good>>]]

MCStatements == <<[CaseOf(<<<<Id, B>>, <<Id, B, C>>>>) EXCEPT !.statements = Statements,
  !.globals = <<[Good EXCEPT !.version = <<8, 1>>, !.grants = {"ALL PRIVILEGES"},
                             !.binlog_row_value_options = "unsupported"]>>]>>

MCCases == MCTypes \o MCDates \o MCShapes \o MCSettings \o MCStatements

-----------------------------------------------------------------------------
(* Cases the code does not handle.                                           *)

\* A column that is added, but not at the end.
MCAddedColumn == <<CaseOf(<<<<Id, B>>, <<Id, C, B>>>>)>>

\* A label that is added to a SET.
MCAddedLabel == <<CaseOf(<<<<Id, Tags(<<"x">>, {{1}})>>, <<Id, Tags(<<"x", "y">>, {{2}})>>>>)>>

\* Text of a charset that both the driver and the plan convert.
MCLatin1 == <<CaseOf(<<<<Id, Text("a", "latin1", {T("accent")})>>>>)>>

\* A key of such text.
MCLatin1Key == <<CaseOf(<<<<Text("id", "latin1", {T("accent")})>>>>)>>

\* Bits, which the scanner reads as digits.
MCBits == <<CaseOf(<<<<Id, Col("b", "bit", {<<"bits", 1>>, <<"bits", 49>>})>>>>)>>

\* Times of day, which both sources deliver as text.
MCTimes == <<CaseOf(<<<<Id, Col("t", "time", {At(5)})>>>>)>>

\* Days, in a zone ahead of UTC.
MCDays == <<[CaseOf(<<<<Id, Col("day", "date", {At(24)})>>>>) EXCEPT !.zone = 2]>>

\* Dates that are none, parsed by the driver.
MCParsedZero == <<[CaseOf(<<<<Id, Col("at", "datetime", {Zero})>>>>) EXCEPT !.parseTime = TRUE]>>

\* A key that is a day, or has a fraction of a second, parsed by the driver.
MCDateKey ==
  <<[CaseOf(<<<<Col("day", "date", {At(24)})>>>>) EXCEPT !.parseTime = TRUE],
    [CaseOf(<<<<Digits(Col("at", "datetime", {At(5)}), 6)>>>>) EXCEPT !.parseTime = TRUE]>>

\* A column that is left out because it cannot be represented.
MCExcluded ==
  <<[CaseOf(<<<<Id, Col("place", "point", {<<"blob", "p">>})>>>>) EXCEPT !.excluded = {"place"}]>>
==============================================================================
