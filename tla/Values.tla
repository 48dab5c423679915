-------------------------------- MODULE Values --------------------------------
(***************************************************************************)
(* What becomes of one column value on its way to a document: how the two  *)
(* sources deliver it, what the scanner makes of it                        *)
(* (internal/source/snapshot, scanner.go), how it is represented           *)
(* (internal/schema, typemap.go) and how the plan encodes it               *)
(* (internal/pipeline, transform.go).                                      *)
(*                                                                         *)
(* A value is a pair of a tag and its content.                             *)
(*   stored    what the table holds: num, exact (a decimal), float, text,  *)
(*             blob, json, member (of an ENUM, by number), members (of a   *)
(*             SET), bits, time (a number of hours), zero and partial      *)
(*             (dates that are none), null; as text a time is what the     *)
(*             server writes, or "stamp", what Go writes of it;            *)
(*   Go        what a row of cdc.Row holds, by its dynamic type, where     *)
(*             "mask" is an int64 given as the set of its bits;            *)
(*   JSON      what a document holds.                                      *)
(* A column is [name, type, unsigned, charset, digits, labels, generated,  *)
(* holds], digits being those of a second's fraction and holds the values  *)
(* the source stores in it.                                                *)
(***************************************************************************)
EXTENDS Integers, Sequences, SequencesExt

CONSTANT Wide   \* the values of a BIGINT are those of Wide bits, of others half of them

Null == <<"null", 0>>   \* nil of Go and null of JSON too
Err  == <<"error", 0>>

IntTypes   == {"tinyint", "int", "bigint"}
CharTypes  == {"char", "text"}
ByteTypes  == {"blob", "json"}
TimeTypes  == {"date", "datetime", "timestamp", "time"}

-----------------------------------------------------------------------------
(* The sources of values                                                     *)

\* The bytes of a text; a text that is plain has the same ones in every charset.
Bytes(text, charset) == IF text = "plain" THEN <<"ascii", text>> ELSE <<charset, text>>

\* A number as a signed integer of so many bits.
Signed(n, bits) == IF n >= 2 ^ (bits - 1) THEN n - 2 ^ bits ELSE n

\* The binlog client: a value of a row event.  Only full row metadata tells
\* that a number is unsigned.
FromBinlog(c, v, fullMetadata) ==
  LET long == c.type = "bigint"
  IN  CASE v = Null -> Null
        [] v[1] = "num" ->
             IF c.unsigned /\ fullMetadata
               THEN <<IF long THEN "uint64" ELSE "uint32", v[2]>>
               ELSE IF long THEN <<"int64", Signed(v[2], Wide)>>
                            ELSE <<"int32", Signed(v[2], Wide \div 2)>>
        [] v[1] = "text" -> <<"string", Bytes(v[2], c.charset)>>
        [] v[1] \in {"member", "bits"} -> <<"int64", v[2]>>
        [] v[1] = "members" -> <<"mask", v[2]>>
        [] v[1] = "exact" -> <<"decimal", v>>
        [] v[1] = "float" -> <<"float", v>>
        [] v[1] \in {"blob", "json", "diff"} -> <<"bytes", v>>
        [] v[1] \in {"time", "zero", "partial"} -> <<"string", v>>

\* The SQL driver: a value of a result row, whose text is in the connection's
\* charset and whose dates are parsed when the DSN says so.
FromDriver(c, v, parseTime) ==
  CASE v = Null -> Null
    [] v[1] = "num" -> <<IF v[2] >= 2 ^ (Wide - 1) THEN "uint64" ELSE "int64", v[2]>>
    [] v[1] = "text" -> <<"bytes", Bytes(v[2], "utf8")>>
    [] v[1] = "member" ->
         <<"bytes", <<"label", IF v[2] = 0 THEN "" ELSE c.labels[v[2]]>>>>
    [] v[1] = "members" -> <<"bytes", <<"labels", {c.labels[i] : i \in v[2]}>>>>
    [] v[1] = "float" -> <<"float", v>>
    [] v[1] \in {"exact", "blob", "json", "bits"} -> <<"bytes", v>>
    [] v[1] \in {"time", "zero", "partial"} ->
         IF ~parseTime \/ c.type = "time" THEN <<"bytes", v>>
         ELSE CASE v[1] = "time" -> <<"Time", v[2]>>
                [] v[1] = "zero" -> <<"Time", -1>>   \* January 1 of year 1
                [] v[1] = "partial" -> Err

-----------------------------------------------------------------------------
(* The scanner                                                               *)

\* A mutant: members are counted from zero.
MemberFromZero(labels, label) == SelectInSeq(labels, LAMBDA l : l = label) - 1

\* enumMember, indexOfString: the number of a member, 0 when there is none.
MemberNumber(labels, label) == SelectInSeq(labels, LAMBDA l : l = label)

\* asInteger, parseInt, parseUint: the bits of a BIT column are read as digits.
AsInteger(c, d) ==
  LET tag == IF c.unsigned THEN "uint64" ELSE "int64"
  IN  CASE d[1] \in {"int64", "uint64"} -> <<tag, d[2]>>
        [] d[1] = "bytes" /\ d[2][1] = "bits" /\ d[2][2] \in 48..57 -> <<tag, d[2][2] - 48>>
        [] OTHER -> Err

\* asString: a Time is written with the time of day, and without the zeros a
\* fraction ends with.  The server writes a DATE without the one and a fraction
\* with the others, and times are whole hours here.
AsString(c, d) ==
  CASE d[1] # "Time" -> d[2]
    [] c.type = "date" \/ c.digits > 0 -> <<"stamp", d[2]>>
    [] OTHER -> <<"time", d[2]>>

\* toEventValue, with asBytes and asFloat.
ToEventValue(c, d) ==
  CASE d \in {Null, Err} -> d
    [] c.type = "enum" ->
         IF d[2][2] = "" THEN <<"int64", 0>>
         ELSE LET n == MemberNumber(c.labels, d[2][2])
              IN  IF n = 0 THEN Err ELSE <<"int64", n>>
    [] c.type = "set" ->
         LET ns == {MemberNumber(c.labels, l) : l \in d[2][2]}
         IN  IF 0 \in ns THEN Err ELSE <<"mask", ns>>
    [] c.type = "decimal" -> <<"decimal", d[2]>>
    [] c.type \in TimeTypes -> <<"string", AsString(c, d)>>
    [] c.type \in ByteTypes -> <<"bytes", d[2]>>
    [] c.type \in CharTypes -> <<"string", d[2]>>
    [] c.type \in IntTypes \cup {"bool", "year", "bit"} -> AsInteger(c, d)
    [] c.type = "float" -> d
    [] OTHER -> Err

-----------------------------------------------------------------------------
(* The plan                                                                  *)

\* Map and mapType: how a column is represented, Err when it is not.
MapKind(c) ==
  CASE c.generated -> "none"
    [] c.type \in IntTypes -> IF c.unsigned THEN "uint" ELSE "int"
    [] c.type \in {"enum", "set"} -> IF c.labels = <<>> THEN "none" ELSE c.type
    [] c.type \in CharTypes -> "string"
    [] c.type \in {"bool", "decimal", "float", "json", "bit", "year"} \cup TimeTypes -> c.type
    [] c.type = "blob" -> "bytes"
    [] OTHER -> "none"

\* mapType: the type a column has in a mapping of Elasticsearch.
ElasticType(c) ==
  CASE c.type = "bool" -> "boolean"
    [] c.type = "tinyint" -> IF c.unsigned THEN "short" ELSE "byte"
    [] c.type = "int" -> IF c.unsigned THEN "long" ELSE "integer"
    [] c.type = "bigint" -> IF c.unsigned THEN "unsigned_long" ELSE "long"
    [] c.type \in {"decimal", "char", "enum", "set"} -> "keyword"
    [] c.type \in {"date", "datetime", "timestamp"} -> "date"
    [] c.type \in {"time", "bit"} -> "long"
    [] c.type = "year" -> "short"
    [] c.type = "blob" -> "binary"
    [] c.type = "json" -> "object"
    [] OTHER -> c.type

\* typesCompatible: the integers from narrow to wide, and a text with a keyword
\* beside it.
IntegerTypes == <<"byte", "short", "integer", "long", "unsigned_long">>

TypesCompatible(want, actual) ==
  \/ actual = want
  \/ \E i, j \in DOMAIN IntegerTypes : i < j /\ want = IntegerTypes[i] /\ actual = IntegerTypes[j]
  \/ want = "object" /\ actual \in {"nested", "flattened"}
  \/ <<want, actual>> \in {<<"keyword", "text with keyword">>, <<"float", "double">>}

\* charsetNeedsConversion; "none" is a charset it does not know.
CharsetNeedsConversion(c) ==
  CASE c.charset \in {"", "utf8"} -> "no" [] c.charset = "latin1" -> "yes" [] OTHER -> "none"

IsInt(g) == g[1] \in {"int64", "int32", "uint64", "uint32"}

\* appendUint refuses what arrived negative, of 64 bits only.
AppendUint(g) ==
  IF ~IsInt(g) \/ (g[1] = "int64" /\ g[2] < 0) THEN Err ELSE <<"number", g[2]>>

\* appendEnum and appendSet know the labels the plan was compiled with.
AppendEnum(c, g) ==
  CASE ~IsInt(g) -> Err
    [] IsInt(g) /\ g[2] = 0 -> <<"string", <<"label", "">>>>
    [] IsInt(g) /\ g[2] \in DOMAIN c.labels -> <<"string", <<"label", c.labels[g[2]]>>>>
    [] OTHER -> Err

AppendSet(c, g) ==
  IF g[1] = "mask" THEN <<"array", {c.labels[i] : i \in g[2] \cap DOMAIN c.labels}>> ELSE Err

\* stringValue: every byte of latin1 is taken for a character.
StringValue(c, g) ==
  CASE g[1] \notin {"string", "bytes"} -> Err
    [] CharsetNeedsConversion(c) = "yes" ->
        (CASE g[2][1] = "latin1" -> <<"string", <<"utf8", g[2][2]>>>>
           [] g[2][1] = "utf8"   -> <<"string", <<"garbled", g[2][2]>>>>
           [] OTHER -> <<"string", g[2]>>)
    [] g[2][1] = "latin1" -> Err
    [] OTHER -> <<"string", g[2]>>

\* mapping.on_zero_date: what a date that is none is written as.
ZeroDate(cfg) ==
  CASE cfg.zeroDate = "null"  -> Null
    [] cfg.zeroDate = "epoch" -> <<"instant", 0>>
    [] cfg.zeroDate = "error" -> Err

\* appendTime with parseMySQLTime: a reading of the source's clock, but for a
\* timestamp.
AppendTime(c, g, cfg) ==
  CASE g[1] # "string" -> Err
    [] g[2][1] = "zero" -> ZeroDate(cfg)
    [] g[2][1] \in {"time", "stamp"} ->
         <<"instant", g[2][2] - (IF c.type = "timestamp" THEN 0 ELSE cfg.zone)>>
    [] OTHER -> Err

\* decimalText: the digits of a decimal, however it is held.
DecimalText(g) == IF g[1] \in {"decimal", "string", "bytes", "float"} THEN g[2] ELSE Err

\* appendDecimal: text for Elasticsearch, a number for ClickHouse.
AppendDecimal(g, cfg) ==
  IF DecimalText(g) = Err THEN Err
  ELSE <<IF cfg.dialect = "clickhouse" THEN "exact" ELSE "string", DecimalText(g)>>

\* appendRawJSON and appendBase64 take bytes and text for what they are.
AppendRaw(tag, g) == IF g[1] \in {"bytes", "string"} THEN <<tag, g[2]>> ELSE Err

\* encodeValue.
EncodeValue(c, g, cfg) ==
  LET kind == MapKind(c)
  IN  CASE g = Null -> Null
        [] kind = "bool" -> IF IsInt(g) THEN <<"bool", g[2] # 0>> ELSE Err
        [] kind \in {"int", "year", "time", "bit"} ->
             IF IsInt(g) THEN <<"number", g[2]>> ELSE Err
        [] kind = "uint" -> AppendUint(g)
        [] kind = "float" -> IF g[1] = "float" THEN <<"float", g[2]>> ELSE Err
        [] kind = "decimal" -> AppendDecimal(g, cfg)
        [] kind = "enum" -> AppendEnum(c, g)
        [] kind = "set" -> AppendSet(c, g)
        [] kind = "json" -> AppendRaw("json", g)
        [] kind = "bytes" -> AppendRaw("base64", g)
        [] kind = "string" -> StringValue(c, g)
        [] kind \in TimeTypes -> AppendTime(c, g, cfg)

\* keyString: the digits of a number, and whatever bytes anything else is.
KeyString(g) ==
  CASE g = Null -> Err [] IsInt(g) -> <<"digits", g[2]>> [] OTHER -> <<"raw", g[2]>>

-----------------------------------------------------------------------------
(* What the document should hold                                             *)

\* The field of a stored value, by what README.md and typemap.go say of its
\* type; Err when the configuration says that there is none.
Meaning(c, v, cfg) ==
  CASE v = Null -> Null
    [] v[1] = "num" -> IF c.type = "bool" THEN <<"bool", v[2] # 0>> ELSE <<"number", v[2]>>
    [] v[1] = "bits" -> <<"number", v[2]>>
    [] v[1] = "exact" -> <<IF cfg.dialect = "clickhouse" THEN "exact" ELSE "string", v>>
    [] v[1] = "float" -> <<"float", v>>
    [] v[1] = "text" -> <<"string", Bytes(v[2], "utf8")>>
    [] v[1] = "blob" -> <<"base64", v>>
    [] v[1] = "json" -> <<"json", v>>
    [] v[1] = "member" ->
         <<"string", <<"label", IF v[2] = 0 THEN "" ELSE c.labels[v[2]]>>>>
    [] v[1] = "members" -> <<"array", {c.labels[i] : i \in v[2]}>>
    [] v[1] = "time" ->
        (CASE c.type = "time" -> <<"number", v[2]>>
           [] c.type = "datetime" -> <<"instant", v[2] - cfg.zone>>
           [] OTHER -> <<"instant", v[2]>>)
    [] v[1] = "zero" -> ZeroDate(cfg)
    [] v[1] = "partial" -> Err
================================================================================
