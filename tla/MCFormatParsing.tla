--------------------------- MODULE MCFormatParsing ---------------------------
EXTENDS FormatParsing, SequencesExt

(* metadata/sources.yaml: telemetry and yield declare their format, and    *)
(* the schema of mes has no additional properties.                         *)
MCSources == {"mes", "telemetry", "yield"}
MCDeclared == [mes |-> "AUTO", telemetry |-> "JSON", yield |-> "CSV"]
MCOpen == {"telemetry", "yield"}
MCMime ==
  [m \in {"application/json", "application/xml", "text/csv", "text/plain",
          "text/yaml", "application/octet-stream", "parquet"} |->
     CASE m = "application/json" -> "JSON"
       [] m = "application/xml" -> "XML"
       [] m = "text/csv" -> "CSV"
       [] m = "text/plain" -> "TEXT"
       [] m = "text/yaml" -> "YAML"
       [] m = "application/octet-stream" -> "BINARY"
       [] m = "parquet" -> "PARQUET"]

(* Leaves with and without text and attributes; elements of up to three    *)
(* leaves; documents of up to three of those with one child or more.       *)
Element(tags, attributes, texts, children) ==
  [tag : tags, attributes : attributes, text : texts, children : children]
Leaves == Element({"a", "b"}, {"none", "id"}, {"", "blank", "words"}, {<< >>})
Plain == {e \in Leaves : e.attributes = "none" /\ e.text # "blank"}
Groups == Element({"a"}, {"none", "id"}, {"blank", "words"}, BoundedSeq(Plain, 3) \ {<< >>})
Few == {e \in Groups : e.attributes = "none" /\ e.text = "blank" /\ Len(e.children) = 2}
Nested == Element({"root"}, {"none"}, {"blank"}, BoundedSeq(Few, 2) \ {<< >>})
MCElements == Leaves \union Groups \union Nested
MCDepth == [e \in MCElements |-> IF e \in Leaves THEN 0 ELSE IF e \in Groups THEN 1 ELSE 2]
=============================================================================
