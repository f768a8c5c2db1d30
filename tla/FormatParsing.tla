---------------------------- MODULE FormatParsing ----------------------------
(***************************************************************************)
(* From the bytes of a request to the dictionary that is ingested: the      *)
(* choice of a parser by the source's input_format and the Content-Type     *)
(* header (FormatParserRegistry), what each parser makes of bytes written   *)
(* in its own or another format, and the schema's verdict on the result.    *)
(* A body is the format its client wrote and whether the document in it     *)
(* conforms to the source's schema; a payload is named for its keys.  Of an *)
(* XML document the elements count: its payload is what the conversion of   *)
(* the elements to dictionaries and lists makes of them.                    *)
(***************************************************************************)
EXTENDS Naturals, Sequences, FiniteSets

CONSTANTS
  Sources,
  Declared,    \* input_format of each source, "AUTO" where it has none
  Open,        \* sources whose schema takes properties of any type
  Mime,        \* the MIME aliases: format of each known media type
  Elements,    \* XML elements: tag, attributes, text and a sequence of children
  Depth        \* levels of children below an element

Parsed == {"JSON", "XML", "CSV", "YAML", "TEXT"}   \* formats with a text parser
Formats == Parsed \union {"PARQUET", "BINARY"}
ASSUME DeclaredAssumption == Declared \in [Sources -> Parsed \union {"AUTO"}]
ASSUME MimeAssumption == Mime \in [DOMAIN Mime -> Formats]

(* A document is a tree, and a name in XML has no "@" and no "#".           *)
ASSUME TreeAssumption ==
  /\ Depth \in [Elements -> Nat]
  /\ \A e \in Elements :
       /\ e.children \in Seq(Elements)
       /\ \A i \in DOMAIN e.children : Depth[e.children[i]] < Depth[e]
ASSUME NameAssumption == \A e \in Elements : e.tag \notin {"@attributes", "#text"}

ASSUME OpenAssumption == Open \subseteq Sources

(* What a client may send: a document of a format, "TEXT" what is of none,  *)
(* "bytes" what is not UTF-8.                                              *)
Headers == DOMAIN Mime \union {"none", "unknown"}
Written == Parsed \union {"bytes"}

VARIABLES source, header, written, conforming, element,
          stage, format, payload, root, verdict

body == <<source, header, written, conforming, element>>
vars == <<body, stage, format, payload, root, verdict>>
-----------------------------------------------------------------------------
(* _element_to_dict.  A value is a text, a dictionary or a list; text of    *)
(* white space only counts as none.                                        *)
Missing == [text |-> ""]
With(d, key, value) ==
  [k \in DOMAIN d \union {key} |-> IF k = key THEN value ELSE d[k]]
Stripped(e) == IF e.text = "blank" THEN "" ELSE e.text
WithText(d, e) == IF Stripped(e) = "" THEN d ELSE With(d, "#text", [text |-> Stripped(e)])
Attributes(e) ==
  [k \in {key \in {"@attributes"} : e.attributes # "none"} |-> [text |-> e.attributes]]

(* A second child of one tag makes a list of the two, a later one goes on  *)
(* that list.  Variant: whatever there is makes a list with the new child. *)
AddedNesting(d, tag, value) ==
  With(d, tag, IF tag \in DOMAIN d THEN [list |-> <<d[tag], value>>] ELSE value)
Added(d, tag, value) ==
  With(d, tag,
    IF tag \notin DOMAIN d THEN value
    ELSE IF "list" \in DOMAIN d[tag] THEN [list |-> Append(d[tag].list, value)]
    ELSE [list |-> <<d[tag], value>>])

(* The loop over the children of e, the recursive calls of which returned  *)
(* values; result[n] is the dictionary after n of them.                    *)
Merged(e, values) ==
  LET result[n \in 0..Len(e.children)] ==
        IF n = 0 THEN Attributes(e)
        ELSE Added(result[n - 1], e.children[n].tag, values[n])
  IN  result[Len(e.children)]
Converted(e, values) ==
  IF e.children = << >> /\ e.attributes = "none" THEN [text |-> Stripped(e)]
  ELSE [dict |-> WithText(Merged(e, values), e)]
ElementToDict[e \in Elements] ==
  Converted(e, [i \in DOMAIN e.children |-> ElementToDict[e.children[i]]])
-----------------------------------------------------------------------------
Init ==
  /\ source \in Sources /\ header \in Headers
  /\ written \in Written /\ conforming \in BOOLEAN
  /\ element \in Elements /\ (written # "XML" => element.children = << >>)
  /\ stage = "resolve" /\ root = Missing
  /\ format = "none" /\ payload = "none" /\ verdict = "none"

(* _resolve_format: a declared format wins, then a known media type.       *)
ResolveFormat(s, h) ==
  CASE Declared[s] \in Parsed -> Declared[s]
    [] Declared[s] \notin Parsed /\ h \in DOMAIN Mime -> Mime[h]
    [] OTHER -> "JSON"

Resolve ==
  /\ stage = "resolve"
  /\ format' = ResolveFormat(source, header)
  /\ stage' = "parse"
  /\ UNCHANGED <<body, payload, root, verdict>>

(* What parse_bytes of a format may return for bytes written in another:   *)
(* "error" is its ValidationException, "crash" an exception that is not     *)
(* caught there (int() of too many digits, a date that is none, a CSV field *)
(* above its limit).  A document that is no mapping is wrapped as "value".  *)
(* PyYAML is no superset of JSON: it refuses some of it (tabs), and alters  *)
(* some (1e5 becomes a string); of YAML it makes dates of unquoted          *)
(* timestamps, and YAML 1.2 is altered likewise.  Other text it reads as a  *)
(* scalar or, if it looks so, as a mapping; some text is also a JSON        *)
(* scalar; CSV and TEXT take any text, CSV not quite; BINARY takes          *)
(* anything, and PARQUET too where pyarrow is not installed.               *)
Readings(f, w) ==
  CASE f = "BINARY" -> {"content_base64"}
    [] f = "PARQUET" -> {"content_base64 parser format", "columns rows row_count", "error"}
    [] f \in Parsed /\ w = "bytes" -> {"error"}
    [] f = "TEXT" /\ w # "bytes" -> {"text"}
    [] f = "CSV" /\ w = "CSV" -> {"columns rows row_count", "crash"}
    [] f = "CSV" /\ w \in Parsed \ {"CSV"} -> {"columns rows row_count", "error", "crash"}
    [] f = "XML" /\ w = "XML" -> {"root"}
    [] f = "XML" /\ w \in Parsed \ {"XML"} -> {"error"}
    [] f = "JSON" /\ w = "JSON" -> {"document", "value", "crash"}
    [] f = "JSON" /\ w \in {"YAML", "CSV", "TEXT"} -> {"value", "error", "crash"}
    [] f = "JSON" /\ w = "XML" -> {"error"}
    [] f = "YAML" /\ w = "JSON" -> {"document", "altered document", "value", "error", "crash"}
    [] f = "YAML" /\ w = "YAML" ->
         {"document", "altered document", "dated document", "value", "error", "crash"}
    [] f = "YAML" /\ w \in {"XML", "CSV", "TEXT"} -> {"value", "mapping", "error", "crash"}

Parse ==
  /\ stage = "parse"
  /\ payload' \in Readings(format, written)
  /\ root' = IF payload' = "root" THEN ElementToDict[element] ELSE root
  /\ \/ payload' = "error" /\ stage' = "done" /\ verdict' = "refused"
     \/ payload' = "crash" /\ stage' = "done" /\ verdict' = "failed"
     \/ payload' \notin {"error", "crash"} /\ stage' = "validate" /\ UNCHANGED verdict
  /\ UNCHANGED <<body, format>>

(* Every schema of metadata/sources.yaml is an object with at least three  *)
(* required properties, eventType among them: the fixed keys of the other  *)
(* parsers never satisfy one, so a body read as a table is refused by every *)
(* source, yield included, which declares CSV.  A date is no string, so it  *)
(* passes only where a schema takes properties of any type; what else YAML *)
(* alters may make or break the type that a property asks for.             *)
Verdicts(s, p, ok) ==
  CASE p = "document" -> {ok}
    [] p = "dated document" -> IF s \in Open THEN {FALSE, ok} ELSE {FALSE}
    [] p = "altered document" -> BOOLEAN
    [] OTHER -> {FALSE}

Validate ==
  /\ stage = "validate"
  /\ \E valid \in Verdicts(source, payload, conforming) :
       verdict' = IF valid THEN "accepted" ELSE "refused"
  /\ stage' = "done"
  /\ UNCHANGED <<body, format, payload, root>>

Quiescent == stage = "done" /\ UNCHANGED vars

Next == Resolve \/ Parse \/ Validate \/ Quiescent
Spec == Init /\ [][Next]_vars
-----------------------------------------------------------------------------
(* The payload of an XML document holds, under each tag, the values of all *)
(* children of the tag in their order, however many there are and whatever *)
(* they contain, beside the attributes and the text: what an XML file says *)
(* can be read back from its normalized object, up to white space and the  *)
(* order of unlike siblings.                                               *)
Filed(d, tag) == IF "list" \in DOMAIN d[tag] THEN d[tag].list ELSE <<d[tag]>>
Alike(e, tag, n) == {i \in 1..n : e.children[i].tag = tag}
XmlKeepsEveryChild ==
  payload = "root" /\ element.children # << >> =>
    LET last == Len(element.children)
    IN  /\ DOMAIN root.dict =
             {element.children[i].tag : i \in 1..last}
               \union {key \in {"@attributes"} : element.attributes # "none"}
               \union {key \in {"#text"} : Stripped(element) # ""}
        /\ element.attributes # "none" =>
             root.dict["@attributes"] = [text |-> element.attributes]
        /\ Stripped(element) # "" => root.dict["#text"] = [text |-> Stripped(element)]
        /\ \A i \in 1..last :
             LET tag == element.children[i].tag
                 filed == Filed(root.dict, tag)
             IN  /\ Len(filed) = Cardinality(Alike(element, tag, last))
                 /\ filed[Cardinality(Alike(element, tag, i))] =
                      ElementToDict[element.children[i]]
=============================================================================
