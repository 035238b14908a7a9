---------------------------- MODULE CustomFields ----------------------------
(***************************************************************************)
(* One custom field of one issue.  The value lies in one of three columns, *)
(* chosen by the field's type when it is written; which column is read is  *)
(* decided by the type there is when it is read.  A field gets its type    *)
(* from the first value written to it, and every import of field metadata  *)
(* may give it another while the values stay where they are.               *)
(*                                                                         *)
(* The types "date", "datetime", "user" are stored and read like "string". *)
(***************************************************************************)
EXTENDS Integers

CONSTANT WriteTimes   \* tells apart values written at different times

VARIABLES
  mapped,    \* the import file's own name for this field: its kind, or "no"
  ftype,     \* custom_fields.field_type, or "none" before the field exists
  cell,      \* the columns of the issue's value, all None without a row
  written    \* history: the last value given, how, and under which type

customVars == <<mapped, ftype, cell, written>>

FieldTypes == {"string", "number", "select", "multiselect"}

\* What clients send: text, text that is a number, a number, a list or an object.
CustomKinds == {"text", "numeral", "num", "list"}
CustomValues == [kind : CustomKinds, at : WriteTimes]
NoValue == [kind |-> "null", at |-> 0]

NoCell == [string |-> NoValue, number |-> NoValue, json |-> NoValue]

CustomInit ==
  /\ mapped \in {"no", "string", "number", "json"}
  /\ ftype = "none" /\ cell = NoCell
  /\ written = [value |-> NoValue, how |-> "none", type |-> "none"]
-----------------------------------------------------------------------------
\* str(value) and float(value): the latter fails for text and lists.
AsString(v) ==
  [v EXCEPT !.kind = CASE v.kind \in {"num", "numeral"} -> "numeral" [] v.kind = "null" -> "null"
                       [] OTHER -> "text"]
IsFloat(v) == v.kind \in {"num", "numeral"}

\* The type of a field that a value creates.
Inferred(v) ==
  CASE v.kind = "list" -> "multiselect" [] v.kind = "num" -> "number" [] OTHER -> "string"

TypeAfter(v) == IF ftype = "none" THEN Inferred(v) ELSE ftype

\* Fault for StoredIn: only the column that is written is set.
StoredOver(old, type, v) ==
  CASE type = "number" /\ IsFloat(v) -> [old EXCEPT !.number = [v EXCEPT !.kind = "num"]]
    [] type \in {"select", "multiselect"} /\ v.kind = "list" -> [old EXCEPT !.json = v]
    [] OTHER -> [old EXCEPT !.string = AsString(v)]

\* Fault for StoredIn: a list goes to the json column of every field.
StoredByValue(old, type, v) ==
  IF v.kind = "list" THEN [NoCell EXCEPT !.json = v] ELSE StoredOver(NoCell, type, v)

\* All columns are cleared, then one is written: the type's own if it can take
\* the value, and the string otherwise.
StoredIn(old, type, v) == StoredOver(NoCell, type, v)

\* The issue as REST shows it and an export writes it.
Reading ==
  CASE ftype = "number" -> cell.number
    [] ftype \in {"select", "multiselect"} /\ cell.json # NoValue -> cell.json
    [] OTHER -> cell.string

\* Creating or editing the issue; null clears the columns.
WriteField(v) ==
  /\ ftype' = TypeAfter(v)
  /\ cell' = StoredIn(cell, ftype', v)
  /\ written' = [value |-> v, how |-> "rest", type |-> ftype']
  /\ UNCHANGED mapped

\* An import drops the issue's values first.  The file names the field by its
\* id: a mapped field is then left out.
ImportById(v) ==
  /\ IF mapped # "no" \/ v = NoValue
     THEN cell' = NoCell /\ UNCHANGED ftype
     ELSE ftype' = TypeAfter(v) /\ cell' = StoredIn(NoCell, ftype', v)
  /\ written' = [value |-> IF mapped = "no" THEN v ELSE NoValue, how |-> "import", type |-> ftype']
  /\ UNCHANGED mapped

MappedTypes == [string |-> "string", number |-> "number", json |-> "multiselect"]

\* By its own name, a mapped field is stored by the kind of the map, whatever
\* type the field has.
ImportByName(v) ==
  /\ mapped # "no" /\ v # NoValue
  /\ ftype' = IF ftype = "none" THEN MappedTypes[mapped] ELSE ftype
  /\ cell' = CASE mapped = "number" /\ IsFloat(v) -> [NoCell EXCEPT !.number = [v EXCEPT !.kind = "num"]]
               [] mapped = "json" -> [NoCell EXCEPT !.json = v]
               [] OTHER -> [NoCell EXCEPT !.string = AsString(v)]
  /\ written' = [value |-> v, how |-> "name", type |-> ftype']
  /\ UNCHANGED mapped

\* The issue's own export, imported again.
Reimport == ImportById(Reading)

\* The types as the field listing names them, and as an import reads them.
ListedAs(type) ==
  CASE type = "select" -> "option" [] type = "multiselect" -> "array" [] OTHER -> type

\* Fault for ReadAs: a select field comes back as a string field.
ReadAsString(name) == IF name = "array" THEN "multiselect" ELSE IF name = "number" THEN "number" ELSE "string"

ReadAs(name) ==
  CASE name = "option" -> "select" [] name = "array" -> "multiselect"
    [] name = "number" -> "number" [] OTHER -> "string"

\* Field metadata of another server, a configuration file, or the own listing.
Retype(type) ==
  /\ ftype' = type
  /\ UNCHANGED <<mapped, cell, written>>

Relist ==
  /\ ftype # "none"
  /\ ftype' = ReadAs(ListedAs(ftype))
  /\ UNCHANGED <<mapped, cell, written>>

CustomNext ==
  \/ \E v \in CustomValues \cup {NoValue} : WriteField(v) \/ ImportById(v) \/ ImportByName(v)
  \/ Reimport \/ Relist
  \/ \E type \in FieldTypes : Retype(type)

CustomSpec == CustomInit /\ [][CustomNext]_customVars
-----------------------------------------------------------------------------
\* A field never shows a value from before the last write, whichever column
\* that was in and whatever types the field has had since: it shows the last
\* one or nothing (issue_service.py:734-757, 1243-1265, import_service.py:591).
NeverAnOldValue ==
  Reading = NoValue \/ Reading.at = written.value.at

\* The value belongs to the field's type, so its own column takes it.
Fits(v, type) == v # NoValue /\ (type = "number" => IsFloat(v))

KindFits == [string |-> FieldTypes \ {"number"}, number |-> {"number"}, json |-> {"select", "multiselect"}]

\* Under the type it was written with, a value that fits the type is shown
\* again, however it came in; a mapped field is imported by its kind and not
\* by its type, so there the two have to agree (import_service.py:600-659).
ReadsBack ==
  /\ Fits(written.value, written.type) /\ ftype = written.type
  /\ written.how = "name" => written.type \in KindFits[mapped]
  => Reading # NoValue /\ Reading.at = written.value.at

\* Exporting an issue and the field listing and importing both again shows the
\* same value, although the import drops the row and decides anew which column
\* to write: except for a field the file format has a name of its own for,
\* which an import by id loses (fields.py:241-270, import_service.py:366-407, 624-659).
ExportsAndReturns ==
  [][ /\ Relist => Reading' = Reading
      /\ Reimport /\ mapped = "no" => Reading' = Reading ]_customVars

\* What a custom field shows, whatever happens to its type, and that an export
\* carries it (issue_service.py:734-757, import_service.py:591-659).
ValuesOutliveTypes == ExportsAndReturns /\ [](NeverAnOldValue /\ ReadsBack)
=============================================================================
