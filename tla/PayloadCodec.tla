---------------------------- MODULE PayloadCodec ----------------------------
(***************************************************************************)
(* How the password manager's payload is written and read                  *)
(* (src/src/pm/pm_payload.c): eight kinds of records, each a CBOR map of   *)
(* numbered fields.  Every reader takes the pairs in any order, keeps the  *)
(* pairs it does not know as raw items and fills in what is missing; every *)
(* writer writes all known fields, then the kept ones.                     *)
(*                                                                         *)
(* An item is <<"uint", n>>, <<"text", s>>, <<"bytes", length>>,           *)
(* <<"bool", b>>, <<"list", items>> or <<"map", pairs>>, a pair being      *)
(* <<field, item>>; fields go by name instead of number.  A record in      *)
(* memory is [f |-> values by field, unknown |-> pairs].  The bytes under  *)
(* the items are the business of module Cbor.                              *)
(***************************************************************************)
EXTENDS Integers, Sequences, FiniteSets, SequencesExt, TLC

CONSTANTS Null,         \* a NULL pointer, or what is not there
          Refused,      \* the answer to what cannot be read or written
          MaxTags, MaxUrls, MaxFields, MaxRefs, MaxHistoryItems,  \* per entry
          MaxItems,     \* entries, groups or attachments of a payload
          MaxUnknown,   \* PM_PAYLOAD_MAX_UNKNOWN_FIELDS
          Max16, Max32, \* UINT16_MAX and UINT32_MAX
          DigestLen, UuidLen,
          Embedded,     \* for texts with a NUL inside, what precedes it
          Documents     \* the maps the readers are given: for each kind of
                        \* record the pairs they start with and are built from

VARIABLES kind,         \* the kind of record being read
          doc           \* the pairs of its map, in order

codecVars == <<kind, doc>>

-----------------------------------------------------------------------------
(* The fields of each kind of record and how their values are read:        *)
(*   "text"   a string, refused when it appears twice                      *)
(*   "version" the number PM_PAYLOAD_SCHEMA_VERSION                        *)
(*   "uint"   a number up to the given one, the last one wins              *)
(*   "bool"   the last one wins                                            *)
(*   "texts"  a list of at most so many strings, the last one wins         *)
(*   "texts1" the same, refused when a non-empty one came before           *)
(*   "digest" bytes of length 0 or DigestLen, only the latter is kept      *)
(*   "bytes"  refused when non-empty bytes came before                     *)
(*   "uuid"   bytes of length UuidLen                                      *)
(*   "raw"    any item, kept as it is                                      *)
(*   "records" a list of at most so many records, the last one wins        *)
(*   "append" a list of records added to those already read                *)
(*   "record" one record                                                   *)

SchemaVersion == 1
AnyNumber == -1      \* no bound on a number
Field(type) == [type |-> type, max |-> AnyNumber, of |-> ""]
Bounded(type, max) == [type |-> type, max |-> max, of |-> ""]
Records(type, of, max) == [type |-> type, max |-> max, of |-> of]
All(names, field) == [n \in names |-> field]

CustomFieldFields ==
  All({"name", "text_value", "binary_ref"}, Field("text"))
  @@ ("type" :> Bounded("uint", 5)) @@ ("date" :> Field("uint"))

AttachmentRefFields == "attachment_id" :> Field("text")

HistoryTexts == All({"source", "actor", "id", "title", "username", "password", "url", "notes", "group_id"},
                    Field("text"))

HistoryFields ==
  HistoryTexts @@ All({"modified", "created", "updated"}, Field("uint"))
  @@ ("tags" :> Bounded("texts", MaxTags)) @@ ("favorite" :> Field("bool"))

AttachmentFields ==
  All({"id", "name", "mime"}, Field("text")) @@ ("size" :> Field("uint"))
  @@ ("sha256" :> Field("digest")) @@ ("blob" :> Field("bytes"))

EntryTexts == All({"id", "title", "username", "password", "url", "notes", "group_id", "color"}, Field("text"))

EntryScalars ==
  All({"created", "updated", "accessed", "expiry"}, Field("uint"))
  @@ ("warn_days" :> Bounded("uint", Max16)) @@ All({"favorite", "fresh"}, Field("bool"))

EntryLists ==
  ("tags" :> Bounded("texts1", MaxTags)) @@ ("urls" :> Bounded("texts1", MaxUrls))

EntryRecords ==
  ("custom_fields" :> Records("records", "custom_field", MaxFields))
  @@ ("attachment_refs" :> Records("records", "attachment_ref", MaxRefs))
  @@ ("history" :> Records("records", "history", MaxHistoryItems))

EntryFields == EntryTexts @@ EntryScalars @@ EntryLists @@ EntryRecords

GroupFields ==
  All({"id", "parent_id", "title", "icon_id", "color", "notes"}, Field("text"))
  @@ All({"created", "updated", "accessed"}, Field("uint")) @@ ("custom_data" :> Field("raw"))

RecycleBinFields ==
  ("enabled" :> Field("bool")) @@ ("group_id" :> Field("text")) @@ ("retention" :> Bounded("uint", Max32))

PayloadLists ==
  ("entries" :> Records("append", "entry", MaxItems)) @@ ("groups" :> Records("append", "group", MaxItems))
  @@ ("attachments" :> Records("append", "attachment", MaxItems))

PayloadScalars ==
  ("schema" :> Field("version")) @@ All({"created", "updated"}, Field("uint")) @@ ("uuid" :> Field("uuid"))

PayloadFields ==
  PayloadScalars @@ PayloadLists @@ ("recycle_bin" :> Records("record", "recycle_bin", 1))
  @@ ("audit_cache" :> Field("raw"))

Fields(k) == CASE k = "custom_field" -> CustomFieldFields
               [] k = "attachment_ref" -> AttachmentRefFields
               [] k = "history" -> HistoryFields
               [] k = "attachment" -> AttachmentFields
               [] k = "entry" -> EntryFields
               [] k = "group" -> GroupFields
               [] k = "recycle_bin" -> RecycleBinFields
               [] k = "payload" -> PayloadFields

-----------------------------------------------------------------------------
(* Reading.                                                                *)

(* An item nested deeper than bio_cbor_skip follows cannot be kept raw. *)
Deep == <<"deep">>

(* dup_bytes_as_cstr: in memory a text ends at its first NUL. *)
CString(s) == IF s \in DOMAIN Embedded THEN Embedded[s] ELSE s

Unset(type) == CASE type \in {"text", "digest", "uuid", "raw", "record"} -> Null
                 [] type \in {"uint", "bytes"} -> 0
                 [] type = "version" -> SchemaVersion
                 [] type = "bool" -> FALSE
                 [] OTHER -> <<>>

(* A zeroed record; pm_payload_init sets the version of a payload. *)
Blank(k) == [f |-> [n \in DOMAIN Fields(k) |-> Unset(Fields(k)[n].type)], unknown |-> <<>>]

Texts(items) == [i \in DOMAIN items |-> CString(items[i][2])]

IsTexts(v, max) == v[1] = "list" /\ Len(v[2]) <= max /\ \A i \in DOMAIN v[2] : v[2][i][1] = "text"

(* ensure_entry_url_alias: an entry's url and the first of its urls are one. *)
UrlAlias(f) ==
  LET url == IF f.url # Null THEN f.url ELSE IF f.urls # <<>> THEN f.urls[1] ELSE ""
      urls == IF f.urls = <<>> /\ url # "" THEN <<url>> ELSE f.urls
  IN  [f EXCEPT !.url = IF urls # <<>> THEN urls[1] ELSE url, !.urls = urls]

(* The last lines of every reader: a missing text is the empty one. *)
FillTexts(k, f) ==
  [n \in DOMAIN f |-> IF Fields(k)[n].type = "text" /\ f[n] = Null THEN "" ELSE f[n]]

SizeOf(f) == IF f.size # 0 THEN f.size ELSE f.blob

Required == {"schema", "created", "updated", "entries"}

(* What a reader does once the map has been read; seen are its fields. *)
Finish(k, r, seen) ==
  CASE k = "entry" -> [r EXCEPT !.f = FillTexts(k, UrlAlias(@))]
    [] k = "attachment" -> [r EXCEPT !.f = FillTexts(k, [@ EXCEPT !.size = SizeOf(r.f)])]
    [] k = "payload" -> IF Required \subseteq seen THEN r ELSE Refused
    [] OTHER -> [r EXCEPT !.f = FillTexts(k, @)]

(* unknown_fields_append after capture_next_item *)
KeepUnknown(r, p) ==
  IF p[2] = Deep \/ Len(r.unknown) >= MaxUnknown THEN Refused
  ELSE [r EXCEPT !.unknown = Append(@, p)]

(* pm_payload_append_entry, _group and _attachment store a copy made by     *)
(* entry_clone, group_clone or attachment_clone, which tidy it up again.    *)
Clone(k, r) == Finish(k, r, DOMAIN r.f)

RECURSIVE Decode(_, _)

(* The value a reader stores for field n of a record that has old in it. *)
Value(fd, old, v) ==
  CASE fd.type = "text" -> IF v[1] = "text" /\ old = Null THEN CString(v[2]) ELSE Refused
    [] fd.type = "version" -> IF v = <<"uint", SchemaVersion>> THEN v[2] ELSE Refused
    [] fd.type = "uint" -> IF v[1] = "uint" /\ (fd.max = AnyNumber \/ v[2] <= fd.max) THEN v[2] ELSE Refused
    [] fd.type = "bool" -> IF v[1] = "bool" THEN v[2] ELSE Refused
    [] fd.type = "texts" -> IF IsTexts(v, fd.max) THEN Texts(v[2]) ELSE Refused
    [] fd.type = "texts1" -> IF IsTexts(v, fd.max) /\ old = <<>> THEN Texts(v[2]) ELSE Refused
    [] fd.type = "digest" -> IF v[1] # "bytes" \/ v[2] \notin {0, DigestLen} THEN Refused
                             ELSE IF v[2] = 0 THEN old ELSE v[2]
    [] fd.type = "bytes" -> IF v[1] = "bytes" /\ old = 0 THEN v[2] ELSE Refused
    [] fd.type = "uuid" -> IF v = <<"bytes", UuidLen>> THEN v[2] ELSE Refused
    [] fd.type = "raw" -> IF v = Deep THEN Refused ELSE v
    [] fd.type = "record" -> Decode(fd.of, v)
    [] fd.type \in {"records", "append"} ->
         IF v[1] # "list" \/ Len(v[2]) > fd.max THEN Refused
         ELSE LET new == [i \in DOMAIN v[2] |-> Decode(fd.of, v[2][i])]
                  all == IF fd.type = "records" THEN new ELSE old \o new
              IN  IF Refused \in Range(new) \/ Len(all) > fd.max THEN Refused
                  ELSE IF fd.type = "records" THEN all
                  ELSE old \o [i \in DOMAIN new |-> Clone(fd.of, new[i])]

\* Mutant: the url is entered in the list as soon as it is read.
TakeAliasing(k, r, p) ==
  IF r = Refused THEN Refused
  ELSE IF p[1] \notin DOMAIN r.f THEN KeepUnknown(r, p)
  ELSE LET v == Value(Fields(k)[p[1]], r.f[p[1]], p[2])
       IN  IF v = Refused THEN Refused
           ELSE IF k = "entry" /\ p[1] = "url" /\ r.f.urls = <<>>
           THEN [r EXCEPT !.f.url = v, !.f.urls = <<v>>]
           ELSE [r EXCEPT !.f[p[1]] = v]

Take(k, r, p) ==
  IF r = Refused THEN Refused
  ELSE IF p[1] \notin DOMAIN r.f THEN KeepUnknown(r, p)
  ELSE LET v == Value(Fields(k)[p[1]], r.f[p[1]], p[2])
       IN  IF v = Refused THEN Refused ELSE [r EXCEPT !.f[p[1]] = v]

Decode(k, item) ==
  IF item[1] # "map" THEN Refused
  ELSE LET r == FoldLeft(LAMBDA acc, p : Take(k, acc, p), Blank(k), item[2])
       IN  IF r = Refused THEN Refused ELSE Finish(k, r, {p[1] : p \in Range(item[2])})

-----------------------------------------------------------------------------
(* Writing: the fields each writer writes, in its order.                   *)

WriteCustomField == <<"name", "type", "text_value", "date", "binary_ref">>

WriteAttachmentRef == <<"attachment_id">>

WriteHistory == <<"modified", "source", "actor", "id", "title", "username", "password", "url", "notes",
                  "group_id", "tags", "created", "updated", "favorite">>

WriteAttachment == <<"id", "name", "mime", "size", "sha256", "blob">>

WriteEntry == <<"id", "title", "username", "password", "url", "notes", "tags", "group_id", "created",
                "updated", "favorite", "accessed", "color", "expiry", "warn_days", "custom_fields",
                "attachment_refs", "history", "fresh", "urls">>

WriteGroup == <<"id", "parent_id", "title", "icon_id", "color", "notes", "created", "updated", "accessed",
                "custom_data">>

WriteRecycleBin == <<"enabled", "group_id", "retention">>

WritePayload == <<"schema", "created", "updated", "entries", "groups", "uuid", "attachments", "recycle_bin",
                  "audit_cache">>

Written(k) == CASE k = "custom_field" -> WriteCustomField
                [] k = "attachment_ref" -> WriteAttachmentRef
                [] k = "history" -> WriteHistory
                [] k = "attachment" -> WriteAttachment
                [] k = "entry" -> WriteEntry
                [] k = "group" -> WriteGroup
                [] k = "recycle_bin" -> WriteRecycleBin
                [] k = "payload" -> WritePayload

(* validate_custom_field_model, validate_history_revision_model and         *)
(* validate_entry_model: what a writer refuses to write.                    *)
RECURSIVE Valid(_, _)
Valid(k, r) ==
  \A n \in DOMAIN r.f :
    LET fd == Fields(k)[n]
        v == r.f[n]
    IN  /\ fd.type \in {"texts", "texts1", "records", "append"} => Len(v) <= fd.max
        /\ k = "custom_field" /\ n = "type" => v <= fd.max
        /\ fd.type = "version" => v = SchemaVersion
        /\ fd.type \in {"records", "append"} => \A i \in DOMAIN v : Valid(fd.of, v[i])

TextOrEmpty(s) == <<"text", IF s = Null THEN "" ELSE s>>

RECURSIVE Encode(_, _)

(* The item written for a field, the empty sequence when there is none. *)
WrittenItem(fd, v) ==
  CASE fd.type = "text" -> <<TextOrEmpty(v)>>
    [] fd.type \in {"uint", "version"} -> <<<<"uint", v>>>>
    [] fd.type = "bool" -> <<<<"bool", v>>>>
    [] fd.type \in {"texts", "texts1"} -> <<<<"list", [i \in DOMAIN v |-> TextOrEmpty(v[i])]>>>>
    [] fd.type = "digest" -> <<<<"bytes", IF v = Null THEN 0 ELSE v>>>>
    [] fd.type = "bytes" -> <<<<"bytes", v>>>>
    [] fd.type = "uuid" -> IF v = Null THEN <<>> ELSE <<<<"bytes", v>>>>
    [] fd.type = "raw" -> IF v = Null THEN <<>> ELSE <<v>>
    [] fd.type = "record" -> <<Encode(fd.of, IF v = Null THEN Blank(fd.of) ELSE v)>>
    [] OTHER -> <<<<"list", [i \in DOMAIN v |-> Encode(fd.of, v[i])]>>>>

(* What a writer takes for field n: encode_entry writes the first url of the *)
(* list as the url, encode_attachment the blob's length as a missing size.   *)
Taken(k, f, n) ==
  IF k = "entry" /\ n = "url" /\ f.urls # <<>> THEN f.urls[1]
  ELSE IF k = "attachment" /\ n = "size" THEN SizeOf(f)
  ELSE f[n]

Encode(k, r) ==
  IF ~Valid(k, r) THEN Refused
  ELSE LET pairs(n) == LET items == WrittenItem(Fields(k)[n], Taken(k, r.f, n))
                       IN  [i \in DOMAIN items |-> <<n, items[i]>>]
       IN  <<"map", FlattenSeq([i \in DOMAIN Written(k) |-> pairs(Written(k)[i])]) \o r.unknown>>

-----------------------------------------------------------------------------
(* The documents: a reader of each kind is given every map built from the  *)
(* sample pairs of its kind, one more pair at a time.                      *)

CodecInit == /\ kind \in DOMAIN Documents
             /\ doc \in Documents[kind].starts

AddPair == \E p \in Documents[kind].pairs :
             /\ Len(doc) < Documents[kind].len
             /\ doc' = Append(doc, p)
             /\ UNCHANGED kind

CodecNext == AddPair

CodecSpec == CodecInit /\ [][CodecNext]_codecVars

-----------------------------------------------------------------------------
(* Properties.                                                             *)

Read == Decode(kind, <<"map", doc>>)

(* A payload that never had a recycle bin is written with an empty one. *)
WithBin(r) ==
  IF kind # "payload" THEN r
  ELSE [r EXCEPT !.f.recycle_bin = IF @ = Null THEN Finish("recycle_bin", Blank("recycle_bin"), {}) ELSE @]

(* What has been read can be written, and reading that gives the same       *)
(* record: saving a vault that was opened loses no field, known or unknown, *)
(* of any entry, group or attachment, whatever order, duplicates and gaps   *)
(* the file had (pm_payload_decode_cbor against pm_payload_encode_cbor).    *)
RewriteKeepsAll ==
  LET r == Read
      out == Encode(kind, r)
  IN  r # Refused => out # Refused /\ Decode(kind, out) = WithBin(r)

(* Pairs a reader does not know come out as they came in, in their order,   *)
(* repeated ones included (unknown_fields_append): a newer program's fields *)
(* survive an older program's save.                                         *)
UnknownKept ==
  LET r == Read
      Foreign(pairs) == SelectSeq(pairs, LAMBDA p : p[1] \notin DOMAIN Fields(kind))
  IN  r # Refused => Foreign(Encode(kind, r)[2]) = Foreign(doc)

(* The order of the pairs does not matter: when no field is repeated, every *)
(* permutation of a map is read as the same record or refused alike, the    *)
(* two spellings of an entry's URL included.                                *)
OrderIrrelevant ==
  Cardinality({p[1] : p \in Range(doc)}) = Len(doc) /\ (\A p \in Range(doc) : p[1] \in DOMAIN Fields(kind)) =>
    \A g \in Permutations(DOMAIN doc) :
      Decode(kind, <<"map", [i \in DOMAIN doc |-> doc[g[i]]]>>) = Read

(* What is read survives being written: fields, unknown pairs, and          *)
(* whichever order they were in.                                            *)
RecordsSurvive == RewriteKeepsAll /\ UnknownKept /\ OrderIrrelevant
=============================================================================
