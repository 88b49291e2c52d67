--------------------------- MODULE KvDocuments -----------------------------
(***************************************************************************)
(* kvx/module/json and kvx/mapping: values in the store that are read,     *)
(* changed and written back, and the fields of a struct in a hash.         *)
(***************************************************************************)
EXTENDS Integers, Sequences, FiniteSets, SequencesExt

(***************************************************************************)
(* kvx/module/json: the JSON module on one document with an array and an   *)
(* object. ArrayPop and ObjectMerge read the value at the path, change it  *)
(* in the client and write it back with a second call.                     *)
(***************************************************************************)

CONSTANTS
  JsonClients, \* clients of the document
  Elements,    \* elements of the array; each is put in once
  JsonFields,  \* fields of the object
  NoDoc        \* no document under the key

ASSUME DocumentsAssumption == IsFiniteSet(Elements)

VARIABLES
  doc,     \* the document: [arr, obj] or NoDoc
  jc,      \* each client: place and what it read
  popped,  \* history: elements ArrayPop returned, in order, until jsonRace
  merged,  \* history: fields whose ObjectMerge returned without error, until jsonRace
  jsonRace \* history: calls that overlapped a write of another client, or failed

jsonVars == <<doc, jc, popped, merged, jsonRace>>

JsonRest == [at |-> "idle", read |-> NoDoc, field |-> NoDoc, raced |-> FALSE]

\* JSON.Set of a new document.
JsonInit ==
  /\ doc \in {NoDoc} \cup { [arr |-> SetToSeq(Elements), obj |-> {}] }
  /\ jc = [c \in JsonClients |-> JsonRest]
  /\ popped = <<>> /\ merged = {} /\ jsonRace = FALSE

\* Every write makes what the others have read stale.
Written(c) == [x \in JsonClients |-> IF x = c THEN JsonRest
                                    ELSE [jc[x] EXCEPT !.raced = @ \/ jc[x].at # "idle"]]

\* getPathData: a path that is not there is an error, or empty for the adapter that
\* answers nil with no data: then ObjectMerge starts from an empty object, and
\* ArrayPop fails to decode.
JsonRead(c, at, f) ==
  /\ jc[c].at = "idle" /\ doc # NoDoc
  /\ jc' = [jc EXCEPT ![c] = [at |-> at, read |-> doc, field |-> f, raced |-> FALSE]]
  /\ UNCHANGED <<doc, popped, merged, jsonRace>>

\* ArrayPop, first half: an empty array is an error.
ArrayPopRead(c) == doc # NoDoc /\ doc.arr # <<>> /\ JsonRead(c, "pop", NoDoc)

\* Fault: the array is written back with its last element.
ArrayPopKeepsLast(c) ==
  /\ jc[c].at = "pop" /\ doc # NoDoc
  /\ jsonRace' = (jsonRace \/ jc[c].raced) /\ jc' = Written(c)
  /\ popped' = IF jsonRace' THEN <<>> ELSE Append(popped, Last(jc[c].read.arr))
  /\ UNCHANGED <<doc, merged>>

\* ArrayPop, second half: setPathData writes the array without its last element.
ArrayPopWrite(c) ==
  /\ jc[c].at = "pop" /\ doc # NoDoc
  /\ doc' = [doc EXCEPT !.arr = Front(jc[c].read.arr)]
  /\ jsonRace' = (jsonRace \/ jc[c].raced) /\ jc' = Written(c)
  /\ popped' = IF jsonRace' THEN <<>> ELSE Append(popped, Last(jc[c].read.arr))
  /\ UNCHANGED merged

ObjectMergeRead(c, f) == JsonRead(c, "merge", f)

\* ObjectMerge, second half: what was read, with the new fields copied over it.
ObjectMergeWrite(c) ==
  /\ jc[c].at = "merge" /\ doc # NoDoc
  /\ doc' = [doc EXCEPT !.obj = jc[c].read.obj \cup {jc[c].field}]
  /\ jsonRace' = (jsonRace \/ jc[c].raced) /\ jc' = Written(c)
  /\ merged' = IF jsonRace' THEN {} ELSE merged \cup {jc[c].field}
  /\ UNCHANGED popped

\* The second call fails, done or not, or finds no document: the client does not know.
JsonWriteFails(c) ==
  /\ jc[c].at # "idle"
  /\ \/ doc = NoDoc /\ UNCHANGED <<doc, jsonRace>>
     \/ doc # NoDoc /\ UNCHANGED doc /\ jsonRace' = jsonRace
     \/ /\ doc # NoDoc /\ jsonRace' = TRUE
        /\ doc' = IF jc[c].at = "pop" THEN [doc EXCEPT !.arr = Front(jc[c].read.arr)]
                  ELSE [doc EXCEPT !.obj = jc[c].read.obj \cup {jc[c].field}]
  /\ jc' = Written(c) /\ UNCHANGED <<popped, merged>>

\* JSON.Delete: without paths the whole document; with paths one call per path, in
\* order, ending at the first error.
JsonDelete(c) ==
  /\ jc[c].at = "idle" /\ doc # NoDoc /\ doc' = NoDoc
  /\ jc' = Written(c) /\ popped' = <<>> /\ merged' = {} /\ UNCHANGED jsonRace
JsonSet(c) ==
  /\ jc[c].at = "idle" /\ doc' = [arr |-> SetToSeq(Elements), obj |-> {}]
  /\ jc' = Written(c) /\ popped' = <<>> /\ merged' = {}
  /\ UNCHANGED jsonRace

JsonNext == \E c \in JsonClients :
  \/ ArrayPopRead(c) \/ ArrayPopWrite(c) \/ (\E f \in JsonFields : ObjectMergeRead(c, f)) \/ ObjectMergeWrite(c)
  \/ JsonWriteFails(c) \/ JsonDelete(c) \/ JsonSet(c)

-----------------------------------------------------------------------------
\* As long as no read-modify-write overlapped another write, every element is
\* returned by one ArrayPop at most, last first, and is no longer in the array.
PopsOnce ==
  ~jsonRace => /\ IsInjective(popped)
               /\ doc # NoDoc => Range(doc.arr) \cap Range(popped) = {}

\* As long as none overlapped, what ObjectMerge put into the object stays there.
MergesKept == ~jsonRace /\ doc # NoDoc => merged \subseteq doc.obj

-----------------------------------------------------------------------------
(***************************************************************************)
(* kvx/mapping: struct tags to metadata, and the hash codec. A struct is   *)
(* its exported fields in order with their parsed tags. Go iterates maps   *)
(* in any order, so wherever two fields share a name in the store, the     *)
(* code may pick either.                                                   *)
(***************************************************************************)

CONSTANTS
  FieldSet,    \* names of the struct's fields
  TagNames,    \* names a tag may give, "" among them
  FieldValues, \* values of the fields; 0 is the zero value
  NoField      \* no field

VARIABLES
  tags,    \* each field: [name, index, alias, ignored]
  value,   \* the entity's fields, as the program last wrote them
  stored,  \* the hash: value under each storage name
  loaded   \* the entity Decode filled last, or NoField

mapVars == <<tags, value, stored, loaded>>

GoFields == SetToSeq(FieldSet)
Tag == [name : TagNames, index : BOOLEAN, alias : {"", "x"}, ignored : BOOLEAN]

IndexNameOrDefault(f) ==
  CASE tags[f].alias # "" -> tags[f].alias
    [] tags[f].alias = "" /\ tags[f].name # "" -> tags[f].name
    [] OTHER -> f
StorageName(f) == IF tags[f].name # "" THEN tags[f].name ELSE f

\* parseStruct, addFieldMetadata: ignored fields are left out, the last key field
\* counts, and a key field is not indexed.
Fields == { f \in FieldSet : ~tags[f].ignored }
isKeyField(f) == tags[f].name \in {"id", "key"}
KeyField ==
  LET keys == SelectSeq(GoFields, LAMBDA f : f \in Fields /\ isKeyField(f))
  IN IF keys = <<>> THEN NoField ELSE Last(keys)
IndexFields == { f \in Fields : tags[f].index /\ ~isKeyField(f) }

MappingInit ==
  /\ tags \in [FieldSet -> Tag]
  /\ \A f \in FieldSet : tags[f].alias # "" => tags[f].index
  /\ value = [f \in FieldSet |-> 0] /\ stored = [n \in {} |-> 0] /\ loaded = NoField
  /\ KeyField # NoField

\* ResolveField: the Go name first, then any field with the storage name or alias.
Resolve(n) ==
  IF n \in Fields THEN {n}
  ELSE { f \in Fields : StorageName(f) = n \/ IndexNameOrDefault(f) = n }

StorageNames == { StorageName(f) : f \in Fields }
Shared(f) == \E g \in Fields : g # f /\ StorageName(g) = StorageName(f)

\* HashCodec.Encode and HSET: of fields with one storage name, any one's value.
Encode(v) ==
  { h \in [StorageNames -> { v[f] : f \in Fields }] :
      \A n \in StorageNames : \E f \in Fields : StorageName(f) = n /\ h[n] = v[f] }
MapSave(v) ==
  /\ value' = v /\ \E h \in Encode(v) : stored' = [n \in StorageNames |-> h[n]]
  /\ loaded' = NoField /\ UNCHANGED tags

\* Decode: storeToField keeps one field of those with the same storage name;
\* the others keep their zero value.
DecodeField(f) == IF StorageName(f) \in DOMAIN stored THEN stored[StorageName(f)] ELSE 0
MapLoad ==
  /\ stored # [n \in {} |-> 0]
  /\ \E pick \in { p \in [StorageNames -> Fields] : \A n \in StorageNames : StorageName(p[n]) = n } :
       loaded' = [f \in FieldSet |-> IF f \in Range(pick) THEN DecodeField(f) ELSE 0]
  /\ UNCHANGED <<tags, value, stored>>

\* HashRepository.UpdateField: one field by any of its names.
MapUpdateField(n, x) ==
  /\ DOMAIN stored # {}
  /\ \E f \in Resolve(n) :
       /\ stored' = [m \in DOMAIN stored \cup {StorageName(f)} |-> IF m = StorageName(f) THEN x ELSE stored[m]]
       /\ value' = [value EXCEPT ![f] = x]
  /\ loaded' = NoField /\ UNCHANGED tags

MappingNext ==
  \/ \E v \in [FieldSet -> FieldValues] : (\A f \in FieldSet \ Fields : v[f] = value[f]) /\ MapSave(v)
  \/ MapLoad
  \/ \E n \in TagNames \cup FieldSet, x \in FieldValues : MapUpdateField(n, x)

\* What was saved, and since then updated field by field, is what is loaded, except
\* in fields that share their name in the store with another field.
CodecRoundTrip ==
  loaded # NoField => \A f \in Fields : ~Shared(f) => loaded[f] = value[f]

\* The index name of an indexed field, and its storage name, resolve to that field,
\* or to another one that carries the same name: FindByField and UpdateField by a
\* name no other field has reach the field it belongs to.
ResolvesOwn ==
  \A f \in Fields : \A n \in {StorageName(f), f} \cup (IF f \in IndexFields THEN {IndexNameOrDefault(f)} ELSE {}) :
    (\A g \in Fields \ {f} : g # n /\ StorageName(g) # n /\ IndexNameOrDefault(g) # n) => Resolve(n) = {f}
=============================================================================
