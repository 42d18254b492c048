----------------------------- MODULE APIObjects -----------------------------
(***************************************************************************)
(* The API types as three places of the code describe them: the structs    *)
(* (apis/config, apis/inv), the generated copy functions and the published *)
(* schemas.  Two generators write the last two; nothing but a run of both  *)
(* after every change of a struct keeps the three together.                *)
(*                                                                         *)
(* A reconciler reads a Target from the cache of the manager, which hands  *)
(* out what DeepCopyObject returns, and writes its finalizers and          *)
(* conditions there.                                                       *)
(***************************************************************************)
EXTENDS Naturals, Sequences, FiniteSets, SequencesExt

-----------------------------------------------------------------------------
(* The structs: what each field holds, and whether it is left out when empty *)

Value(of) == [is |-> "value", of |-> of, empty |-> FALSE]
Pointer(of) == [is |-> "pointer", of |-> of, empty |-> FALSE]
Slice(of) == [is |-> "slice", of |-> of, empty |-> FALSE]
Struct(of) == [is |-> "struct", of |-> of, empty |-> FALSE]
Inline(of) == [is |-> "inline", of |-> of, empty |-> FALSE]
OmitEmpty(field) == [field EXCEPT !.empty = TRUE]

\* The encoder sets kind and apiVersion.
Meta(of) == [kind |-> Value("string"), apiVersion |-> Value("string"),
             metadata |-> OmitEmpty(Struct(of))]
ListOf(of) == Meta("ListMeta") @@ [items |-> Slice(of)]

\* k8s.io/apimachinery: what their copies do not share is one cell here.
ExternalTypes ==
  [ObjectMeta    |-> [cell |-> OmitEmpty(Pointer("any"))],
   ListMeta      |-> [cell |-> OmitEmpty(Pointer("any"))],
   RawExtension  |-> [cell |-> OmitEmpty(Pointer("any"))],
   MetaCondition |-> [type |-> Value("string"), status |-> Value("string"),
                      observedGeneration |-> OmitEmpty(Value("integer")),
                      lastTransitionTime |-> Value("Time"), reason |-> Value("string"),
                      message |-> Value("string")]]

ConfigTypes ==
  [ConfigSpec   |-> [lifecycle |-> OmitEmpty(Struct("Lifecycle")),
                     priority |-> OmitEmpty(Value("integer")), config |-> Slice("ConfigBlob")],
   ConfigBlob   |-> [path |-> OmitEmpty(Value("string")), value |-> Struct("RawExtension")],
   ConfigStatus |-> [ConditionedStatus |-> Inline("ConditionedStatus")],
   Config       |-> Meta("ObjectMeta") @@ [spec |-> OmitEmpty(Struct("ConfigSpec")),
                                           status |-> OmitEmpty(Struct("ConfigStatus"))],
   ConfigList   |-> ListOf("Config")]

LifecycleType == [Lifecycle |-> [deletionPolicy |-> OmitEmpty(Value("string"))]]

\* The same in both groups
StatusTypes ==
  [Condition         |-> [Condition |-> Inline("MetaCondition")],
   ConditionedStatus |-> [conditions |-> OmitEmpty(Slice("Condition"))]]

TargetTypes ==
  [TargetSpec   |-> [provider |-> Struct("Provider"), address |-> OmitEmpty(Pointer("string")),
                     secretName |-> Value("string"), tlsSecretName |-> OmitEmpty(Pointer("string")),
                     connectionProfile |-> Value("string"), syncProfile |-> Value("string"),
                     parametersRef |-> OmitEmpty(Pointer("ObjectReference"))],
   Provider     |-> [name |-> Value("string"), vendor |-> Value("string"), version |-> Value("string")],
   TargetStatus |-> [ConditionedStatus |-> Inline("ConditionedStatus")],
   Target       |-> Meta("ObjectMeta") @@ [spec |-> OmitEmpty(Struct("TargetSpec")),
                                           status |-> OmitEmpty(Struct("TargetStatus"))],
   TargetList   |-> ListOf("Target")]

ConnectionProfileTypes ==
  [TargetConnectionProfileSpec |->
     [protocol |-> OmitEmpty(Value("string")), encoding |-> OmitEmpty(Value("string")),
      insecure |-> OmitEmpty(Pointer("boolean")), skipVerify |-> OmitEmpty(Pointer("boolean"))],
   TargetConnectionProfile |->
     Meta("ObjectMeta") @@ [spec |-> OmitEmpty(Struct("TargetConnectionProfileSpec"))],
   TargetConnectionProfileList |-> ListOf("TargetConnectionProfile")]

SyncProfileTypes ==
  [TargetSyncProfileSpec |->
     [validate |-> OmitEmpty(Pointer("boolean")), buffer |-> OmitEmpty(Pointer("integer")),
      workers |-> OmitEmpty(Pointer("integer")), sync |-> OmitEmpty(Slice("TargetSyncProfileSync"))],
   TargetSyncProfileSync |->
     [name |-> Value("string"), protocol |-> Value("string"), paths |-> Slice("string"),
      mode |-> Value("string"), encoding |-> Value("string"), interval |-> OmitEmpty(Value("integer"))],
   TargetSyncProfile |-> Meta("ObjectMeta") @@ [spec |-> OmitEmpty(Struct("TargetSyncProfileSpec"))],
   TargetSyncProfileList |-> ListOf("TargetSyncProfile")]

Fields ==
  ExternalTypes @@ ConfigTypes @@ LifecycleType @@ StatusTypes @@ TargetTypes
  @@ ConnectionProfileTypes @@ SyncProfileTypes

-----------------------------------------------------------------------------
(* DeepCopyInto: which fields are copied after *out = *in, and how: a struct by *)
(* its own function ("into"), a pointer by "new", a slice by "make" with its    *)
(* elements as they are, or "each" by its own function.                         *)

ListCopy == [metadata |-> "into", items |-> "each"]

ExternalCopies ==
  [ObjectMeta |-> [cell |-> "new"], ListMeta |-> [cell |-> "new"], RawExtension |-> [cell |-> "new"],
   MetaCondition |-> <<>>]

ConfigCopies ==
  [Condition |-> [Condition |-> "into"], ConditionedStatus |-> [conditions |-> "each"],
   Config |-> [metadata |-> "into", spec |-> "into", status |-> "into"],
   ConfigBlob |-> [value |-> "into"], ConfigList |-> ListCopy]

\* Those of inv, which are the same
InvConditionCopies == [t \in {"Condition", "ConditionedStatus"} |-> ConfigCopies[t]]

ConfigPartCopies ==
  [ConfigSpec |-> [config |-> "each"], ConfigStatus |-> [ConditionedStatus |-> "into"],
   Lifecycle |-> <<>>]

TargetCopies == [Provider |-> <<>>, Target |-> [metadata |-> "into", spec |-> "into", status |-> "into"]]

ConnectionProfileCopies ==
  [TargetConnectionProfile |-> [metadata |-> "into", spec |-> "into"],
   TargetConnectionProfileList |-> ListCopy,
   TargetConnectionProfileSpec |-> [insecure |-> "new", skipVerify |-> "new"]]

TargetListCopies ==
  [TargetList |-> ListCopy,
   TargetSpec |-> [address |-> "new", tlsSecretName |-> "new", parametersRef |-> "new"],
   TargetStatus |-> [ConditionedStatus |-> "into"]]

\* Mutant: written before the syncs had paths.
StaleSyncProfileCopies ==
  [TargetSyncProfile |-> [metadata |-> "into", spec |-> "into"],
   TargetSyncProfileList |-> ListCopy,
   TargetSyncProfileSpec |-> [validate |-> "new", buffer |-> "new", workers |-> "new", sync |-> "make"],
   TargetSyncProfileSync |-> <<>>]

SyncProfileCopies ==
  [TargetSyncProfile |-> [metadata |-> "into", spec |-> "into"],
   TargetSyncProfileList |-> ListCopy,
   TargetSyncProfileSpec |-> [validate |-> "new", buffer |-> "new", workers |-> "new", sync |-> "each"],
   TargetSyncProfileSync |-> [paths |-> "make"]]

DeepCopyInto ==
  ExternalCopies @@ ConfigCopies @@ InvConditionCopies @@ ConfigPartCopies @@ TargetCopies
  @@ ConnectionProfileCopies @@ TargetListCopies @@ SyncProfileCopies

-----------------------------------------------------------------------------
(* The schemas: the properties of an object and those it must have *)

Schema(properties, required) == [properties |-> properties, required |-> required]
Prim(t) == [is |-> "value", of |-> t]
Ref(t) == [is |-> "ref", of |-> t]
ArrayOf(t) == [is |-> "slice", of |-> t]

ObjectSchema(meta, properties, required) ==
  Schema([kind |-> Prim("string"), apiVersion |-> Prim("string"), metadata |-> Ref(meta)] @@ properties,
         required)
ListSchema(t) == ObjectSchema("ListMeta", [items |-> ArrayOf(t)], {"items"})
ConditionsSchema == Schema([conditions |-> ArrayOf("Condition")], {})

ConfigConditionSchemas ==
  [Condition |->
     Schema([type |-> Prim("string"), status |-> Prim("string"), observedGeneration |-> Prim("integer"),
             lastTransitionTime |-> Ref("Time"), reason |-> Prim("string"), message |-> Prim("string")],
            {"type", "status", "lastTransitionTime", "reason", "message"}),
   ConditionedStatus |-> ConditionsSchema]

\* Those of inv, which are the same
InvConditionSchemas == ConfigConditionSchemas

ConfigSchemas ==
  [Config |-> ObjectSchema("ObjectMeta", [spec |-> Ref("ConfigSpec"), status |-> Ref("ConfigStatus")], {}),
   ConfigBlob |-> Schema([path |-> Prim("string"), value |-> Ref("RawExtension")], {"value"}),
   ConfigList |-> ListSchema("Config")]

\* Mutant: the priority of every Config is asked for.
StrictConfigPartSchemas ==
  [ConfigSpec |->
     Schema([lifecycle |-> Ref("Lifecycle"), priority |-> Prim("integer"), config |-> ArrayOf("ConfigBlob")],
            {"config", "priority"}),
   ConfigStatus |-> ConditionsSchema,
   Lifecycle |-> Schema([deletionPolicy |-> Prim("string")], {})]

ConfigPartSchemas ==
  [ConfigSpec |->
     Schema([lifecycle |-> Ref("Lifecycle"), priority |-> Prim("integer"), config |-> ArrayOf("ConfigBlob")],
            {"config"}),
   ConfigStatus |-> ConditionsSchema,
   Lifecycle |-> Schema([deletionPolicy |-> Prim("string")], {})]

TargetSchemas ==
  [Provider |-> Schema([name |-> Prim("string"), vendor |-> Prim("string"), version |-> Prim("string")],
                       {"name", "vendor", "version"}),
   Target |-> ObjectSchema("ObjectMeta", [spec |-> Ref("TargetSpec"), status |-> Ref("TargetStatus")], {})]

ConnectionProfileSchemas ==
  [TargetConnectionProfile |->
     ObjectSchema("ObjectMeta", [spec |-> Ref("TargetConnectionProfileSpec")], {}),
   TargetConnectionProfileList |-> ListSchema("TargetConnectionProfile"),
   TargetConnectionProfileSpec |->
     Schema([protocol |-> Prim("string"), encoding |-> Prim("string"),
             insecure |-> Prim("boolean"), skipVerify |-> Prim("boolean")], {})]

TargetPartSchemas ==
  [TargetList |-> ListSchema("Target"),
   TargetSpec |->
     Schema([provider |-> Ref("Provider"), address |-> Prim("string"), secretName |-> Prim("string"),
             tlsSecretName |-> Prim("string"), connectionProfile |-> Prim("string"),
             syncProfile |-> Prim("string"), parametersRef |-> Ref("ObjectReference")],
            {"provider", "secretName", "connectionProfile", "syncProfile"}),
   TargetStatus |-> ConditionsSchema]

SyncProfileSchemas ==
  [TargetSyncProfile |-> ObjectSchema("ObjectMeta", [spec |-> Ref("TargetSyncProfileSpec")], {}),
   TargetSyncProfileList |-> ListSchema("TargetSyncProfile"),
   TargetSyncProfileSpec |->
     Schema([validate |-> Prim("boolean"), buffer |-> Prim("integer"), workers |-> Prim("integer"),
             sync |-> ArrayOf("TargetSyncProfileSync")], {})]

SyncSchemas ==
  [TargetSyncProfileSync |->
     Schema([name |-> Prim("string"), protocol |-> Prim("string"), paths |-> ArrayOf("string"),
             mode |-> Prim("string"), encoding |-> Prim("string"), interval |-> Prim("integer")],
            {"name", "protocol", "paths", "mode", "encoding"})]

\* Of the definitions of k8s.io, those a schema here may point to.
GetOpenAPIDefinitions ==
  ConfigConditionSchemas @@ InvConditionSchemas @@ ConfigSchemas @@ ConfigPartSchemas @@ TargetSchemas
  @@ ConnectionProfileSchemas @@ TargetPartSchemas @@ SyncProfileSchemas @@ SyncSchemas
  @@ [t \in {"ObjectMeta", "ListMeta", "Time", "RawExtension"} |-> Schema(<<>>, {})]

-----------------------------------------------------------------------------
(* An object *)

IsReference(f) == f.is \in {"pointer", "slice"}

\* What an object may lack is a place: the way of fields that leads to it.
RECURSIVE Places(_)
Places(t) ==
  UNION {LET f == Fields[t][name] IN
         {<<name>> \o p : p \in IF f.of \in DOMAIN Fields THEN Places(f.of) ELSE {}}
         \cup IF IsReference(f) \/ (f.is = "value" /\ f.empty) THEN {<<name>>} ELSE {}
         : name \in DOMAIN Fields[t]}

\* A struct is "copied" by its function, "assigned" as it is, or lies in memory
\* that is "shared"; so what its field leads to is one of these.
Behind(how, f, entry) ==
  CASE how = "copied" /\ entry \in {"into", "each"} -> "copied"
    [] how = "copied" /\ entry \in {"new", "make"}  -> "assigned"
    [] IsReference(f) /\ (how = "assigned" \/ entry = "none") -> "shared"
    [] OTHER -> IF how = "shared" THEN "shared" ELSE "assigned"

\* The places whose memory a copy has in common with the object
RECURSIVE InCommon(_, _)
InCommon(t, how) ==
  UNION {LET f     == Fields[t][name]
             copy  == DeepCopyInto[t]
             below == Behind(how, f, IF name \in DOMAIN copy THEN copy[name] ELSE "none")
         IN {<<name>> \o p : p \in IF f.of \in DOMAIN Fields THEN InCommon(f.of, below) ELSE {}}
            \cup IF below = "shared" /\ (IsReference(f) \/ f.empty) THEN {<<name>>} ELSE {}
         : name \in DOMAIN Fields[t]}

\* The fields of the JSON of a struct: an inlined struct has none of its own.
RECURSIVE Encoded(_)
Encoded(t) ==
  UNION {LET f == Fields[t][name] IN
         IF f.is = "inline" THEN {[e EXCEPT !.path = <<name>> \o @] : e \in Encoded(f.of)}
         ELSE {[name |-> name, path |-> <<name>>, field |-> f]}
         : name \in DOMAIN Fields[t]}

Matches(f, property) ==
  /\ property.of = f.of
  /\ property.is = "slice" <=> f.is = "slice"
  /\ property.is = "ref" => f.of \in DOMAIN GetOpenAPIDefinitions

\* The schema of t accepts the JSON of a struct at path of an object with the
\* places filled.  An omitempty does not omit a struct.
RECURSIVE Accepts(_, _, _)
Accepts(t, path, filled) ==
  LET schema  == GetOpenAPIDefinitions[t]
      present == {e \in Encoded(t) :
                    ~e.field.empty \/ e.field.is = "struct" \/ (path \o e.path) \in filled}
  IN /\ schema.required \subseteq {e.name : e \in present}
     /\ \A e \in present :
          /\ e.name \in DOMAIN schema.properties
          /\ Matches(e.field, schema.properties[e.name])
          /\ e.field.of \in DOMAIN Fields \ DOMAIN ExternalTypes =>
               \/ e.field.is = "slice" /\ (path \o e.path) \notin filled
               \/ Accepts(e.field.of, path \o e.path, filled)

-----------------------------------------------------------------------------
(* An object in a cache, and a reader that changes its copy *)

VARIABLES root, filled,   \* the type of the object and the places it has
          common,         \* the places of the copy in the memory of the cache
          written,        \* the place the reader has written, <<>> before
          dirty           \* the places of the cached object that have changed
ovars == <<root, filled, common, written, dirty>>

NoCopy == {<<>>}
Roots == {t \in DOMAIN Fields : "metadata" \in DOMAIN Fields[t]}

\* A place is filled only if the slices and pointers on the way are.
Fillings(t) ==
  {ps \in SUBSET Places(t) :
     \A p \in ps, q \in Places(t) : IsPrefix(q, p) => q \in ps}

ObjectsInit ==
  /\ root \in Roots /\ filled \in Fillings(root)
  /\ common = NoCopy /\ written = <<>> /\ dirty = {}

\* The cache's reader: a nil pointer or slice stays one.
DeepCopyObject ==
  /\ common = NoCopy
  /\ common' = InCommon(root, "copied") \cap filled
  /\ UNCHANGED <<root, filled, written, dirty>>

\* SetConditions, SetFinalizers or any other change in place.
WriteCopy ==
  /\ common # NoCopy /\ written = <<>>
  /\ \E p \in filled :
       /\ written' = p
       /\ dirty' = IF p \in common THEN dirty \cup {p} ELSE dirty
  /\ UNCHANGED <<root, filled, common>>

ObjectsNext == DeepCopyObject \/ WriteCopy

\* A reconciler changes its copy of an object and nothing of the one in the
\* cache, which other reconcilers read at the same time: no place that the
\* structs have is left to the plain assignment of the copy functions
\* (DeepCopyInto of every type, DeepCopyObject).
CacheUntouched == dirty = {}

\* What encoding/json makes of any object is what the published schema says, on
\* which clients and the managed fields of the server rely: each field is
\* declared, with the type it has, and none is asked for that can be left out.
\* The schema of ObjectReference is not published: a Target with parametersRef
\* has none (GetOpenAPIDefinitions).
SchemaAccepts ==
  (\A p \in filled : Last(p) # "parametersRef") => Accepts(root, <<>>, filled)
=============================================================================
