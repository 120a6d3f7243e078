---------------------------- MODULE SpecDetails ----------------------------
(***************************************************************************)
(* What the endpoints page shows of an operation, read in the browser from *)
(* the stored specification (spec-parse.ts, EndpointDetailPanel.tsx): its  *)
(* parameters, its request body property by property, and whether it needs *)
(* authentication, the references followed wherever they lead.             *)
(*                                                                         *)
(* A node of the document is a record with a kind: "ref" leads to a schema *)
(* of the document, "object" has properties, "array" has items, "plain" is *)
(* any other type, "missing" is what is not there.  The backend stores no  *)
(* document with a reference that leads nowhere.  Examples, descriptions   *)
(* and the order of display are left out.                                  *)
(***************************************************************************)
EXTENDS Integers, FiniteSets, SequencesExt

CONSTANTS
    Names,             \* of schemas
    Properties,        \* names of properties
    Schemas,           \* the tables of schemas: Names -> node
    Bodies,            \* nodes of a body's schema
    ParamLists,        \* sequences of [name, in, required]
    Securities,        \* sequences of sets of schemes, and Absent
    Absent,
    MAX_SCHEMA_DEPTH

ASSUME SpecDetailsAssumption ==
    /\ MAX_SCHEMA_DEPTH \in Nat /\ IsFiniteSet(Properties)
    /\ \A t \in Schemas : DOMAIN t = Names

VARIABLE doc   \* the operation looked at and the schemas, Absent before

-----------------------------------------------------------------------------
Missing == [kind |-> "missing"]
Emptied == [kind |-> "empty"]   \* {}: what a circle of references is taken for

RECURSIVE Follow(_, _, _)

\* Wrong: a reference to a reference is not followed.
Follow_Once(schemas, node, seen) == IF node.kind = "ref" THEN schemas[node.to] ELSE node

\* deref, with the references seen.
Follow(schemas, node, seen) ==
    CASE node.kind # "ref" -> node
      [] node.kind = "ref" /\ node.to \in seen -> Emptied
      [] OTHER -> Follow(schemas, schemas[node.to], seen \cup {node.to})

Deref(schemas, node) == Follow(schemas, node, {})

\* The items of an array are named by their own type, one level deep.
TypeLabel(schemas, node) ==
    LET s == Deref(schemas, node) IN
    IF s.kind = "array"
    THEN LET items == Deref(schemas, s.items).kind IN
         <<"array", IF items \in {"object", "array", "plain"} THEN items ELSE "any">>
    ELSE <<IF s.kind \in {"object", "plain"} THEN s.kind ELSE "any">>

\* What has the properties: the schema, or the items of an array.
Carrier(schemas, node) ==
    LET s == Deref(schemas, node) IN
    IF s.kind = "array" THEN Deref(schemas, s.items) ELSE s

RECURSIVE ExtractObjectProps(_, _, _)

\* Wrong: one level too many.
ExtractObjectProps_Deeper(schemas, node, depth) ==
    LET object == Carrier(schemas, node) IN
    IF depth > MAX_SCHEMA_DEPTH \/ object.kind # "object" THEN {}
    ELSE {[name |-> p, type |-> TypeLabel(schemas, object.props[p]),
           required |-> p \in object.required,
           children |-> ExtractObjectProps(schemas, object.props[p], depth + 1)]
            : p \in DOMAIN object.props}

ExtractObjectProps(schemas, node, depth) ==
    LET object == Carrier(schemas, node) IN
    IF depth >= MAX_SCHEMA_DEPTH \/ object.kind # "object" THEN {}
    ELSE {[name |-> p, type |-> TypeLabel(schemas, object.props[p]),
           required |-> p \in object.required,
           children |-> ExtractObjectProps(schemas, object.props[p], depth + 1)]
            : p \in DOMAIN object.props}

RECURSIVE SchemaPropRows(_, _)

\* A row for every property, its children below it.
SchemaPropRows(props, path) ==
    UNION {{[path |-> Append(path, p.name), type |-> p.type, required |-> p.required]}
              \cup SchemaPropRows(p.children, Append(path, p.name)) : p \in props}

-----------------------------------------------------------------------------
ExtractParams(raw) ==
    [n \in DOMAIN raw |-> [raw[n] EXCEPT !.required = @ \/ raw[n].in = "path"]]

ParamKey(p) == <<p.in, p.name>>

\* As a Map keeps them: a later one of the same key in the earlier's place.
SetParam(list, p) ==
    IF \E n \in DOMAIN list : ParamKey(list[n]) = ParamKey(p)
    THEN [n \in DOMAIN list |-> IF ParamKey(list[n]) = ParamKey(p) THEN p ELSE list[n]]
    ELSE Append(list, p)

\* Wrong: the path's parameters override the operation's.
MergedParams_PathWins(pathParams, opParams) ==
    FoldLeft(SetParam, <<>>, ExtractParams(opParams) \o ExtractParams(pathParams))

MergedParams(pathParams, opParams) ==
    FoldLeft(SetParam, <<>>, ExtractParams(pathParams) \o ExtractParams(opParams))

\* A body without content is none; the first JSON type is the one shown.
ExtractRequestBody(schemas, body) ==
    IF body = Absent \/ body.content = <<>> THEN Absent
    ELSE LET json == SelectInSeq(body.content, LAMBDA c : c.json)
             primary == body.content[IF json = 0 THEN 1 ELSE json] IN
         [required |-> body.required, contentTypes |-> Len(body.content),
          props |-> ExtractObjectProps(schemas, primary.schema, 0)]

\* The operation's own, an empty one included, before the document's.
ExtractAuth(own, global) ==
    LET sec == IF own # Absent THEN own ELSE global IN
    IF sec = Absent \/ sec = <<>> THEN [required |-> FALSE, schemes |-> {}]
    ELSE [required |-> TRUE, schemes |-> UNION {sec[n] : n \in DOMAIN sec}]

GetOperationDetail(d) ==
    [parameters  |-> MergedParams(d.pathParams, d.opParams),
     requestBody |-> ExtractRequestBody(d.schemas, d.body),
     auth        |-> ExtractAuth(d.security, d.globalSecurity)]

\* The sections, and the marks in the operation's line of the list.
EndpointDetailPanel(detail) ==
    [locked     |-> detail.auth.required, schemes |-> detail.auth.schemes,
     params     |-> Len(detail.parameters),
     paramKeys  |-> {ParamKey(detail.parameters[n]) : n \in DOMAIN detail.parameters},
     body       |-> detail.requestBody # Absent,
     properties |-> IF detail.requestBody = Absent THEN {}
                    ELSE SchemaPropRows(detail.requestBody.props, <<>>)]

-----------------------------------------------------------------------------
DetailInit == doc = Absent

\* A document is stored and one of its operations opened: a schema of the body
\* among schemas, or parameters and security.
OpenBody ==
    /\ doc = Absent
    /\ \E t \in Schemas, b \in Bodies, json \in BOOLEAN :
          doc' = [schemas |-> t, security |-> Absent, globalSecurity |-> Absent,
                  pathParams |-> <<>>, opParams |-> <<>>,
                  body |-> [required |-> TRUE,
                            content |-> <<[json |-> json, schema |-> b],
                                          [json |-> TRUE, schema |-> Missing]>>]]

OpenParameters ==
    /\ doc = Absent
    /\ \E own, global \in Securities, p, o \in ParamLists :
          doc' = [schemas |-> <<>>, security |-> own, globalSecurity |-> global,
                  pathParams |-> p, opParams |-> o, body |-> Absent]

DetailNext == OpenBody \/ OpenParameters

-----------------------------------------------------------------------------
(* Reference definitions.                                                  *)

\* n references on.
Hops(schemas, node, n) ==
    FoldLeft(LAMBDA s, i : IF s.kind = "ref" THEN schemas[s.to] ELSE s, node, [i \in 1..n |-> i])

ChainEnd(schemas, node) ==
    LET end == Hops(schemas, node, Cardinality(Names) + 1) IN
    IF end.kind = "ref" THEN Emptied ELSE end

Inside(schemas, node) ==
    LET s == ChainEnd(schemas, node) IN
    IF s.kind = "array" THEN ChainEnd(schemas, s.items) ELSE s

\* The schema a path of property names leads to, Missing where there is none.
Reached(schemas, node, path) ==
    FoldLeft(LAMBDA s, p : LET o == Inside(schemas, s) IN
                           IF o.kind = "object" /\ p \in DOMAIN o.props THEN o.props[p] ELSE Missing,
             node, path)

Paths == UNION {[1..n -> Properties] : n \in 1..MAX_SCHEMA_DEPTH}

\* References are followed to their end however many there are, and a circle
\* of them ends; the rows are exactly the property paths the depth allows, in
\* schemas that contain themselves too, each with the type it resolves to.
BodyIsUnfolded ==
    doc # Absent /\ doc.body # Absent =>
        LET node == IF doc.body.content[1].json THEN doc.body.content[1].schema ELSE Missing
            rows == EndpointDetailPanel(GetOperationDetail(doc)).properties IN
        /\ {r.path : r \in rows} = {p \in Paths : Reached(doc.schemas, node, p) # Missing}
        /\ \A r \in rows :
              LET end == ChainEnd(doc.schemas, Reached(doc.schemas, node, r.path)) IN
              /\ r.type[1] = "array" <=> end.kind = "array"
              /\ r.type = <<"any">> <=> end = Emptied

\* Every parameter is listed once, the operation's own wherever it has one,
\* and is required where the path contains it.
ParamsAreMerged ==
    doc # Absent =>
        LET detail == GetOperationDetail(doc)
            panel == EndpointDetailPanel(detail)
            keys(list) == {ParamKey(list[n]) : n \in DOMAIN list}
            final(list, p) ==
                \E n \in DOMAIN list :
                    /\ ParamKey(list[n]) = ParamKey(p)
                    /\ \A o \in n + 1 .. Len(list) : ParamKey(list[o]) # ParamKey(p)
                    /\ p.required = (list[n].required \/ p.in = "path") IN
        /\ panel.paramKeys = keys(doc.pathParams) \cup keys(doc.opParams)
        /\ panel.params = Cardinality(panel.paramKeys)
        /\ \A n \in DOMAIN detail.parameters :
              LET p == detail.parameters[n] IN
              IF ParamKey(p) \in keys(doc.opParams) THEN final(doc.opParams, p)
              ELSE final(doc.pathParams, p)

\* No operation is shown open that names a scheme of its own, or that names
\* nothing where the document names one.
LocksAreShown ==
    doc # Absent =>
        LET panel == EndpointDetailPanel(GetOperationDetail(doc)) IN
        ~panel.locked =>
            doc.security = <<>> \/ (doc.security = Absent /\ doc.globalSecurity \in {Absent, <<>>})

\* The panel shows what the document says.
DetailsAreTheDocuments == BodyIsUnfolded /\ ParamsAreMerged /\ LocksAreShown
=============================================================================
