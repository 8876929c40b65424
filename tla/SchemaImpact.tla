---------------------------- MODULE SchemaImpact ----------------------------
(* agent_change_impact (src/operations/agent/): the tools of two sets of    *)
(* catalog files, compared name by name. Would a request that the schema    *)
(* before accepts be accepted by the schema after?                          *)
(*                                                                          *)
(* A path is the sequence of its segments. A number counts halves, half of  *)
(* a string value is its length, and a schema keeps the keywords that the   *)
(* comparison tells apart; `words` are the others it uses. The tools of one *)
(* name in one file have one place and so are one node: a file has a name   *)
(* once.                                                                    *)
EXTENDS Integers, Sequences, FiniteSets, SequencesExt, FiniteSetsExt, Functions

CONSTANTS
  Comparisons,  \* catalog files, skills and transforms, and what is asked
  Values,       \* the values a request may hold
  Extra,        \* a name that no schema lists
  Nothing       \* an absent part, no answer

VARIABLES
  given,  \* the files and the arguments
  state   \* the tools found, the names left, the changes, the answer

vars == <<given, state>>

-----------------------------------------------------------------------------
(* language/agent: what is kept of a schema.                                *)

Marked ==
  {"anyOf", "oneOf", "allOf", "not", "if", "then", "else", "$defs", "definitions",
   "patternProperties", "dependentSchemas", "unevaluatedProperties", "prefixItems", "const",
   "pattern"}

ScalarTypes == {"string", "integer", "number", "boolean", "null"}

Listed(schema) == IF schema.properties = Nothing THEN {} ELSE DOMAIN schema.properties

UnsupportedProperty(spec) ==
  \/ spec.ref \/ spec.words \cap Marked # {} \/ spec.type \notin ScalarTypes
  \/ spec.enum # Nothing /\ \E value \in spec.enum : value.type = "other"

(* inspect(): a schema of which the comparison would not know everything.   *)
Unsupported(schema) ==
  \/ schema.ref \/ schema.words \cap Marked # {}
  \/ schema.root # "object" /\ ~(schema.root = "absent" /\ schema.properties # Nothing)
  \/ schema.additional \notin {"absent", "true", "false"}
  \/ \E name \in Listed(schema) : UnsupportedProperty(schema.properties[name])

Markers == <<".cursor-plugin", ".claude-plugin", ".codex-plugin", ".grok-plugin", "dev.kiro", "skills">>

(* package_root(): what stands before a directory of a client or of skills. *)
PackageRoot(path) ==
  LET inside(marker) == {k \in 2..(Len(path) - 1) : path[k] = marker}
      found == SelectSeq(Markers, LAMBDA marker : inside(marker) # {})
  IN  IF found = <<>> THEN Front(path) ELSE SubSeq(path, 1, Min(inside(Head(found))) - 1)

(* catalog.rs decode(): which document is a catalog, and whether it is whole. *)
Recognized(file) ==
  file.explicit \/ (file.named /\ file.tools # <<>> /\ \A t \in Range(file.tools) : t.schema # Nothing)
Whole(file) == ~file.cursor /\ file.complete # FALSE

NoSchema ==
  [ref |-> FALSE, words |-> {}, root |-> "absent", additional |-> "absent", required |-> {},
   properties |-> Nothing]

Tool(file, tool) ==
  [name |-> tool.name, path |-> file.path, package |-> PackageRoot(file.path), catalog |-> file.scope,
   schema |-> IF tool.schema = Nothing THEN NoSchema ELSE tool.schema, description |-> tool.description]

Transform(file, item) ==
  [path |-> file.path, package |-> PackageRoot(file.path), catalog |-> file.scope,
   exposure |-> item.exposure, upstream |-> item.upstream, inject |-> item.inject]

Init ==
  /\ given \in Comparisons
  /\ state = [at |-> "ingest", left |-> given.files, catalogs |-> <<>>, tools |-> <<>>,
              transforms |-> <<>>, names |-> {}, changes |-> <<>>, answer |-> Nothing]

Ingest ==
  /\ state.at = "ingest" /\ state.left # <<>>
  /\ LET file == Head(state.left)
         stated == SelectSeq(file.transforms, LAMBDA item : "" \notin {item.exposure, item.upstream})
         rest == [state EXCEPT !.left = Tail(@)]
     IN  state' = IF ~Recognized(file) THEN rest
                  ELSE [rest EXCEPT
                          !.catalogs = Append(@, [path |-> file.path, whole |-> Whole(file)]),
                          !.tools = @ \o [k \in DOMAIN file.tools |-> Tool(file, file.tools[k])],
                          !.transforms = @ \o [k \in DOMAIN stated |-> Transform(file, stated[k])]]
  /\ UNCHANGED given

-----------------------------------------------------------------------------
(* impact.rs: which tools are compared.                                     *)

(* in_path() asks whether the path contains the filter; the elements of a  *)
(* path here are its pieces, of whatever length.                            *)
InPath(item, filter) ==
  \E k \in DOMAIN item.path : SubSeq(item.path, k, k + Len(filter) - 1) = filter

Before == SelectSeq(state.tools, LAMBDA t : InPath(t, given.before))
After == SelectSeq(state.tools, LAMBDA t : InPath(t, given.after))
Transforms == SelectSeq(state.transforms, LAMBDA t : InPath(t, given.after))

Names(tools) == {t.name : t \in Range(tools)}

CatalogComplete(filter) ==
  LET found == {c \in Range(state.catalogs) : InPath(c, filter)}
  IN  found # {} /\ \A c \in found : c.whole

Begin ==
  /\ state.at = "ingest" /\ state.left = <<>>
  /\ state' = [state EXCEPT !.at = "compare", !.names = Names(Before) \cup Names(After)]
  /\ UNCHANGED given

-----------------------------------------------------------------------------
(* schema_rules.rs: what rejects a request that was accepted.               *)

Open(schema) == schema.additional \in {"true", "absent"}
Both(l, r) == Listed(l) \cap Listed(r)
NoBounds == [k \in {"imin", "emin", "imax", "emax", "lmin", "lmax"} |-> Nothing]

Widening(before, after) == before = "integer" /\ after = "number"

TypeChanged(l, r) ==
  \E n \in Both(l, r) : LET before == l.properties[n].type
                            after == r.properties[n].type
                        IN  after # before /\ ~Widening(before, after)

PropertyRemoved(l, r) == Listed(l) \ Listed(r) # {}

CoversType(l, n, enum) ==
  n \in Listed(l) /\ l.properties[n].type = "boolean" /\ Cardinality(enum) = 2

EnumRestricted(l, r) ==
  \E n \in Listed(r) :
    LET after == r.properties[n].enum
        before == IF n \in Listed(l) THEN l.properties[n].enum ELSE Nothing
    IN  /\ after # Nothing
        /\ IF before = Nothing THEN ~CoversType(l, n, after) ELSE ~(before \subseteq after)

Raised(after, before) == after # Nothing /\ (before = Nothing \/ after > before)
Lowered(after, before) == after # Nothing /\ (before = Nothing \/ after < before)

(* An inclusive bound that became exclusive.                                *)
Sharpened(inclusive, exclusive) == inclusive # Nothing /\ inclusive = exclusive

(* Mutant of Tighter: a bound that was absent before is not compared.       *)
TighterKnown(before, after) ==
  \/ \E k \in {"imin", "emin", "lmin"} : before[k] # Nothing /\ Raised(after[k], before[k])
  \/ \E k \in {"imax", "emax", "lmax"} : before[k] # Nothing /\ Lowered(after[k], before[k])
  \/ Sharpened(before.imin, after.emin) \/ Sharpened(before.imax, after.emax)

Tighter(before, after) ==
  \/ \E k \in {"imin", "emin", "lmin"} : Raised(after[k], before[k])
  \/ \E k \in {"imax", "emax", "lmax"} : Lowered(after[k], before[k])
  \/ Sharpened(before.imin, after.emin) \/ Sharpened(before.imax, after.emax)

BoundsTightened(l, r) ==
  \E n \in Listed(r) :
    LET after == r.properties[n].bounds
    IN  /\ after # NoBounds
        /\ \/ n \notin Listed(l) \/ l.properties[n].bounds = NoBounds
           \/ Tighter(l.properties[n].bounds, after)

AdditionalRestricted(l, r) == Open(l) /\ r.additional = "false"

OpenGained(l, r) == Open(l) /\ Listed(r) \ Listed(l) # {}

Breaking(l, r) ==
  \/ TypeChanged(l, r) \/ PropertyRemoved(l, r) \/ EnumRestricted(l, r) \/ BoundsTightened(l, r)
  \/ AdditionalRestricted(l, r) \/ OpenGained(l, r)

-----------------------------------------------------------------------------
(* schema_cmp.rs: the verdict on two schemas of one tool.                   *)

(* The first transform of the catalog after that exposes the tool fills in  *)
(* names the caller does not send.                                          *)
Exposing(after) ==
  SelectSeq(Transforms, LAMBDA t : /\ t.package = after.package /\ t.catalog = after.catalog
                                   /\ t.exposure = after.name)
Filled(after) == IF Exposing(after) = <<>> THEN {} ELSE Head(Exposing(after)).inject

Remaining(before, after) == (after.schema.required \ before.schema.required) \ Filled(after)

Decide(before, after) ==
  IF Unsupported(before.schema) \/ Unsupported(after.schema) THEN "undetermined"
  ELSE IF Breaking(before.schema, after.schema) \/ Remaining(before, after) # {} THEN "proven-incompatible"
  ELSE IF before.description # after.description THEN "description-only"
  ELSE "proven-compatible"

Change(name, change, compatibility) == [tool |-> name, change |-> change, compatibility |-> compatibility]

(* diff_tool() *)
DiffTool(name, before, after) ==
  CASE Len(before) > 1 \/ Len(after) > 1 -> Change(name, "ambiguous-identity", "undetermined")
    [] before = <<>> /\ Len(after) = 1 -> Change(name, "added", "undetermined")
    [] after = <<>> /\ Len(before) = 1 ->
         IF CatalogComplete(given.before) /\ CatalogComplete(given.after)
         THEN Change(name, "removed", "proven-incompatible")
         ELSE Change(name, "unconfirmed", "undetermined")
    [] OTHER -> Change(name, "schema", Decide(Head(before), Head(after)))

NamedTools(tools, name) == SelectSeq(tools, LAMBDA t : t.name = name)

Compare ==
  /\ state.at = "compare"
  /\ \E name \in state.names :
       state' = [state EXCEPT
                   !.names = @ \ {name},
                   !.changes = Append(@, DiffTool(name, NamedTools(Before, name), NamedTools(After, name)))]
  /\ UNCHANGED given

-----------------------------------------------------------------------------
(* consumers.rs: the skills that declare a compared tool near its package.  *)

Inside(inner, outer) == outer # <<>> /\ IsPrefix(outer, inner)
Near(skill, tool) == skill = tool \/ Inside(skill, tool) \/ Inside(tool, skill)

Consumers ==
  SelectSeq(given.skills,
            LAMBDA s : \E t \in Range(Before \o After) :
                         t.name \in s.declares /\ Near(PackageRoot(s.path), t.package))

Shown(rows) == SubSeq(rows, 1, Min({given.max, Len(rows)}))

Answer ==
  /\ state.at = "compare" /\ state.names = {}
  /\ state' = [state EXCEPT !.at = "answered",
                            !.answer = [changes |-> Shown(state.changes), consumers |-> Shown(Consumers),
                                        truncated |-> Len(state.changes) > given.max]]
  /\ UNCHANGED given

Next == Ingest \/ Begin \/ Compare \/ Answer

-----------------------------------------------------------------------------
(* What a schema accepts, from the meaning of its keywords.                 *)

Measure(value) == IF value.type = "string" THEN value.v \div 2 ELSE value.v

Within(value, bounds) ==
  LET holds(k, is(_, _)) == bounds[k] # Nothing => is(Measure(value), bounds[k])
      above(v, b) == v >= b
      below(v, b) == v <= b
      beyond(v, b) == v > b
      under(v, b) == v < b
  IN  IF value.type = "string" THEN holds("lmin", above) /\ holds("lmax", below)
      ELSE value.type \in {"integer", "number"} =>
             holds("imin", above) /\ holds("emin", beyond) /\ holds("imax", below) /\ holds("emax", under)

Fits(value, spec) ==
  /\ value.type = spec.type \/ (value.type = "integer" /\ spec.type = "number")
  /\ spec.enum # Nothing => value \in spec.enum
  /\ Within(value, spec.bounds)

Accepts(schema, request) ==
  /\ schema.required \subseteq DOMAIN request
  /\ \A n \in DOMAIN request :
       IF n \in Listed(schema) THEN Fits(request[n], schema.properties[n]) ELSE schema.additional # "false"

Requests(names) == UNION {[held -> Values] : held \in SUBSET names}

(* A request, with the names the adapter fills in and the caller left out.  *)
Delivered(request, filled) ==
  LET missing == filled \ DOMAIN request
  IN  {[n \in DOMAIN request \cup missing |-> IF n \in missing THEN added[n] ELSE request[n]] :
         added \in [missing -> Values]}

Rejected(before, after) ==
  \E request \in Requests(Listed(before.schema) \cup Listed(after.schema) \cup {Extra}) :
    /\ Accepts(before.schema, request)
    /\ \A delivered \in Delivered(request, Filled(after) \cap after.schema.required) :
         ~Accepts(after.schema, delivered)

-----------------------------------------------------------------------------
(* Properties *)

Words(schema) == schema.words \cup UNION {schema.properties[n].words : n \in Listed(schema)}

Judged(change) == change.change = "schema" /\ change.compatibility # "undetermined"

(* Changes that are called incompatible and may reject nothing: a property  *)
(* that an open object no longer lists, one that a closed object lists      *)
(* anew, and a limit on a value that one keyword states before and another  *)
(* after.                                                                   *)
Limits(spec) ==
  {k \in DOMAIN NoBounds : spec.bounds[k] # Nothing} \cup (IF spec.enum = Nothing THEN {} ELSE {"enum"})

Overstated(l, r) ==
  \/ PropertyRemoved(l, r) /\ Open(r)
  \/ Listed(r) \ Listed(l) # {} /\ ~Open(l)
  \/ \E n \in Both(l, r) : LET before == Limits(l.properties[n])
                               after == Limits(r.properties[n])
                           IN  before \ after # {} /\ after \ before # {}

(* A verdict is a proof: when two schemas of keywords the comparison knows  *)
(* are called compatible, no request that the one before accepts, with what *)
(* the adapter fills in, is rejected by the one after, whatever types,      *)
(* enums, bounds and open or closed objects meet; when they are called      *)
(* incompatible some request is, but for the forms above. A name that       *)
(* several files hold has no verdict, and one is called removed only if no  *)
(* file of whole catalogs after holds it.                                   *)
VerdictsAreProven ==
  state.changes # <<>> =>
    LET change == Last(state.changes)
        before == NamedTools(Before, change.tool)
        after == NamedTools(After, change.tool)
    IN  /\ Judged(change) =>
             LET l == Head(before)
                 r == Head(after)
             IN  /\ Len(before) = 1 /\ Len(after) = 1
                 /\ Words(l.schema) \cup Words(r.schema) = {} =>
                      IF change.compatibility = "proven-incompatible"
                      THEN Rejected(l, r) \/ Overstated(l.schema, r.schema)
                      ELSE ~Rejected(l, r)
        /\ change.change = "removed" =>
             \A side \in {given.before, given.after} :
               LET reached == {f \in Range(given.files) : Recognized(f) /\ InPath(f, side)}
               IN  reached # {} /\ \A f \in reached : Whole(f)

(* A schema that uses a keyword the comparison does not know has no verdict *)
(* (docs/tool-reference.md:200 "Unsupported keywords stay undetermined").   *)
UnsupportedIsUndetermined ==
  state.changes # <<>> =>
    LET change == Last(state.changes)
    IN  Judged(change) =>
          /\ Words(Head(NamedTools(Before, change.tool)).schema) = {}
          /\ Words(Head(NamedTools(After, change.tool)).schema) = {}
=============================================================================
