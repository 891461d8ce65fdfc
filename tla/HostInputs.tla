------------------------------ MODULE HostInputs ------------------------------
(***************************************************************************)
(* How the generated SDKs turn what an application knows of an event into  *)
(* the event and, beside it, the sources of its attachments.  The          *)
(* application gives text inline, names a reference it has, or embeds a    *)
(* source it owns, in messages and parts that are objects of its own.  The *)
(* SDK finds them at the slots of the plan, gives those without an         *)
(* identity one, and leaves a placeholder where a source has to be         *)
(* uploaded.  A tree is a function from paths to nodes.                    *)
(***************************************************************************)
EXTENDS Integers, Sequences, FiniteSets, SequencesExt

CONSTANTS Plan,        \* the input fields and the slots of each event
          Bases,       \* the input fields an application may give, per event
          Placements,  \* the host values it may put at slots, per event
          Hosts,       \* what its host objects may be, per event
          Sources,     \* the owned sources
          GivenIds,    \* identities the application supplies
          Indices,     \* array indices, in order
          Nil,         \* a missing object, as null or nil
          None, Empty, \* nothing, and the empty string
          WireRef,     \* a reference the application has
          Pending,     \* the placeholder for a reference to come
          Words,       \* what paths are made of: member names and indices
          MaxPlaced, MaxRounds

Paths == Seq(Words)

ASSUME IndicesAssumption == Indices \in Paths /\ IsInjective(Indices) /\ "parts" \in Words

(* A concrete path that a slot stands for.                                 *)
Matches(path, slot) ==
  /\ Len(path) = Len(slot)
  /\ \A i \in DOMAIN slot : IF slot[i] = "*" THEN path[i] \in ToSet(Indices) ELSE path[i] = slot[i]

(* A slot whose parts are those of a message, and the places that host     *)
(* values are put at: its own, or those of its messages.                   *)
InMessages(slot) == Len(slot) > 1 /\ slot[Len(slot) - 1] = "parts"
PlacesOf(slot) == IF InMessages(slot) THEN Front(Front(slot)) ELSE slot

(* The planner refuses two fields in one place or one within another, and  *)
(* an application's fields are among those that are planned.               *)
Planned(fields, slots) ==
  /\ IsFiniteSet(fields) /\ IsFiniteSet(slots)
  /\ \A x \in fields \cup slots : x.path \in Paths
  /\ \A s \in slots : InMessages(s.path) => Last(s.path) = "*"
  /\ \A f, g \in fields : IsPrefix(f.path, g.path) => f = g

Flat(tree) ==
  /\ IsFiniteSet(DOMAIN tree) /\ DOMAIN tree \subseteq Paths
  /\ \A p \in DOMAIN tree : tree[p].is \in {"fact", "record", "list"}

(* Host objects as their types have them, in lists that have indices.      *)
Listed(objects, known) == objects \in Seq(known \cup {Nil}) /\ Len(objects) <= Len(Indices)

Hostly(objects) ==
  \A o \in DOMAIN objects :
    /\ objects[o].id \in GivenIds \cup {None, Empty}
    /\ objects[o].is \in {"part", "message"}
    /\ objects[o].is = "part" => {"kind", "text", "media", "sel", "body"} \subseteq DOMAIN objects[o]
    /\ objects[o].is = "message" =>
         objects[o].parts = None \/ Listed(objects[o].parts, DOMAIN objects)

(* A setter is generated for each slot, or for the messages that hold it.  *)
Callable(call, objects, slots) ==
  /\ call.at \in Paths /\ call.many \in BOOLEAN
  /\ Listed(call.put, DOMAIN objects) /\ (~ call.many => call.put # <<>>)
  /\ \E s \in slots : \A i \in DOMAIN call.put :
       /\ Matches(IF call.many THEN Append(call.at, Indices[i]) ELSE call.at, PlacesOf(s.path))
       /\ call.put[i] # Nil /\ objects[call.put[i]].is = "message" => InMessages(s.path)

(* The identities an SDK makes up are not the application's.               *)
ASSUME FreshAssumption == \A id \in GivenIds \cup {None, Empty} : id \notin Nat

ASSUME InputsAssumption ==
  \A e \in DOMAIN Plan :
    /\ Planned(Plan[e].fields, Plan[e].slots)
    /\ \A given \in Bases[e], f \in Plan[e].fields : f.name \in DOMAIN given => Flat(given[f.name])
    /\ \A objects \in Hosts[e] :
         Hostly(objects) /\ \A call \in Placements[e] : Callable(call, objects, Plan[e].slots)

VARIABLES sdk,      \* the SDK in use
          event,    \* the type of the event
          plan,     \* its plan
          base,     \* the fields given without host objects
          host,     \* the host objects
          placed,   \* the host values given, in order: Rust's replacements
          ids,      \* identities made up so far, by object
          next,     \* the next identity to make up
          result,   \* of the last projection
          issued,   \* history: which object was sent under which identity
          rounds    \* the number of projections

vars == <<sdk, event, plan, base, host, placed, ids, next, result, issued, rounds>>

List   == [is |-> "list"]
Record == [is |-> "record"]
Null   == [is |-> "null"]
Hosted(object) == IF object = Nil THEN Null ELSE [is |-> "host", object |-> object]
IsHost(node)   == node.is = "host"

Starts(path, prefix) == IsPrefix(prefix, path)

(* A function with one more key, and one laid over another.                *)
Put(f, key, value) == [k \in DOMAIN f \cup {key} |-> IF k = key THEN value ELSE f[k]]
Over(f, g) == [k \in DOMAIN f \cup DOMAIN g |-> IF k \in DOMAIN f THEN f[k] ELSE g[k]]


-------------------------------------------------------------------------------
(* The flat fields put at their paths, in the wrappers that this needs.    *)
Parents(at) == {SubSeq(at, 1, n) : n \in 0..(Len(at) - 1)}

Assembled(given) ==
  LET present   == {f \in plan.fields : f.name \in DOMAIN given}
      FieldAt(p) == CHOOSE f \in present : Starts(p, f.path)
      From(p, f) == SubSeq(p, Len(f.path) + 1, Len(p))
      wrappers  == {<<>>} \cup UNION {Parents(f.path) : f \in present}
  IN  [p \in wrappers \cup UNION {{f.path \o q : q \in DOMAIN given[f.name]} : f \in present} |->
         IF p \in wrappers THEN Record ELSE given[FieldAt(p).name][From(p, FieldAt(p))]]

-------------------------------------------------------------------------------
(* The nodes of a host value: a message carries the parts it has.          *)
PartsOf(object) ==
  IF object # Nil /\ host[object].is = "message" THEN host[object].parts ELSE None

RankOf(index) == CHOOSE i \in DOMAIN Indices : Indices[i] = index
Items(at, list) == {Append(at, Indices[i]) : i \in DOMAIN list}

NodesOf(at, object) ==
  LET parts  == PartsOf(object)
      within == Append(at, "parts")
  IN  [p \in {at} \cup (IF parts = None THEN {} ELSE {within} \cup Items(within, parts)) |->
         IF p = at THEN Hosted(object)
         ELSE IF p = within THEN List
         ELSE Hosted(parts[RankOf(Last(p))])]

NodesPlaced(call) ==
  LET Item(i)  == NodesOf(Append(call.at, Indices[i]), call.put[i])
      ItemAt(p) == Item(RankOf(p[Len(call.at) + 1]))
  IN  IF call.many
        THEN [p \in {call.at} \cup UNION {DOMAIN Item(i) : i \in DOMAIN call.put} |->
                IF p = call.at THEN List ELSE ItemAt(p)[p]]
        ELSE NodesOf(call.at, call.put[1])

Cut(tree, at) == [p \in {q \in DOMAIN tree : ~ Starts(q, at)} |-> tree[p]]

(* The path walk of into_host_event: an index must exist in an array, a    *)
(* missing parent becomes an object, anything else cannot be entered.      *)
Enterable(tree, at) ==
  \A q \in Parents(at) \cap DOMAIN tree :
    \/ tree[q].is = "record"
    \/ tree[q].is = "list" /\ SubSeq(at, 1, Len(q) + 1) \in DOMAIN tree
Replaced(tree, at, nodes) ==
  Over(nodes, Over([p \in Parents(at) \ DOMAIN tree |-> Record], Cut(tree, at)))

(* What the application means: the value given last stands at its place.   *)
Meant ==
  FoldLeft(LAMBDA tree, call : Replaced(tree, call.at, NodesPlaced(call)), Assembled(base), placed)

-------------------------------------------------------------------------------
(* The host objects in the order an SDK comes to them: slot by slot, array *)
(* items in order, a message before or after its parts.                    *)
Precedes(p, q) ==
  \E i \in DOMAIN p : p[i] # q[i] /\ SubSeq(p, 1, i - 1) = SubSeq(q, 1, i - 1)
                      /\ RankOf(p[i]) < RankOf(q[i])
InOrder(paths) ==
  [i \in 1..Cardinality(paths) |->
     CHOOSE p \in paths : Cardinality({q \in paths : Precedes(q, p)}) = i - 1]
PathsOf(tree, slot) == {p \in DOMAIN tree : Matches(p, slot)}

VisitsOf(tree, slot, messageFirst) ==
  IF ~ InMessages(slot) THEN InOrder(PathsOf(tree, slot)) ELSE
    LET messages == InOrder(PathsOf(tree, PlacesOf(slot)))
        PartsIn(m) == InOrder({p \in PathsOf(tree, slot) : Starts(p, m)})
    IN  FlattenSeq([i \in DOMAIN messages |->
          IF messageFirst THEN <<messages[i]>> \o PartsIn(messages[i])
                          ELSE PartsIn(messages[i]) \o <<messages[i]>>])

Visits(tree, messageFirst) ==
  LET slots == SetToSeq({s.path : s \in plan.slots})
  IN  FlattenSeq([i \in DOMAIN slots |-> VisitsOf(tree, slots[i], messageFirst)])

-------------------------------------------------------------------------------
(* A projection under way: it fails as a whole, but not its identities.    *)
Projection(tree, known, count) ==
  [ok |-> TRUE, event |-> tree, bindings |-> {}, ids |-> known, next |-> count]
Failed(run) == [run EXCEPT !.ok = FALSE]

Owned(part) == part.body \in Sources

NamedAnew(run, owner) ==   \* a wrong Named: a new identity whenever one is asked for
  [run EXCEPT !.ids = Put(@, owner, run.next), !.next = @ + 1]

(* Make an identity up, unless the owner has one from before.              *)
Named(run, owner) ==
  IF owner \in DOMAIN run.ids THEN run
  ELSE [run EXCEPT !.ids = Put(@, owner, run.next), !.next = @ + 1]

Identity(run, owner, thing) ==
  IF thing.id = None THEN [id |-> run.ids[owner], synthesized |-> TRUE]
                     ELSE [id |-> thing.id, synthesized |-> thing.flag]

(* An identity that is missing must not be denied to be made up.           *)
Contradicts(thing) == thing.id = None /\ thing.flag = FALSE

IdentityOfItsOwn(run, owner, thing) == IF thing.id = None THEN Named(run, owner) ELSE run

WrittenPart(identity, form) ==
  [is |-> "part", kind |-> form.kind, text |-> form.text, media |-> form.media,
   sel |-> form.sel, body |-> form.body, id |-> identity.id, synthesized |-> identity.synthesized]
WrittenMessage(identity, message) ==
  [is |-> "message", role |-> message.role, id |-> identity.id, synthesized |-> identity.synthesized]

Write(run, at, value) == [run EXCEPT !.event[at] = value]
Bind(run, at, part) ==
  IF Owned(part) THEN [run EXCEPT !.bindings = @ \cup {[path |-> at, source |-> part.body]}] ELSE run

Or(value, default) == IF value = None THEN default ELSE value

CanonicalRoles == {"system", "developer", "user", "assistant", "tool"}

(* Media types by what the checks can tell apart; "json ;" has a blank     *)
(* before its parameters.  The schema's pattern looks for the bare name    *)
(* before a semicolon or the end.                                          *)
TextMedia      == {"text"}
JsonByPattern  == {"json", "json;"}
JsonWhenTrimmed == {"json", "json;", "json ;"}

(* The structure of ContentItem's alternatives, which the decoders check.  *)
Canonical(form) ==
  /\ form.sel \in {"body", "metadata"} /\ form.media # None
  /\ form.kind = "text" => form.media = "plain" /\ form.body = None /\ form.text = (form.sel = "body")
  /\ form.kind = "attachment" => ~ form.text /\ (form.body # None) = (form.sel = "body")

-------------------------------------------------------------------------------
(* Rust: host values are moved into the input, which owns what it is made  *)
(* of; a missing identity is made up when a part or message is built.      *)
Built(k) == {p \in DOMAIN NodesPlaced(placed[k]) : IsHost(NodesPlaced(placed[k])[p])}
RustOwners ==
  {o \in UNION {{<<k, p>> : p \in Built(k)} : k \in DOMAIN placed} :
     host[NodesPlaced(placed[o[1]])[o[2]].object].id = None}
RustIds ==
  FoldSet(LAMBDA owner, run : Named(run, owner), Projection(<<>>, <<>>, 1), RustOwners).ids

(* project of a part, with validate_host_part                              *)
RustForm(part) ==
  LET form == [part EXCEPT !.media = Or(@, IF part.kind = "text" THEN "plain" ELSE None),
                           !.sel = Or(@, "body"), !.body = IF Owned(part) THEN Pending ELSE @]
  IN  {f \in {form} : /\ part.id # Empty /\ Canonical(f)
                      /\ Owned(part) => part.kind = "attachment"
                      /\ part.kind = "attachment" => part.media \notin TextMedia \cup JsonByPattern}

RustVisit(run, k, at) ==
  LET thing    == host[NodesPlaced(placed[k])[at].object]
      identity == Identity(run, <<k, at>>, thing)
  IN  IF thing.is = "message"
        THEN IF thing.id = Empty THEN Failed(run) ELSE Write(run, at, WrittenMessage(identity, thing))
      ELSE IF RustForm(thing) = {} THEN Failed(run)
      ELSE Bind(Write(run, at, WrittenPart(identity, CHOOSE f \in RustForm(thing) : TRUE)), at, thing)

KeepsBindings(run, at) == run   \* a wrong DropsBindings: replaced sources stay bound

(* What an earlier value bound below the path goes with that value.        *)
DropsBindings(run, at) == [run EXCEPT !.bindings = {b \in @ : ~ Starts(b.path, at)}]

RustReplace(run, k) ==
  LET call  == placed[k]
      nodes == NodesPlaced(call)
      built == FoldSet(LAMBDA at, r : RustVisit(r, k, at),
                       [DropsBindings(run, call.at) EXCEPT !.event = nodes], Built(k))
  IN  IF ~ run.ok THEN run
      ELSE IF ~ Enterable(run.event, call.at) THEN Failed(run)
      ELSE [built EXCEPT !.event = Replaced(run.event, call.at, @)]

RustProject ==
  FoldLeft(RustReplace, Projection(Assembled(base), RustIds, 1), [k \in DOMAIN placed |-> k])

-------------------------------------------------------------------------------
(* Go: the host values override their fields.  Encoding assigns missing    *)
(* identities to the objects themselves; sources are collected beforehand. *)
NilSibling(tree, at) ==
  \E p \in DOMAIN tree : Len(p) = Len(at) /\ Front(p) = Front(at) /\ tree[p].is = "null"

GoIdentity(run, object) == IdentityOfItsOwn(run, object, host[object])

Wire(part) == ~ part.text /\ ~ Owned(part) /\ None \notin {part.id, part.sel, part.media}

(* A complete wire part is passed on as it is.                             *)
GoForm(part) ==
  LET form == [part EXCEPT !.media = Or(@, IF part.kind = "text" THEN "plain" ELSE None),
                           !.sel = Or(@, "body"), !.body = IF Owned(part) THEN Pending ELSE @]
  IN  IF Wire(part) THEN {part}
      ELSE {f \in {form} : /\ Canonical(f) /\ f.sel = "body"
                           /\ part.kind = "attachment" => part.media \notin TextMedia \cup JsonWhenTrimmed}

GoVisit(run, at) ==
  LET node  == run.event[at]
      thing == host[node.object]
      named == GoIdentity(run, node.object)
      identity == Identity(named, node.object, thing)
  IN  IF ~ run.ok \/ ~ IsHost(node) \/ NilSibling(run.event, at) THEN Failed(run)
      ELSE IF thing.is = "message"
        THEN IF thing.role \notin CanonicalRoles \/ Contradicts(thing) THEN Failed(run)
             ELSE IF thing.parts = None THEN Failed(named)
             ELSE Write(named, at, WrittenMessage(identity, thing))
      ELSE IF GoForm(thing) = {} \/ Contradicts(thing) THEN Failed(run)
      ELSE Write(named, at, WrittenPart(identity, CHOOSE f \in GoForm(thing) : TRUE))

GoSources(tree) ==
  {[path |-> at, source |-> host[tree[at].object].body] :
     at \in {p \in DOMAIN tree : IsHost(tree[p]) /\ host[tree[p].object].is = "part"
                                 /\ Owned(host[tree[p].object])}}

GoProject(given, known, count) ==
  [FoldLeft(GoVisit, Projection(given, known, count), Visits(given, TRUE))
     EXCEPT !.bindings = GoSources(given)]

-------------------------------------------------------------------------------
(* Python: the constructor of an event input replaces its dictionaries by  *)
(* copies, which get the missing identities.                               *)
PythonForm(part) ==
  LET form == [part EXCEPT !.media = Or(@, IF part.kind = "text" THEN "plain" ELSE None),
                           !.sel = Or(@, "body"), !.body = IF Owned(part) THEN Pending ELSE @]
  IN  {f \in {form} : /\ ~ part.stray /\ part.id # Empty /\ Canonical(f)
                      /\ Owned(part) => part.kind = "attachment" /\ f.sel = "body"
                      /\ part.kind = "attachment" => part.media \notin TextMedia \cup JsonByPattern}

PythonVisit(run, at) ==
  LET node  == run.event[at]
      thing == host[node.object]
      named == IdentityOfItsOwn(run, at, thing)
      identity == Identity(named, at, thing)
  IN  IF ~ run.ok \/ ~ IsHost(node) THEN Failed(run)
      ELSE IF Contradicts(thing) THEN Failed(run)
      ELSE IF thing.is = "message"
        THEN IF thing.role \notin CanonicalRoles \/ thing.id = Empty \/ thing.parts = None THEN Failed(named)
             ELSE Write(named, at, WrittenMessage(identity, thing))
      ELSE IF PythonForm(thing) = {} THEN Failed(named)
      ELSE Bind(Write(named, at, WrittenPart(identity, CHOOSE f \in PythonForm(thing) : TRUE)), at, thing)

PythonProject(given, count) ==
  FoldLeft(PythonVisit, Projection(given, <<>>, count), Visits(given, FALSE))

-------------------------------------------------------------------------------
(* TypeScript: objects stay as they are, a weak map remembers identities.  *)
(* An owned attachment becomes a description of itself until it is ready.  *)
TsMediaUntrimmed(part) ==   \* a wrong TsMedia: a blank hides the type
  part.media \notin {None} \cup TextMedia \cup JsonByPattern
TsMedia(part) == part.media \notin {None} \cup TextMedia \cup JsonWhenTrimmed

TsForm(part) ==
  CASE part.kind = "text" /\ part.text ->
         {f \in {[part EXCEPT !.media = "plain", !.sel = "body"]} :
            part.media \in {None, "plain"} /\ part.sel \in {None, "body"} /\ Canonical(f)}
    [] part.kind = "attachment" /\ Owned(part) ->
         {f \in {[part EXCEPT !.sel = "metadata", !.body = None]} :
            TsMedia(part) /\ part.sel \in {None, "body"} /\ Canonical(f)}
    [] OTHER -> {f \in {part} : Canonical(f) /\ (part.kind = "attachment" => TsMedia(part))}

TsVisit(run, at) ==
  LET node  == run.event[at]
      thing == host[node.object]
      named == IdentityOfItsOwn(run, node.object, thing)
      identity == Identity(named, node.object, thing)
  IN  IF ~ run.ok \/ ~ IsHost(node) THEN Failed(run)
      ELSE IF Contradicts(thing) \/ thing.id = Empty THEN Failed(run)
      ELSE IF thing.is = "message"
        THEN IF thing.role \notin CanonicalRoles \/ thing.parts = None THEN Failed(run)
             ELSE Write(named, at, WrittenMessage(identity, thing))
      ELSE IF thing.stray \/ (Owned(thing) /\ thing.kind # "attachment") THEN Failed(run)
      ELSE IF TsForm(thing) = {} THEN Failed(named)
      ELSE Bind(Write(named, at, WrittenPart(identity, CHOOSE f \in TsForm(thing) : TRUE)), at, thing)

TsProject(given, known, count) ==
  FoldLeft(TsVisit, Projection(given, known, count), Visits(given, TRUE))

-------------------------------------------------------------------------------
(* What the types of an SDK let an application write at all.               *)
ObjectsOf(tree) == {tree[p].object : p \in {q \in DOMAIN tree : IsHost(tree[q])}}
InlineText(part) == /\ part.kind = "text" /\ part.text /\ part.body = None
                    /\ part.sel \in {None, "body"} /\ part.media = None
OwnedPart(part)  == part.kind = "attachment" /\ ~ part.text /\ Owned(part) /\ part.media # None
Whole(part)      == ~ part.stray /\ Wire(part) /\ Canonical(part)

Writable(language, thing) ==
  /\ thing.is = "message" =>
       /\ language = "go" => thing.id # Empty
       /\ language = "rust" => /\ ~ Contradicts(thing) /\ thing.role \in CanonicalRoles
                               /\ thing.parts # None /\ Nil \notin ToSet(thing.parts)
  /\ thing.is = "part" =>
       CASE language = "python" -> TRUE
         [] language = "typescript" -> InlineText(thing) \/ OwnedPart(thing) \/ Whole(thing)
         [] language = "go" ->
              /\ thing.id # Empty /\ ~ thing.stray
              /\ \/ InlineText(thing) \/ OwnedPart(thing) \/ Whole(thing)
                 \/ thing.kind = "attachment" /\ ~ thing.text /\ thing.body = WireRef
         [] language = "rust" ->
              /\ ~ Contradicts(thing) /\ ~ thing.stray
              /\ InlineText(thing) \/ (OwnedPart(thing) /\ thing.sel \in {None, "body"}) \/ Whole(thing)

(* Each SDK but Rust has the application build what an index counts in.    *)
Expresses(language, meant) ==
  /\ \A o \in ObjectsOf(meant) : Writable(language, host[o])
  /\ language # "rust" => \A k \in DOMAIN placed : Parents(placed[k].at) \subseteq DOMAIN Assembled(base)
  /\ language = "rust" => \A p \in DOMAIN meant : meant[p].is # "null"

-------------------------------------------------------------------------------
Languages == {"rust", "go", "python", "typescript"}

ProjectIn(language, meant, known, count) ==
  CASE language = "rust"   -> RustProject
    [] language = "go"     -> GoProject(meant, known, count)
    [] language = "python" -> PythonProject(meant, count)
    [] OTHER               -> TsProject(meant, known, count)

ASSUME NoneAssumption == None \notin Languages \cup {Pending, "body", "metadata"}

(* An identity belongs to the object in Go and TypeScript, and to one      *)
(* place of one input in Rust and Python.                                  *)
OwnerAt(language, tree, at) ==
  IF language \in {"go", "typescript"} THEN <<tree[at].object>> ELSE <<rounds, at>>

MadeUp(tree) == {p \in DOMAIN tree : tree[p].is \in {"part", "message"} /\ tree[p].id \notin GivenIds}

Init ==
  /\ sdk = None
  /\ event \in DOMAIN Plan
  /\ plan = Plan[event]
  /\ base \in Bases[event]
  /\ host \in Hosts[event]
  /\ placed = <<>> /\ ids = <<>> /\ next = 1 /\ issued = {} /\ rounds = 0
  /\ result = [ok |-> FALSE, event |-> <<>>, bindings |-> {}, of |-> <<>>]

(* The application gives a host value for a slot.  Rust's inputs are gone  *)
(* once they are projected.                                                *)
Place(call) ==
  /\ Len(placed) < MaxPlaced
  /\ sdk # "rust"
  /\ placed' = Append(placed, call)
  /\ UNCHANGED <<sdk, event, plan, base, host, ids, next, result, issued, rounds>>

Project(language) ==
  /\ sdk \in {None, language}
  /\ rounds < (IF language = "rust" THEN 1 ELSE MaxRounds)
  /\ LET meant == Meant
         run   == ProjectIn(language, meant, ids, next)
     IN  /\ Expresses(language, meant)
         /\ result' = [ok |-> run.ok, event |-> run.event, bindings |-> run.bindings, of |-> meant]
         /\ ids' = run.ids /\ next' = run.next
         /\ issued' = issued \cup (IF ~ run.ok THEN {} ELSE
                        {[owner |-> OwnerAt(language, meant, p), id |-> run.event[p].id] : p \in MadeUp(run.event)})
  /\ sdk' = language /\ rounds' = rounds + 1
  /\ UNCHANGED <<event, plan, base, host, placed>>

Next == (\E call \in Placements[event] : Place(call)) \/ (\E language \in Languages : Project(language))
Spec == Init /\ [][Next]_vars

-------------------------------------------------------------------------------
(* The event once the runtime has put the references of the uploaded       *)
(* sources where the projection asks for them.                             *)
Resolved(run) ==
  [p \in DOMAIN run.event \cup {b.path : b \in run.bindings} |->
     IF \E b \in run.bindings : b.path = p
       THEN [run.event[p] EXCEPT !.sel = "body",
                                 !.body = (CHOOSE b \in run.bindings : b.path = p).source]
       ELSE run.event[p]]

(* A part or message says of a host object what the object says: nothing   *)
(* is lost or made up but an identity, which says so.                      *)
SameIdentity(written, thing) ==
  IF thing.id # None THEN written.id = thing.id /\ written.synthesized = thing.flag
                     ELSE written.id \notin GivenIds \cup {None, Empty} /\ written.synthesized = TRUE

Says(written, thing) ==
  /\ written.is = thing.is
  /\ SameIdentity(written, thing)
  /\ thing.is = "message" => written.role = thing.role
  /\ thing.is = "part" =>
       /\ written.kind = thing.kind /\ written.text = thing.text /\ written.body = thing.body
       /\ written.sel = Or(thing.sel, "body") /\ written.media = Or(thing.media, "plain")

(* A projection that succeeds, completed by the runtime, is the event the  *)
(* application means: every source is bound exactly where its attachment   *)
(* ended up, replaced values leave nothing behind, identities are the      *)
(* application's own or marked as made up, and what is outside the slots   *)
(* is as it was given.                                                     *)
ProjectionFaithful ==
  result.ok =>
    /\ \A b, c \in result.bindings : b.path = c.path => b = c
    /\ {b.path : b \in result.bindings} \subseteq DOMAIN result.event
    /\ DOMAIN result.event = DOMAIN result.of
    /\ \A p \in DOMAIN result.of :
         IF IsHost(result.of[p]) THEN Says(Resolved(result)[p], host[result.of[p].object])
                                 ELSE result.event[p] = result.of[p]

(* However often an input is projected, and whatever failed or changed in  *)
(* between, an object is sent under one made up identity, and no two       *)
(* objects under the same.                                                 *)
IdentitiesOnce == \A a, b \in issued : a.owner = b.owner <=> a.id = b.id

(* Rust and Python go by the schema's pattern, which a blank defeats, and  *)
(* Go does not look at the media type of a part that has a reference.      *)
Disputed(part) ==
  part.is = "part" /\ part.kind = "attachment"
    /\ (part.media = "json ;" \/ (~ Owned(part) /\ part.media \in TextMedia \cup JsonByPattern))

Anonymous(tree) ==
  [p \in DOMAIN tree |-> IF p \in MadeUp(tree) THEN [tree[p] EXCEPT !.id = None] ELSE tree[p]]

(* {} when the projection is refused, else the event it comes to.          *)
Outcome(language, meant) ==
  LET run == ProjectIn(language, meant, <<>>, 1)
  IN  IF run.ok THEN {Anonymous(Resolved(run))} ELSE {}

(* Rust also projects, and can refuse, a value that a later one replaces.  *)
Comparable(meant) ==
  {l \in Languages : /\ Expresses(l, meant)
                     /\ l = "rust" => \A j, k \in DOMAIN placed :
                                        j < k => ~ Starts(placed[j].at, placed[k].at)}

(* An input that several SDKs can express is taken by all of them or by    *)
(* none, and becomes the same event but for the identities made up.  Of    *)
(* media types in dispute TypeScript takes the fewest.                     *)
LanguagesAgree ==
  sdk = None =>
    LET meant    == Meant
        disputed == \E o \in ObjectsOf(meant) : Disputed(host[o])
        outcomes == {[of |-> l, is |-> Outcome(l, meant)] : l \in Comparable(meant)}
    IN  \A x, y \in outcomes :
          \/ x.is = y.is
          \/ disputed /\ (x.of = "typescript" => x.is = {})
===============================================================================
