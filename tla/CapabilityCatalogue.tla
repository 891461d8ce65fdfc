-------------------------- MODULE CapabilityCatalogue --------------------------
(***************************************************************************)
(* The catalogue of what a host may let interceptors do at each event,     *)
(* derived from the schemas: the events of the two request schemas, the    *)
(* capability constraint of each event, and the effects it can return.     *)
(***************************************************************************)
EXTENDS ShapeProjection

CONSTANT Pascal   \* the type name of an event: "tool.before" to "ToolBefore"

Known(name) == name \in DOMAIN Defs

EventTags(request) ==
  IF Known(request) THEN TagsWithin(Shapes[request], <<"params", "event", "type">>, {}) ELSE {}

InterceptEvents == EventTags("InterceptRequest")
ObserveEvents   == EventTags("ObserveNotification")
CatalogueEvents == IF Known("Capabilities") THEN InterceptEvents \cup ObserveEvents ELSE {}

(* The members of every object alternative of an effect.                   *)
RECURSIVE EffectObjects(_, _)
EffectObjects(shape, seen) ==
  CASE Follows(shape, seen)  -> EffectObjects(Shapes[shape.name], seen \cup {shape.name})
    [] shape.kind = "union"  -> UNION {EffectObjects(shape.variants[i], seen) : i \in DOMAIN shape.variants}
    [] OTHER                 -> ObjectFields(shape)

EffectsOf(event) == EffectObjects(Shapes[Pascal[event] \o "Effect"], {})

AnyFamily(event) == UNION {MemberValues(f, "type") : f \in EffectsOf(event)}   \* a wrong Allowed

(* The families that the event's capability constraint lists.              *)
Allowed(event) ==
  UNION {MemberValues(f, "effects") : f \in ObjectFields(Shapes["capabilities#" \o event])}

(* The alternatives of an allowed family; an extension tag grants nothing. *)
OfFamily(event, family) ==
  {f \in EffectsOf(event) : family \in MemberValues(f, "type") \cap Allowed(event)}

ValuesOf(event, family, member) ==
  UNION {MemberValues(f, member) : f \in OfFamily(event, family)}

Targets(event) == ValuesOf(event, "modify", "target")

Facilities ==
  UNION {UNION {DOMAIN f : f \in UNION {ObjectFields(m) : m \in MemberShapes(base, "elicitation")}} :
           base \in ObjectFields(Shapes["Capabilities"])}

Nothing(event) ==
  [intercept |-> FALSE, observe |-> event \in ObserveEvents, effects |-> {}, modify |-> <<>>,
   flow |-> {}, delivery |-> {}, elicitation |-> {}]

Entry(event) ==
  IF event \notin InterceptEvents THEN Nothing(event) ELSE
    [Nothing(event) EXCEPT
       !.intercept   = TRUE,
       !.effects     = {family \in Allowed(event) : OfFamily(event, family) # {}},
       !.modify      = [target \in Targets(event) |->
                          UNION {MemberValues(f, "operation") :
                                   f \in {g \in OfFamily(event, "modify") : target \in MemberValues(g, "target")}}],
       !.flow        = ValuesOf(event, "flow", "operation"),
       !.delivery    = ValuesOf(event, "inject", "deliverAt"),
       !.elicitation = Facilities]

(* The ensure!s: a family that needs details has them.                     *)
Complete(entry) ==
  entry.intercept =>
    /\ entry.effects # {}
    /\ "modify" \in entry.effects => entry.modify # <<>>
    /\ "flow" \in entry.effects => entry.flow # {}
    /\ "inject" \in entry.effects => entry.delivery # {}

(* The events that a subscription of this type may list.                   *)
EventNames(model) == UNION {MemberValues(f, "events") : f \in ObjectFields(Shapes[model])}

DerivedCatalogue == [event \in CatalogueEvents |-> Entry(event)]
-------------------------------------------------------------------------------
(* What the schemas themselves say: an effect with these members may be    *)
(* returned for the event by an interceptor whose family was granted.      *)
Returnable(event, members) ==
  /\ Valid([obj |-> [k \in DOMAIN members |-> [str |-> members[k]]]], Defs[Pascal[event] \o "Effect"])
  /\ Valid([obj |-> [effects |-> [arr |-> <<[str |-> members["type"]]>>]]], Defs["capabilities#" \o event])

Grantable(entry, members) ==
  CASE members["type"] = "modify" ->
         members.target \in DOMAIN entry.modify /\ members.operation \in entry.modify[members.target]
    [] members["type"] = "flow"   -> members.operation \in entry.flow
    [] members["type"] = "inject" -> members.deliverAt \in entry.delivery
    [] OTHER                      -> members["type"] \in entry.effects

(* The entry of an event lists exactly the effects that its schemas let an *)
(* interceptor return: no grant without an effect that uses it, and no     *)
(* effect that no host can grant.                                          *)
EntryExact(event, entry, effects) ==
  entry.intercept => \A members \in effects : Grantable(entry, members) <=> Returnable(event, members)
===============================================================================
