---------------------------- MODULE HostCapabilities ----------------------------
(***************************************************************************)
(* How a host declares what interceptors of one event may do, in the four  *)
(* generated SDKs.  Rust composes immutable values one method call at a    *)
(* time; Go, Python and TypeScript declare a record, which TypeScript has  *)
(* to check when it renders it, because types do not protect an object     *)
(* that others can still write to.                                         *)
(***************************************************************************)
EXTENDS Integers, Sequences, FiniteSets, SequencesExt

CONSTANTS Catalogue,   \* what each event supports, by event
          Counts,      \* the continuation counts that occur
          None,        \* an absent optional value
          Bad          \* a value of a wrong type, as untyped code may write

VARIABLES event,       \* the event that is declared
          rule,        \* its entry of the catalogue, which its types are made of
          builder,     \* Rust's State
          asked,       \* the record the other three are given
          object       \* the TypeScript object, as others may leave it

vars == <<event, rule, builder, asked, object>>

(* What the compiler ensures of an entry: a family of effects is there if  *)
(* and only if what it needs is, an event has controls if it can be        *)
(* intercepted, and both kinds of operations are known.  In the schemas    *)
(* every target has both operations, as the capability schema requires.    *)
ModifyOperations == {"replace", "merge"}

Compiled(r) ==
  /\ r.intercept \in BOOLEAN /\ r.observe \in BOOLEAN
  /\ r.effects # {} \/ r.elicitation # {} => r.intercept
  /\ IsFiniteSet(r.effects) /\ IsFiniteSet(r.delivery)
  /\ "modify" \in r.effects <=> DOMAIN r.modify # {}
  /\ "flow" \in r.effects <=> r.flow # {}
  /\ "inject" \in r.effects <=> r.delivery # {}
  /\ \A t \in DOMAIN r.modify : r.modify[t] = ModifyOperations
  /\ r.flow \subseteq {"stop", "continue"}

ASSUME CatalogueAssumption == \A e \in DOMAIN Catalogue : Compiled(Catalogue[e])

(* What a part that may be absent is when it is there.                     *)
FlowGrants(lists) ==
  [operations : lists, remaining : Counts \cup {None}, count : Counts \cup {None},
   most : Counts \cup {None}]

Injections(r) == [append : {TRUE}, deliverAt : Seq(r.delivery)]
TrueFor(S)    == UNION {[part -> {TRUE}] : part \in SUBSET S}

ObjectGrants(r) ==
  [controls : TrueFor(r.effects),
   modify : UNION {[T -> SUBSET ModifyOperations] : T \in SUBSET DOMAIN r.modify},
   flow : {None} \cup FlowGrants(Seq(r.flow)), inject : {None} \cup Injections(r),
   elicitation : {None} \cup TrueFor(r.elicitation), foreign : {{}}]

WireCapabilities(r) ==
  [effects : Seq(r.effects),
   modify : UNION {[T -> [ModifyOperations -> BOOLEAN]] : T \in SUBSET DOMAIN r.modify},
   flow : {None} \cup FlowGrants(Seq(r.flow)), inject : {None} \cup Seq(r.delivery),
   elicitation : SUBSET r.elicitation]

Present(r) ==
  /\ None \notin BOOLEAN /\ None \notin Counts
  /\ None \notin FlowGrants(SUBSET r.flow) /\ None \notin FlowGrants(Seq(r.flow))
  /\ None \notin Seq(r.delivery) /\ None \notin Injections(r) /\ None \notin TrueFor(r.elicitation)
  /\ None \notin ObjectGrants(r) /\ None \notin WireCapabilities(r)

ASSUME NoneAssumption == \A e \in DOMAIN Catalogue : Present(Catalogue[e])
ASSUME BadAssumption  == Bad \notin BOOLEAN

Detailed   == {"modify", "flow", "inject"}
Controls   == rule.effects \ Detailed
NonEmptySubsets(S) == (SUBSET S) \ {{}}

(* A flow grant: operations, and counts that come with "continue".         *)
Flow(operations, remaining, count, most) ==
  [operations |-> operations, remaining |-> remaining, count |-> count, most |-> most]

Or(new, old) == IF new = None THEN old ELSE new

Put(f, key, value) == [k \in DOMAIN f \cup {key} |-> IF k = key THEN value ELSE f[k]]

(* Extend a list by the members it lacks, one after the other; then sort   *)
(* by rank: what is sorted has no member twice.                            *)
Extend(list, more) ==
  FoldLeft(LAMBDA all, x : IF Contains(all, x) THEN all ELSE Append(all, x), list, more)

Ordered(list, first) == Extend(IF Contains(list, first) THEN <<first>> ELSE <<>>, list)

-------------------------------------------------------------------------------
(* Rust: the methods of an event's declaration type.                       *)
Fresh == [observe |-> FALSE, effects |-> {}, modify |-> [t \in {} |-> {}], flow |-> None,
          inject |-> None, elicitation |-> {}]

(* The wire forms of the grant enums: a mask over the target's operations. *)
ModifyGrant(target, operations) == [op \in rule.modify[target] |-> op \in operations]

AddModifyLast(state, target, operations) ==   \* a wrong AddModify: the last call wins
  [state EXCEPT !.effects = @ \cup {"modify"},
                !.modify = Put(@, target, ModifyGrant(target, operations))]

AddModify(state, target, operations) ==
  LET grant == ModifyGrant(target, operations)
      old   == IF target \in DOMAIN state.modify THEN state.modify[target]
                                                 ELSE [op \in DOMAIN grant |-> FALSE]
  IN  [state EXCEPT !.effects = @ \cup {"modify"},
                    !.modify  = Put(@, target, [op \in DOMAIN grant |-> old[op] \/ grant[op]])]

(* add_flow: operations accumulate, the newest counts win.                 *)
AddFlow(state, grant) ==
  LET old == state.flow
      all == IF old = None THEN grant
             ELSE Flow(Extend(grant.operations, old.operations), Or(grant.remaining, old.remaining),
                       Or(grant.count, old.count), Or(grant.most, old.most))
  IN  [state EXCEPT !.effects = @ \cup {"flow"},
                    !.flow = [all EXCEPT !.operations = Ordered(@, "stop")]]

AddInject(state, delivery) ==
  [state EXCEPT !.effects = @ \cup {"inject"},
     !.inject = Ordered(IF @ = None THEN delivery ELSE Extend(delivery, @), "now")]

(* State::wire                                                             *)
RustWire ==
  LET intercept == builder.effects # {} \/ builder.elicitation # {}
  IN  [modes |-> (IF intercept THEN <<"intercept">> ELSE <<>>)
                   \o (IF builder.observe THEN <<"observe">> ELSE <<>>),
       capabilities |->
         IF ~ intercept THEN None
         ELSE [effects |-> SetToSeq(builder.effects), modify |-> builder.modify,
               flow |-> builder.flow, inject |-> builder.inject,
               elicitation |-> builder.elicitation]]
-------------------------------------------------------------------------------
(* Go, Python and TypeScript: one record per event.                        *)
Unasked ==
  [observe |-> FALSE, controls |-> {}, modify |-> [t \in DOMAIN rule.modify |-> {}],
   flow |-> None, delivery |-> <<>>, elicitation |-> {}]

GrantedAll(a) == DOMAIN a.modify   \* a wrong Granted: zero grants are written too
Granted(a)    == {t \in DOMAIN a.modify : a.modify[t] # {}}
Intercepts(a) == a.controls # {} \/ Granted(a) # {} \/ a.flow # None
                   \/ a.delivery # <<>> \/ a.elicitation # {}

(* The families of a record, each added once.                              *)
EffectList(a) ==
  SetToSeq(a.controls) \o (IF Granted(a) # {} THEN <<"modify">> ELSE <<>>)
    \o (IF a.flow # None THEN <<"flow">> ELSE <<>>)
    \o (IF a.delivery # <<>> THEN <<"inject">> ELSE <<>>)

FlowListShort(operations) ==   \* a wrong FlowList: "stop" is dropped beside "continue"
  IF "continue" \in operations THEN <<"continue">> ELSE <<"stop">>

(* A flow record: "continue" carries its counts, "stop" follows it.        *)
FlowList(operations) ==
  (IF "continue" \in operations THEN <<"continue">> ELSE <<>>)
    \o (IF "stop" \in operations THEN <<"stop">> ELSE <<>>)
RecordFlow(a) == IF a.flow = None THEN None ELSE [a.flow EXCEPT !.operations = FlowList(@)]

Modes(intercept, observe) ==
  (IF intercept THEN <<"intercept">> ELSE <<>>) \o (IF observe THEN <<"observe">> ELSE <<>>)

(* Operations(t): the members a language writes for the target t.          *)
RecordWire(a, Operations(_)) ==
  [modes |-> Modes(Intercepts(a), a.observe),
   capabilities |->
     IF ~ Intercepts(a) THEN None
     ELSE [effects |-> EffectList(a),
           modify  |-> [t \in Granted(a) |-> [op \in Operations(t) |-> op \in a.modify[t]]],
           flow    |-> RecordFlow(a),
           inject  |-> IF a.delivery = <<>> THEN None ELSE a.delivery,
           elicitation |-> a.elicitation]]

GoWire == RecordWire(asked, LAMBDA t : {"replace", "merge"})

(* __post_init__ of the declaration and of its parts.                      *)
PythonAccepts(a) ==
  /\ \A t \in Granted(a) : a.modify[t] \subseteq rule.modify[t]
  /\ a.flow # None => a.flow.operations \subseteq rule.flow
  /\ IsInjective(a.delivery) /\ Range(a.delivery) \subseteq rule.delivery
  /\ a.elicitation \subseteq rule.elicitation
  /\ a.observe => rule.observe
  /\ Intercepts(a) \/ a.observe

PythonWire == RecordWire(asked, LAMBDA t : rule.modify[t])

-------------------------------------------------------------------------------
(* TypeScript: the object a record is written as, and what it may become.  *)
NoGrants ==
  [controls |-> [c \in {} |-> TRUE], modify |-> [t \in {} |-> {}], flow |-> None, inject |-> None,
   elicitation |-> None, foreign |-> {}]

ObjectOf(a) ==
  [observe |-> IF a.observe THEN TRUE ELSE None,
   grants  |->
     IF ~ Intercepts(a) THEN None
     ELSE [controls |-> [c \in a.controls |-> TRUE],
           modify   |-> [t \in Granted(a) |-> a.modify[t]],
           flow     |-> RecordFlow(a),
           inject   |-> IF a.delivery = <<>> THEN None ELSE [append |-> TRUE, deliverAt |-> a.delivery],
           elicitation |-> IF a.elicitation = {} THEN None ELSE [m \in a.elicitation |-> TRUE],
           foreign  |-> {}]]

ListOf(list, allowed) == list # <<>> /\ Range(list) \subseteq allowed

ShortFlow(flow) ==   \* a wrong FlowHolds: the counts of "continue" are not asked for
  ListOf(flow.operations, rule.flow) /\ {flow.remaining, flow.count, flow.most} \subseteq Counts \cup {None}

FlowHolds(flow) ==
  /\ ListOf(flow.operations, rule.flow)
  /\ {flow.remaining, flow.count, flow.most} \subseteq Counts \cup {None}
  /\ Contains(flow.operations, "continue") => flow.remaining # None /\ flow.count # None

Supported(grants) ==
  DOMAIN grants.controls # {} \/ DOMAIN grants.modify # {} \/ grants.flow # None
    \/ grants.inject # None \/ grants.elicitation # None

GrantsHold(grants) ==
  /\ grants.foreign = {}
  /\ DOMAIN grants.controls \subseteq Controls /\ \A c \in DOMAIN grants.controls : grants.controls[c] # Bad
  /\ DOMAIN grants.modify \subseteq DOMAIN rule.modify
  /\ \A t \in DOMAIN grants.modify : grants.modify[t] \in NonEmptySubsets(rule.modify[t])
  /\ grants.flow # None => rule.flow # {} /\ FlowHolds(grants.flow)
  /\ grants.inject # None => /\ rule.delivery # {} /\ grants.inject.append # Bad
                             /\ ListOf(grants.inject.deliverAt, rule.delivery)
  /\ grants.elicitation # None =>
       /\ DOMAIN grants.elicitation \subseteq rule.elicitation /\ DOMAIN grants.elicitation # {}
       /\ \A m \in DOMAIN grants.elicitation : grants.elicitation[m] # Bad
  /\ Supported(grants)

(* capabilityOwnedHost, on a snapshot that nobody else can write to.       *)
OwnedHost(o) ==
  /\ o.observe # None => rule.observe /\ o.observe # Bad
  /\ o.grants # None => rule.intercept /\ GrantsHold(o.grants)

Distinct(list) == Extend(<<>>, list)

(* hostCapabilitiesToWire                                                  *)
ObjectWire(o) ==
  LET g == o.grants IN
  [modes |-> Modes(g # None, o.observe = TRUE),
   capabilities |->
     IF g = None THEN None
     ELSE [effects |-> SetToSeq(DOMAIN g.controls) \o (IF DOMAIN g.modify # {} THEN <<"modify">> ELSE <<>>)
                         \o (IF g.flow # None THEN <<"flow">> ELSE <<>>)
                         \o (IF g.inject # None THEN <<"inject">> ELSE <<>>),
           modify  |-> [t \in DOMAIN g.modify |-> [op \in {"replace", "merge"} |-> op \in g.modify[t]]],
           flow    |-> IF g.flow = None THEN None ELSE [g.flow EXCEPT !.operations = Distinct(@)],
           inject  |-> IF g.inject = None THEN None ELSE Distinct(g.inject.deliverAt),
           elicitation |-> IF g.elicitation = None THEN {} ELSE DOMAIN g.elicitation]]

-------------------------------------------------------------------------------
Init ==
  /\ event \in DOMAIN Catalogue
  /\ rule = Catalogue[event]
  /\ builder = Fresh
  /\ asked = Unasked
  /\ object = ObjectOf(asked)

(* Each declares one thing more: in Rust by a method of the declaration,   *)
(* elsewhere by one more member of the record.                             *)
Declare(state, record) ==
  /\ builder' = state
  /\ asked' = record
  /\ object' = ObjectOf(record)
  /\ UNCHANGED <<event, rule>>

Observe ==
  /\ rule.observe
  /\ Declare([builder EXCEPT !.observe = TRUE], [asked EXCEPT !.observe = TRUE])

GrantControl ==
  \E control \in Controls :
    Declare([builder EXCEPT !.effects = @ \cup {control}], [asked EXCEPT !.controls = @ \cup {control}])

GrantModify ==
  \E target \in DOMAIN rule.modify : \E operations \in NonEmptySubsets(rule.modify[target]) :
    Declare(AddModify(builder, target, operations), [asked EXCEPT !.modify[target] = @ \cup operations])

(* The arms of the generated Flow enum.                                    *)
StopGrant == {Flow(<<"stop">>, None, None, None) : op \in rule.flow \cap {"stop"}}
ContinueGrants ==
  IF "continue" \notin rule.flow THEN {} ELSE
    {Flow(operations, remaining, count, most) :
       operations \in {<<"continue">>} \cup {<<"stop", "continue">> : op \in rule.flow \cap {"stop"}},
       remaining \in Counts, count \in Counts, most \in Counts \cup {None}}

Combined(flow, grant) ==
  LET old == IF flow = None THEN Flow({}, None, None, None) ELSE flow
  IN  Flow(old.operations \cup Range(grant.operations), Or(grant.remaining, old.remaining),
           Or(grant.count, old.count), Or(grant.most, old.most))

GrantFlow ==
  \E grant \in StopGrant \cup ContinueGrants :
    Declare(AddFlow(builder, grant), [asked EXCEPT !.flow = Combined(@, grant)])

(* Go: with, one timing at a time, each once.                              *)
Inject ==
  \E delivery \in NonEmptySubsets(rule.delivery) :
    Declare(AddInject(builder, SetToSeq(delivery)),
            [asked EXCEPT !.delivery = Extend(@, SetToSeq(delivery))])

Elicit ==
  \E mode \in rule.elicitation :
    Declare([builder EXCEPT !.elicitation = @ \cup {mode}], [asked EXCEPT !.elicitation = @ \cup {mode}])

(* Code without types writes to one part of the object before it is used.  *)
Foreign == "foreign"
SpoiledControls(g) == {Put(g.controls, c, v) : c \in Controls \cup {Foreign}, v \in {TRUE, Bad}}

SpoiledModify(g) ==
  {Put(g.modify, t, ops) : t \in (DOMAIN rule.modify) \cup {Foreign}, ops \in {{}, {"merge"}, {Foreign}}}

Writable(flow) == IF flow = None THEN Flow(<<>>, None, None, None) ELSE flow

SpoiledFlow(g) ==
  {[Writable(g.flow) EXCEPT !.operations = ops] :
     ops \in {<<>>, <<"stop">>, <<"continue", "continue">>, <<Foreign>>}}
  \cup {[Writable(g.flow) EXCEPT ![part] = v] :
          part \in {"remaining", "count", "most"}, v \in Counts \cup {None, Bad}}

SpoiledInject ==
  {[append |-> a, deliverAt |-> list] :
     a \in {TRUE, Bad}, list \in {<<>>, <<"now">>, <<"now", "now">>, <<Foreign>>}}

SpoiledElicitation ==
  {[m \in modes |-> v] : modes \in {{}, {Foreign}} \cup {{m} : m \in rule.elicitation}, v \in {TRUE, Bad}}

SpoiledGrants(g) ==
  {None, NoGrants, [g EXCEPT !.foreign = {Foreign}]}
    \cup {[g EXCEPT !.controls = spoiled] : spoiled \in SpoiledControls(g)}
    \cup {[g EXCEPT !.modify = spoiled] : spoiled \in SpoiledModify(g)}
    \cup {[g EXCEPT !.flow = spoiled] : spoiled \in SpoiledFlow(g)}
    \cup {[g EXCEPT !.inject = spoiled] : spoiled \in SpoiledInject}
    \cup {[g EXCEPT !.elicitation = spoiled] : spoiled \in SpoiledElicitation}

Spoil ==
  /\ object = ObjectOf(asked)
  /\ object' \in {[object EXCEPT !.observe = v] : v \in {None, FALSE, TRUE, Bad}}
                  \cup {[object EXCEPT !.grants = g] :
                          g \in SpoiledGrants(IF object.grants = None THEN NoGrants ELSE object.grants)}
  /\ UNCHANGED <<event, rule, builder, asked>>

Next == Observe \/ GrantControl \/ GrantModify \/ GrantFlow \/ Inject \/ Elicit \/ Spoil
Spec == Init /\ [][Next]_vars

-------------------------------------------------------------------------------
(* capabilities.schema.json with the constraint of the event.              *)
Unique(list, allowed) == list # <<>> /\ IsInjective(list) /\ Range(list) \subseteq allowed

FlowConforms(flow) ==
  /\ Unique(flow.operations, rule.flow)
  /\ {flow.remaining, flow.count, flow.most} \subseteq Counts \cup {None}
  /\ Contains(flow.operations, "continue") => None \notin {flow.remaining, flow.count}

Conforms(caps) ==
  /\ IsInjective(caps.effects) /\ Range(caps.effects) \subseteq rule.effects
  /\ Contains(caps.effects, "modify") <=> DOMAIN caps.modify # {}
  /\ DOMAIN caps.modify \subseteq DOMAIN rule.modify
  /\ \A t \in DOMAIN caps.modify :
       /\ DOMAIN caps.modify[t] = {"replace", "merge"}
       /\ \E op \in DOMAIN caps.modify[t] : caps.modify[t][op]
  /\ Contains(caps.effects, "flow") <=> caps.flow # None
  /\ caps.flow # None => FlowConforms(caps.flow)
  /\ Contains(caps.effects, "inject") <=> caps.inject # None
  /\ caps.inject # None => Unique(caps.inject, rule.delivery)
  /\ caps.elicitation \subseteq rule.elicitation

WireConforms(wire) ==
  /\ wire.modes \in {<<"intercept">>, <<"observe">>, <<"intercept", "observe">>}
  /\ Contains(wire.modes, "observe") => rule.observe
  /\ Contains(wire.modes, "intercept") <=> wire.capabilities # None
  /\ wire.capabilities # None => rule.intercept /\ Conforms(wire.capabilities)

Declared == asked # Unasked

(* Every declaration that a program can build, in each of the four SDKs,   *)
(* is one that the capability schema of its event accepts; an object that  *)
(* others wrote to is rendered only if what they made of it is one, too.   *)
DeclarationsConform ==
  /\ Declared =>
       /\ PythonAccepts(asked)
       /\ \A wire \in {RustWire, GoWire, PythonWire, ObjectWire(ObjectOf(asked))} : WireConforms(wire)
  /\ OwnedHost(ObjectOf(asked))
  /\ OwnedHost(object) =>
       LET wire == ObjectWire(object) IN wire.modes # <<>> => WireConforms(wire)

(* What the order of the keys and lists does not tell.                     *)
SetList(list) == IF list = None THEN None ELSE Range(list)
SetFlow(flow) == IF flow = None THEN None ELSE [flow EXCEPT !.operations = Range(@)]
SetCaps(caps) ==
  [effects |-> Range(caps.effects), modify |-> caps.modify, flow |-> SetFlow(caps.flow),
   inject |-> SetList(caps.inject), elicitation |-> caps.elicitation]

AsSets(wire) ==
  [modes |-> wire.modes,
   capabilities |-> IF wire.capabilities = None THEN None ELSE SetCaps(wire.capabilities)]

(* The same declaration has the same wire form, whether it is built up by  *)
(* method calls in Rust or given as a record in the other three.           *)
LanguagesAgree ==
  \A wire \in {GoWire, PythonWire, ObjectWire(ObjectOf(asked))} : AsSets(wire) = AsSets(RustWire)

(* Nothing is granted that no call of a Rust builder asked for, and        *)
(* no grant of an earlier call is lost, whatever the order of the calls.   *)
GrantsAreExact ==
  /\ builder.observe = asked.observe
  /\ builder.effects \ Detailed = asked.controls
  /\ builder.elicitation = asked.elicitation
  /\ Granted(asked) = DOMAIN builder.modify
  /\ \A t \in DOMAIN builder.modify : asked.modify[t] = {op \in DOMAIN builder.modify[t] : builder.modify[t][op]}
  /\ (builder.flow = None) = (asked.flow = None)
  /\ builder.flow # None => [builder.flow EXCEPT !.operations = Range(@)] = asked.flow
===============================================================================
