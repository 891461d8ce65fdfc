----------------------------- MODULE MCCapabilities -----------------------------
(***************************************************************************)
(* Four events of schema/draft: an action that can be stopped but not      *)
(* continued, a turn that can be continued, a request for input, and one   *)
(* that is only observed.  Their effects and capability constraints are    *)
(* cut down to the families that are declared differently.                 *)
(***************************************************************************)
EXTENDS HostCapabilities, CapabilityCatalogue, Subscriptions

Str(s)          == [str |-> s]
Const(s)        == [const |-> Str(s)]
Enum(ss)        == [enum |-> {Str(s) : s \in ss}]
RefTo(def)      == [ref |-> def]
Type(t)         == [type |-> t]
Array(items)    == [type |-> "array", items |-> items]
Object(req, ps) == [type |-> "object", required |-> req, properties |-> ps]

MCCounts == {0, 1}
MCPascal ==
  [e \in {"tool.before", "turn.finish.before", "user.elicitation.request", "session.end"} |->
     CASE e = "tool.before"        -> "ToolBefore"
       [] e = "turn.finish.before" -> "TurnFinishBefore"
       [] e = "session.end"        -> "SessionEnd"
       [] OTHER                    -> "UserElicitationRequest"]

Tagged(e) == Object({"type"}, [type |-> Const(e)])
Request(event_) == Object({"params"}, [params |-> Object({"event"}, [event |-> event_])])

(* event.schema.json and the two request schemas                           *)
EventDefs ==
  [ToolBefore             |-> Tagged("tool.before"),
   TurnFinishBefore       |-> Tagged("turn.finish.before"),
   UserElicitationRequest |-> Tagged("user.elicitation.request"),
   SessionEnd             |-> Tagged("session.end"),
   Event |-> [oneOf |-> <<RefTo("ToolBefore"), RefTo("TurnFinishBefore"),
                          RefTo("UserElicitationRequest"), RefTo("SessionEnd")>>],
   AnyRequest |-> Object({"method"}, [method |-> Type("string")]),
   InterceptRequest |-> [allOf |-> <<RefTo("AnyRequest"),
      Request([ref |-> "Event",
               oneOf |-> <<RefTo("ToolBefore"), RefTo("TurnFinishBefore"),
                           RefTo("UserElicitationRequest")>>])>>],
   ObserveNotification |-> [allOf |-> <<RefTo("AnyRequest"), Request(RefTo("Event"))>>]]

(* effect.schema.json                                                      *)
EffectDefs ==
  [DenyEffect     |-> Object({"type"}, [type |-> Const("deny")]),
   MessageEffect  |-> Object({"type"}, [type |-> Const("message")]),
   ReturnEffect   |-> Object({"type"}, [type |-> Const("return")]),
   InputEffect    |-> Object({"type", "target", "operation"},
                        [type |-> Const("modify"), target |-> Const("input"),
                         operation |-> [oneOf |-> <<Const("replace"), Const("merge")>>]]),
   ResponseEffect |-> Object({"type", "target", "operation"},
                        [type |-> Const("modify"), target |-> Const("response"),
                         operation |-> Enum({"replace", "merge"})]),
   InjectEffect   |-> Object({"type", "deliverAt"},
                        [type |-> Const("inject"), deliverAt |-> Enum({"now", "next_turn"})]),
   StopEffect     |-> Object({"type", "operation"}, [type |-> Const("flow"), operation |-> Const("stop")]),
   ContinueEffect |-> Object({"type", "operation"}, [type |-> Const("flow"), operation |-> Const("continue")]),
   ExtensionEffect |-> Object({"type"}, [type |-> Const("x.audit")]),
   ToolBeforeEffect |-> [oneOf |-> <<RefTo("DenyEffect"), RefTo("InputEffect"), RefTo("InjectEffect"),
                                     RefTo("StopEffect"), RefTo("ReturnEffect"), RefTo("ExtensionEffect")>>],
   TurnFinishBeforeEffect |-> [oneOf |-> <<RefTo("ResponseEffect"), RefTo("StopEffect"),
                                           RefTo("ContinueEffect"), RefTo("MessageEffect")>>],
   UserElicitationRequestEffect |-> [oneOf |-> <<RefTo("DenyEffect"), RefTo("ReturnEffect")>>]]

(* capabilities.schema.json                                                *)
Constraint(families) ==
  [allOf |-> <<RefTo("Capabilities"),
               [properties |-> [effects |-> Array(Enum(families))]]>>]

CapabilityDefs ==
  ("Capabilities" :> Object({"effects"},
      [effects |-> Array([anyOf |-> <<Enum({"deny", "return", "modify", "flow", "inject", "message"}),
                                      Type("string")>>]),
       elicitation |-> Object({}, [form |-> Type("object"), url |-> Type("object")])]))
  @@ ("capabilities#tool.before" :> Constraint({"deny", "modify", "inject", "flow", "return"}))
  @@ ("capabilities#turn.finish.before" :> Constraint({"modify", "flow", "message"}))
  @@ ("capabilities#user.elicitation.request" :> Constraint({"deny", "return"}))

(* registration.schema.json                                                *)
SubscriptionDefs ==
  LET For(events) == Object({"events"}, [events |-> Array([anyOf |-> <<Enum(events), Type("string")>>])])
  IN  [InterceptSubscription |-> For({"tool.before", "turn.finish.before", "user.elicitation.request"}),
       ObserveSubscription   |-> For({"tool.before", "turn.finish.before", "user.elicitation.request",
                                      "session.end"})]

MCDefs == EventDefs @@ EffectDefs @@ CapabilityDefs @@ SubscriptionDefs

(* Every effect that the schemas could mean, and some that they exclude.   *)
Families   == {"deny", "return", "message", "x.audit", "allow"}
MCEffects ==
  {[type |-> f] : f \in Families}
    \cup {[type |-> "modify", target |-> t, operation |-> op] :
            t \in {"input", "response", "prompt"}, op \in {"replace", "merge", "drop"}}
    \cup {[type |-> "flow", operation |-> op] : op \in {"stop", "continue", "pause"}}
    \cup {[type |-> "inject", deliverAt |-> d] : d \in {"now", "next_turn", "later"}}

(* Written out, because TLC would derive them anew at every use.           *)
MCSupports == [e \in DOMAIN MCPascal |-> IF e = "session.end" THEN {"observe"} ELSE {"intercept", "observe"}]
MCListed   == [mode \in {"intercept", "observe"} |-> {e \in DOMAIN MCPascal : mode \in MCSupports[e]}]
MCFamily ==
  [e \in DOMAIN MCPascal |->
     CASE e = "tool.before"        -> "tool"
       [] e = "turn.finish.before" -> "turn"
       [] e = "session.end"        -> "session"
       [] OTHER                    -> "user"]
MCTimeouts == {-2, 0, 1, 2, 3}

(* What hosts can declare for an event is exactly what its schemas let an  *)
(* interceptor return, for every event of the catalogue, and the events    *)
(* that a subscription may list are those that its requests can carry.     *)
CatalogueExact ==
  asked = Unasked /\ request = Unset =>
    /\ Complete(rule) /\ EntryExact(event, rule, MCEffects)
    /\ MCSupports = [e \in CatalogueEvents |-> {m \in {"intercept"} : e \in InterceptEvents}
                                                \cup {m \in {"observe"} : e \in ObserveEvents}]
    /\ MCListed = [intercept |-> EventNames("InterceptSubscription"), observe |-> EventNames("ObserveSubscription")]

(* The declarations of a host and the subscriptions of a backend share     *)
(* nothing, so a behaviour is about one of them: subscriptions stand next  *)
(* to the declaration of one event, before it begins.                      *)
Undeclared == event = "session.end" /\ builder = Fresh /\ asked = Unasked /\ object = ObjectOf(Unasked)

MCInit == Init /\ SubscriptionInit

Declaring   == request = Unset /\ Next /\ UNCHANGED subscriptionVars
Subscribing == Undeclared /\ SubscriptionNext /\ UNCHANGED vars

MCNext == Declaring \/ Subscribing

MCSpec == MCInit /\ [][MCNext]_<<vars, subscriptionVars>>
===============================================================================
