------------------------------ MODULE MCSdkRelay ------------------------------
(***************************************************************************)
(* The unions and compositions of schema/draft, each cut down to the       *)
(* members that tell its arms apart, and small sets of values for them;    *)
(* and, beside these, numbers.                                             *)
(***************************************************************************)
EXTENDS SdkRelay, ExactNumbers

Str(s) == [str |-> s]
Num(n) == [int |-> n]
Obj(f) == [obj |-> f]
Null   == [null |-> TRUE]
Empty  == [obj |-> <<>>]

Const(s)        == [const |-> Str(s)]
Type(t)         == [type |-> t]
RefTo(def)      == [ref |-> def]
Object(req, ps) == [type |-> "object", required |-> req, properties |-> ps]
Closed(schema)  == schema @@ [additionalProperties |-> [always |-> FALSE]]
Needs(key)      == [required |-> {key}]
NotAny(keys)    == [not |-> [anyOf |-> keys]]
NonEmpty        == [type |-> "string", pattern |-> {"x", "y"}]

(* common.schema.json, json-rpc-message.schema.json, schema.json           *)
RpcDefs ==
  [JsonRpcId         |-> [anyOf |-> <<NonEmpty, Type("integer")>>],
   JsonRpcResponseId |-> [anyOf |-> <<RefTo("JsonRpcId"), Type("null")>>],
   Request           |-> Object({"id", "method"}, [id |-> RefTo("JsonRpcId"), method |-> NonEmpty]),
   Notification      |-> Object({"method"}, [method |-> NonEmpty]) @@ [not |-> Needs("id")],
   SuccessResponse   |-> Object({"id", "result"},
                           [id |-> RefTo("JsonRpcResponseId"), result |-> Type("object")])
                           @@ [not |-> Needs("error")],
   ErrorResponse     |-> Object({"id", "error"},
                           [id |-> RefTo("JsonRpcResponseId"),
                            error |-> Object({"code"}, [code |-> Type("integer")])])
                           @@ [not |-> Needs("result")],
   JsonRpcMessage    |-> [oneOf |-> <<RefTo("Request"), RefTo("Notification"),
                                      RefTo("SuccessResponse"), RefTo("ErrorResponse")>>],
   InterceptResponse |-> [allOf |-> <<RefTo("SuccessResponse"),
                           [required |-> {"result"}, properties |->
                             [result |-> Object({}, [effects |-> [type |-> "array", items |-> RefTo("Effect")]])
                                @@ NotAny(<<Needs("manifest"), Needs("configuration")>>)]]>>],
   CapabilitiesResponse |-> [allOf |-> <<RefTo("SuccessResponse"),
                           Object({"result"}, [result |-> Object({"manifest"}, [manifest |-> Type("object")])
                             @@ NotAny(<<Needs("effects"), Needs("configuration")>>)])>>],
   WireMessage       |-> [oneOf |-> <<RefTo("InterceptResponse"), RefTo("ErrorResponse"),
                                      RefTo("CapabilitiesResponse")>>]]

(* effect.schema.json, intercept-response.schema.json                      *)
EffectDefs ==
  [DenyEffect    |-> Closed(Object({"type", "reason"}, [type |-> Const("deny"), reason |-> NonEmpty])),
   StopEffect    |-> Closed(Object({"type", "operation", "reason"},
                       [type |-> Const("flow"), operation |-> Const("stop"), reason |-> NonEmpty])),
   ContinueEffect |-> Closed(Object({"type", "operation"},
                       [type |-> Const("flow"), operation |-> Const("continue"), reason |-> NonEmpty])),
   InjectEffect  |-> Closed(Object({"type", "at"},
                       [type |-> Const("inject"), at |-> [enum |-> {Str("now"), Str("next")}]])),
   Effect        |-> [oneOf |-> <<RefTo("DenyEffect"), RefTo("StopEffect"), RefTo("ContinueEffect"),
                                  RefTo("InjectEffect")>>],
   TurnStartEffect |-> [oneOf |-> <<RefTo("DenyEffect"), RefTo("InjectEffect"), RefTo("StopEffect")>>]]

(* event.schema.json, and params.event of intercept-request.schema.json    *)
EventDefs ==
  [SessionStart |-> Object({"type", "id"}, [type |-> Const("start"), id |-> NonEmpty]),
   ToolAfter    |-> Object({"type", "id", "outcome"},
                      [type |-> Const("after"), id |-> NonEmpty,
                       outcome |-> [enum |-> {Str("ok"), Str("error")}],
                       error |-> Type("object")])
                      @@ [allOf |-> <<[if   |-> [properties |-> [outcome |-> Const("error")]],
                                       then |-> Needs("error")]>>],
   SessionEnd   |-> Object({"type", "id"},
                      [type |-> Const("end"), id |-> NonEmpty, counters |-> RefTo("Counters")]),
   Counters     |-> [type |-> "object",
                     additionalProperties |-> [type |-> "integer", minimum |-> 0]],
   Event        |-> [oneOf |-> <<RefTo("SessionStart"), RefTo("ToolAfter"), RefTo("SessionEnd")>>],
   InterceptEvent |-> [ref |-> "Event", oneOf |-> <<RefTo("ToolAfter"), RefTo("SessionStart")>>]]

(* content-item.schema.json                                                *)
ContentDefs ==
  [TextBody |-> Closed(Object({"selection", "text"}, [selection |-> Const("body"), text |-> Type("string")]))
                  @@ [allOf |-> <<[not |-> Needs("size")], [not |-> Needs("sha256")]>>],
   TextGap  |-> Closed(Object({"selection", "gap"},
                  [selection |-> Const("body"), gap |-> Closed(Object({"reason"}, [reason |-> NonEmpty])),
                   size |-> [type |-> "integer", minimum |-> 0]])),
   TextOmitted |-> Closed(Object({"selection"},
                  [selection |-> Const("omit"), size |-> [type |-> "integer", minimum |-> 0]])),
   TextPart |-> [oneOf |-> <<RefTo("TextBody"), RefTo("TextGap"), RefTo("TextOmitted")>>]]

(* execution-event.schema.json: connection and execution; registration,    *)
(* capabilities and mcp-elicitation                                        *)
OtherDefs ==
  LET UrlOrGap == [anyOf |-> <<Needs("url"), Needs("gaps")>>]
      AddressOrGap == [anyOf |-> <<Needs("address"), Needs("gaps")>>]
      gaps == [type |-> "array", items |-> Closed(Object({"path"}, [path |-> NonEmpty]))]
  IN
  [Connection |-> [tag |-> "transport", oneOf |-> <<
                    Closed(Object({"transport"}, [transport |-> Const("http"), url |-> NonEmpty, gaps |-> gaps]))
                      @@ [allOf |-> <<UrlOrGap>>],
                    Closed(Object({"transport"},
                      [transport |-> [type |-> "string", pattern |-> {"_x"}], address |-> NonEmpty, gaps |-> gaps]))
                      @@ [allOf |-> <<AddressOrGap>>]>>],
   Execution  |-> [oneOf |-> <<
                    Closed(Object({"status"}, [status |-> Const("executed")])),
                    Closed(Object({"status", "reason"}, [status |-> Const("skipped"), reason |-> Const("supplied")])),
                    Closed(Object({"status", "reason"},
                      [status |-> Const("skipped"), reason |-> Const("policy"), detail |-> NonEmpty]))>>],
   Authentication |-> [anyOf |-> <<
                    Object({"type"}, [type |-> Const("bearer"), tokenEnv |-> NonEmpty, tokenRef |-> NonEmpty])
                      @@ [oneOf |-> <<Needs("tokenEnv") @@ [not |-> Needs("tokenRef")],
                                      Needs("tokenRef") @@ [not |-> Needs("tokenEnv")]>>],
                    Object({"type", "flow"}, [type |-> Const("oauth"), flow |-> [enum |-> {Str("pkce")}]])>>],
   HeaderSource |-> [type |-> "object", properties |-> [valueEnv |-> NonEmpty, valueRef |-> NonEmpty],
                     oneOf |-> <<Needs("valueEnv"), Needs("valueRef")>>],
   EffectNamesList |-> [type |-> "array", items |-> [anyOf |-> <<
                    [enum |-> {Str("deny")}], [type |-> "string", pattern |-> {"_x"}]>>]],
   ProgressToken |-> [types |-> <<"string", "number">>]]

MCDefs == RpcDefs @@ EffectDefs @@ EventDefs @@ ContentDefs @@ OtherDefs
MCEffectNames == {"DenyEffect", "StopEffect", "ContinueEffect", "InjectEffect"}

-------------------------------------------------------------------------------
(* The objects whose member k is absent or one of choices[k].              *)
Objects(choices) ==
  LET Extend(partial, k) == partial \cup {(k :> v) @@ f : v \in choices[k], f \in partial}
  IN  {Obj(f) : f \in FoldSet(LAMBDA k, partial : Extend(partial, k), {<<>>}, DOMAIN choices)}

Strings(set) == {Str(s) : s \in set}
Wrong == Num(-1)

Effects == Objects([type |-> Strings({"deny", "flow", "inject", "new"}), operation |-> Strings({"stop", "go"}),
                    reason |-> {Str("x"), Wrong}, at |-> Strings({"now", "later"})])
Results == Objects([effects |-> {[arr |-> <<>>], [arr |-> <<Obj([type |-> Str("deny"), reason |-> Str("x")])>>],
                                 [arr |-> <<Obj([type |-> Str("new")])>>]},
                    manifest |-> {Empty}, configuration |-> {Empty}])

MCInputs ==
  [JsonRpcMessage |-> Objects([id |-> {Str("x"), Num(1), Null}, method |-> {Str("x"), Wrong},
                               result |-> {Empty, Wrong}, error |-> {Empty, Obj([code |-> Num(1)])}]),
   WireMessage    |-> Objects([id |-> {Num(1)}, result |-> Results, error |-> {Obj([code |-> Num(1)])}]),
   Effect          |-> Effects,
   TurnStartEffect |-> Effects,
   InterceptEvent  |-> Objects([type |-> Strings({"start", "after", "end", "new", ""}) \cup {Wrong},
                                id |-> {Str("x")}, outcome |-> Strings({"ok", "error", "late"}),
                                error |-> {Empty}, counters |-> {Empty, Obj([n |-> Num(1)]), Obj([n |-> Wrong])}]),
   TextPart       |-> Objects([selection |-> Strings({"body", "omit"}), text |-> {Str("x")}, size |-> {Num(1), Wrong},
                               gap |-> {Empty, Obj([reason |-> Str("x")])}, sha256 |-> {Str("x")}]),
   Connection     |-> Objects([transport |-> Strings({"http", "_x", ""}), url |-> {Str("x"), Wrong},
                               address |-> {Str("x"), Wrong},
                               gaps |-> {[arr |-> <<Obj([path |-> Str("x")])>>], [arr |-> <<Wrong>>]}]),
   Execution      |-> Objects([status |-> Strings({"executed", "skipped"}), detail |-> {Str("x"), Wrong},
                               reason |-> Strings({"supplied", "policy", "new"})]),
   Authentication |-> Objects([type |-> Strings({"bearer", "oauth", "new"}), tokenEnv |-> {Str("x")},
                               tokenRef |-> {Str("x"), Wrong}, flow |-> Strings({"pkce", "new"})]) \cup {Null},
   HeaderSource   |-> Objects([valueEnv |-> {Str("x"), Wrong}, valueRef |-> {Str("x")}]) \cup {Wrong},
   EffectNamesList |-> {[arr |-> <<a, b>>] : a, b \in {Str("deny"), Str("_x"), Str("new"), Null}},
   ProgressToken  |-> {Str("x"), Num(1), Null, Empty}]

(* The values the documentation of x-sdk-discriminator is about.           *)
ConnectionInputs == [Connection |-> MCInputs.Connection]

(* A union whose alternatives no tag tells apart.                          *)
MessageInputs == [WireMessage |-> MCInputs.WireMessage]

-------------------------------------------------------------------------------
(* Numbers of up to four digits in base 3, which is odd, so that no number *)
(* is halfway between two doubles; exponents up to those beyond any limit. *)
Token(negative, whole, fraction, exponent) ==
  [negative |-> negative, whole |-> whole, fraction |-> fraction, exponent |-> exponent]

MCTokens ==
  LET digits == 0..2
  IN  {Token(negative, whole, fraction, exponent) :
         negative \in BOOLEAN,
         whole    \in {<<d>> : d \in digits} \cup ((digits \ {0}) \X digits),
         fraction \in {<<>>} \cup {<<d>> : d \in digits} \cup (digits \X digits),
         exponent \in {-6, -2, -1, 0, 1, 2, 5, 6}}

(* -2, 0, 10 and 101, the last no safe integer.                            *)
MCBounds == {Token(TRUE, <<2>>, <<>>, 0), Token(FALSE, <<0>>, <<>>, 0),
             Token(FALSE, <<1>>, <<>>, 1), Token(FALSE, <<1, 0, 1>>, <<>>, 0)}

NoTokens == {}

(* A value is parsed or a number, which has nothing to do with values.     *)
Nothing == [nothing |-> TRUE]
MCInit ==
  /\ Init
  /\ parsed \in {Nothing} \cup Tokens
  /\ parsed # Nothing => name = "ProgressToken" /\ value = Num(1)
MCNext == Next /\ parsed = Nothing /\ UNCHANGED parsed
MCSpec == MCInit /\ [][MCNext]_<<vars, parsed>>
===============================================================================
