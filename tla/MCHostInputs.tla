------------------------------ MODULE MCHostInputs ------------------------------
(***************************************************************************)
(* Five events of schema/draft that differ in where they hold content: in  *)
(* single parts, in messages, in messages of a wrapped member with a       *)
(* narrowed role, and before and after changes, required or optional.      *)
(***************************************************************************)
EXTENDS HostInputs, HostInputPlan, TLC

CONSTANTS p1, p2, m1, s1, s2, a

Const(s)        == [const |-> [str |-> s]]
RefTo(def)      == [ref |-> def]
Type(t)         == [type |-> t]
Array(items)    == [type |-> "array", items |-> items]
Object(req, ps) == [type |-> "object", required |-> req, properties |-> ps]

EventObject(e, req, ps) ==
  Object({"type", "id", "source"} \cup req,
         [type |-> Const(e), id |-> Type("string"), source |-> Type("string"),
          parentEventId |-> Type("string"), native |-> Type("object")] @@ ps)

Call == Object({"id"}, [id |-> Type("string"), synthesized |-> Type("boolean")])
FileFacts == [path |-> Type("string"), before |-> RefTo("ContentItem"), after |-> RefTo("ContentItem")]

MCDefs ==
  [ContentItem |-> [oneOf |-> <<RefTo("TextBodyPart"), RefTo("AttachmentBodyPart")>>],
   TextBodyPart |-> Object({"text"}, [text |-> Type("string")]),
   AttachmentBodyPart |-> Object({"body"}, [body |-> Type("object")]),
   TextPart |-> [oneOf |-> <<RefTo("TextBodyPart")>>],
   CanonicalMessage |-> Object({"id", "role", "parts"},
     [id |-> Type("string"), role |-> Type("string"), parts |-> Array(RefTo("ContentItem")),
      synthesized |-> Type("boolean")]),
   ModelVisibleItem |-> RefTo("CanonicalMessage"),
   Tool |-> Object({"name", "input", "origin"},
     [name |-> Type("string"), input |-> [always |-> TRUE], origin |-> Type("string"), kind |-> Type("string")]),
   FileChange |-> Object({"path"}, FileFacts),
   ToolBefore |-> EventObject("tool.before", {"call", "tool", "path"},
     [call |-> Call, tool |-> RefTo("Tool"), path |-> Type("string"), items |-> Array(RefTo("ContentItem"))]),
   ContextCompactBefore |-> EventObject("context.compact.before", {"items"},
     [items |-> Array(RefTo("ModelVisibleItem")), instructions |-> Array(RefTo("TextPart"))]),
   UserMessageInbound |-> EventObject("user.message.inbound", {"message"},
     [message |-> Object({"channel", "messages"},
        [channel |-> Type("string"),
         messages |-> Array([allOf |-> <<RefTo("CanonicalMessage"),
                                         [properties |-> [role |-> Const("user")]]>>])])]),
   FileChanged |-> EventObject("file.changed", {"changes"}, [changes |-> Array(Object({"path"}, FileFacts))]),
   ToolAfter |-> EventObject("tool.after", {"call", "tool"},
     [call |-> Call, tool |-> RefTo("Tool"), fileChanges |-> Array(RefTo("FileChange"))])]

TypeNames ==
  [e \in {"tool.before", "context.compact.before", "user.message.inbound", "file.changed", "tool.after"} |->
     CASE e = "tool.before" -> "ToolBefore"
       [] e = "context.compact.before" -> "ContextCompactBefore"
       [] e = "user.message.inbound" -> "UserMessageInbound"
       [] e = "file.changed" -> "FileChanged"
       [] OTHER -> "ToolAfter"]
EventFields(e) == CHOOSE fields \in ObjectFields(Shapes[TypeNames[e]]) : TRUE
MCPlan  == [e \in DOMAIN TypeNames |-> EventPlan(e, EventFields(e))]

(* Paths of the forms that slots can have here, over all members that lead *)
(* to one in any event.                                                    *)
Steps == {"items", "instructions", "message", "messages", "parts", "changes", "fileChanges", "before", "after"}
ContentPaths ==
  {<<x>> : x \in Steps} \cup {<<x, "*">> : x \in Steps} \cup {<<x, "*", "parts", "*">> : x \in Steps}
    \cup UNION {{<<x, y, "*">>, <<x, "*", y>>, <<x, y, "*", "parts", "*">>} : x, y \in Steps}

-------------------------------------------------------------------------------
Fact == [is |-> "fact"]
Leaf == <<>> :> Fact
Changes(n) ==   \* an array of changes without their contents
  [p \in {<<>>} \cup {<<Indices[i]>> : i \in 1..n} \cup {<<Indices[i], "path">> : i \in 1..n} |->
     CASE Len(p) = 0 -> List [] Len(p) = 1 -> Record [] OTHER -> Fact]
Inbound == (<<>> :> Record) @@ (<<"channel">> :> Fact) @@ (<<"messages">> :> List)
ToolFacts == (<<"call", "id">> :> Leaf) @@ (<<"name">> :> Leaf) @@ (<<"tool", "kind">> :> Leaf)

MCBases ==
  [e \in DOMAIN TypeNames |->
     CASE e = "tool.before" -> {ToolFacts @@ (<<"native">> :> Leaf)}
       [] e = "context.compact.before" -> {(<<"items">> :> (<<>> :> List)) @@ (<<"instructions">> :> (<<>> :> List))}
       [] e = "user.message.inbound" -> {<<"message">> :> Inbound}
       [] e = "file.changed" -> {<<"changes">> :> Changes(1)}
       [] OTHER -> {ToolFacts, ToolFacts @@ (<<"fileChanges">> :> Changes(0)),
                    ToolFacts @@ (<<"fileChanges">> :> Changes(2))}]

MCIndices == <<"0", "1">>
MCWords == STRING
Filled(path) == [i \in DOMAIN path |-> IF path[i] = "*" THEN "0" ELSE path[i]]
Puts(b) ==
  CASE b.message -> {<<m1>>, <<m1, m1>>, <<Nil>>}
    [] b.many    -> {<<p1>>, <<p2, p1>>, <<p1, p1>>, <<p1, Nil>>}
    [] OTHER     -> {<<p1>>, <<p2>>}
MCPlacements ==
  [e \in DOMAIN TypeNames |->
     UNION {{[at |-> Filled(b.path), many |-> b.many, put |-> put] : put \in Puts(b)} :
              b \in {RustBuilder(s) : s \in MCPlan[e].slots}}]

-------------------------------------------------------------------------------
Part(kind, text, body, media, sel, id, flag) ==
  [is |-> "part", kind |-> kind, text |-> text, body |-> body, media |-> media, sel |-> sel,
   id |-> id, flag |-> flag, stray |-> FALSE]
Message(id, flag, role, parts) == [is |-> "message", id |-> id, flag |-> flag, role |-> role, parts |-> parts]

Identities == {<<None, None>>, <<None, TRUE>>, <<None, FALSE>>, <<a, None>>, <<a, FALSE>>, <<Empty, None>>}
Plain   == Part("text", TRUE, None, None, None, None, None)
Image   == Part("attachment", FALSE, s1, "image", None, None, None)
Another == Part("attachment", FALSE, s2, "image", None, None, None)

PartShapes ==
  {[x EXCEPT !.id = i[1], !.flag = i[2]] : x \in {Plain, Image}, i \in Identities}
    \cup {[Image EXCEPT !.media = m] : m \in {"image;", "json", "json;", "json ;", "text"}}
    \cup {[Image EXCEPT !.sel = s] : s \in {"body", "metadata"}}
    \cup {[x EXCEPT !.stray = TRUE] : x \in {Plain, Image}}
    \cup {Part("text", TRUE, s1, None, None, None, None),
          Part("text", FALSE, None, "plain", "metadata", a, TRUE),
          Part("text", FALSE, None, None, "body", None, None),
          Part("attachment", FALSE, WireRef, "image", "body", a, None),
          Part("attachment", FALSE, WireRef, "image", None, None, None),
          Part("attachment", FALSE, WireRef, "json", "body", a, None),
          Part("attachment", FALSE, None, "image", "metadata", a, FALSE),
          Part("attachment", FALSE, None, "image", "body", a, None)}

PartLists == {<<p1>>, <<p1, p2>>, <<p1, p1>>, <<p2, Nil>>, <<>>, None}

HostOf(first, second, message) == (p1 :> first) @@ (p2 :> second) @@ (m1 :> message)

(* Every part by itself, every message of simple parts, and elsewhere the  *)
(* shapes whose places and identities matter.                              *)
PartHosts(shapes) == {HostOf(x, Another, Message(None, None, "user", <<p1, p2>>)) : x \in shapes}
MessageHosts ==
  {HostOf(Image, Another, Message(i[1], i[2], "user", parts)) : i \in Identities, parts \in PartLists}
  \cup {HostOf(Image, Another, Message(None, None, "bogus", <<p1>>))}
FewShapes == {Image, [Image EXCEPT !.id = a], [Image EXCEPT !.media = "json"]}
MCHosts ==
  [e \in DOMAIN TypeNames |->
     CASE e = "tool.before"          -> PartHosts(PartShapes)
       [] e = "user.message.inbound" -> MessageHosts
       [] OTHER                      -> PartHosts(FewShapes)]

(* PlanExact for the event at hand, which nothing changes.                 *)
PlansExact == placed = <<>> /\ rounds = 0 => PlanExact(event, EventFields(event), ContentPaths)
===============================================================================
