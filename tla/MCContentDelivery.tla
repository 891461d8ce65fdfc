--------------------------- MODULE MCContentDelivery ---------------------------
(* A bounded instance of ContentDelivery for TLC: one delivery of up to    *)
(* two attachments next to another client.                                 *)
EXTENDS ContentDelivery, TLC

CONSTANTS b1, b2, big, s1, s2, q0, r1

MCSize   == (b1 :> 1) @@ (b2 :> 1) @@ (big :> 9)
MCSha256 == (b1 :> "h1") @@ (b2 :> "h2") @@ (big :> "h9")

MCUploadTokens == [one |-> {s1}, two |-> {s2}, both |-> {s1, s2}]
MCEventTokens  == [one |-> {s1}, two |-> {s2}]

MCRequestIds == PostIds \cup {q0}

Config(items, upload, event) ==
  [items |-> items, uploadAuth |-> upload, eventAuth |-> event,
   maxBytes |-> 4, foreign |-> FALSE]

(* Good calls, a call whose two credentials differ in scope, one whose     *)
(* bytes are over the local bound, and one with a foreign upload endpoint. *)
Single(body) ==
  {Config(<<body>>, "one", "one"), Config(<<body>>, "two", "one"),
   [Config(<<body>>, "one", "one") EXCEPT !.foreign = TRUE]}

PairConfigs ==
  Single(b1) \cup {Config(<<b1, b2>>, "one", "one"), Config(<<b1, big>>, "one", "one")}

UploadPost(auth, body) ==
  [path |-> "upload", auth |-> auth, headers |-> TRUE, payload |-> TRUE,
   size |-> MCSize[body], sha256 |-> MCSha256[body], body |-> body, refs |-> <<>>]

EventPost(auth, ref) ==
  [path |-> "event", auth |-> auth, headers |-> TRUE, payload |-> TRUE,
   size |-> 1, sha256 |-> NoBody, body |-> NoBody, refs |-> <<ref>>]

BadPosts ==
  {UploadPost("both", b1), UploadPost("one", big), UploadPost("none", b1),
   [UploadPost("one", b1) EXCEPT !.headers = FALSE],
   [UploadPost("one", b1) EXCEPT !.payload = FALSE],
   [UploadPost("one", b1) EXCEPT !.path = "other"],
   [EventPost("one", r1) EXCEPT !.payload = FALSE]}

StrangerPosts ==
  {UploadPost("one", b2), EventPost("one", r1), EventPost("two", r1)} \cup BadPosts
=============================================================================
