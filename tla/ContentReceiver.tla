---------------------------- MODULE ContentReceiver ----------------------------
(***************************************************************************)
(* The reference content receiver of interop/content_upload.py: a          *)
(* ThreadingHTTPServer whose handler threads share contents, receipts,     *)
(* events and trace under one lock.  A request is any POST a client may    *)
(* make; every request runs in a thread of its own.                        *)
(***************************************************************************)
EXTENDS Naturals, Sequences

CONSTANTS
  RequestIds,     \* one per connection the server accepts
  Posts,          \* the POSTs arbitrary clients make
  Tokens,         \* Authorization header values, its absence included
  Scopes,         \* subscription scopes
  Refs,           \* what uuid.uuid4 may yield
  Bodies,         \* octet strings
  Size,           \* len(body)
  Sha256,         \* hexdigest, collision free
  UploadTokens,   \* Receiver.upload_tokens: authorization -> scopes
  EventTokens,    \* Receiver.event_tokens
  MaxBytes,       \* Receiver.max_bytes
  NoBody, NoReceipt, NoRequest, NoOne

Digests  == {Sha256[b] : b \in Bodies}
Receipts == [ref : Refs, size : Nat, sha256 : Digests]
Stores   == Scopes \X Refs

(***************************************************************************)
(* headers is FALSE for forbidden caller identity, missing, repeated or    *)
(* malformed headers and unsupported encodings; payload is FALSE for a     *)
(* Content-Type or a JSON message that the path does not take.             *)
(***************************************************************************)
Requests == [path : {"upload", "event", "other"}, auth : Tokens,
             headers : BOOLEAN, payload : BOOLEAN, size : Nat,
             sha256 : Digests \cup {NoBody}, body : Bodies \cup {NoBody}, refs : Seq(Refs)]

ASSUME DigestAssumption ==
  /\ Size \in [Bodies -> Nat]
  /\ MaxBytes \in Nat
  /\ \A a, b \in Bodies : Sha256[a] = Sha256[b] => a = b
ASSUME TokensAssumption ==
  /\ \A t \in DOMAIN UploadTokens : UploadTokens[t] \subseteq Scopes
  /\ \A t \in DOMAIN EventTokens : EventTokens[t] \subseteq Scopes
ASSUME PostsAssumption == Posts \subseteq Requests
ASSUME MarkersAssumption ==
  /\ NoBody \notin Bodies
  /\ NoOne \notin RequestIds
  /\ \A r \in Refs, b \in Bodies :
       NoReceipt # [ref |-> r, size |-> Size[b], sha256 |-> Sha256[b]]

VARIABLES
  request,    \* what each accepted connection asks
  thread,     \* its handler: program point and the reply it has decided on
  arrived,    \* the bytes rfile.read returned
  response,   \* the reply the client can read
  lock,       \* Receiver.lock: its holder
  contents, receipts, events, trace,
  issued      \* the values uuid4 has yielded: none comes twice

stored == <<contents, receipts, events, trace>>
receiverVars == <<request, thread, arrived, response, lock, stored, issued>>

Points   == {"idle", "reading", "waiting", "locked", "confirm", "unlocking",
             "raising", "answering", "ended"}
Holding  == {"locked", "confirm", "unlocking", "raising"}
Replies  == [status : {0, 201, 204, 400, 401, 403, 404, 413},
             receipt : Receipts \cup {NoReceipt}]
NoReply  == [status |-> 0, receipt |-> NoReceipt]

Status(code) == [status |-> code, receipt |-> NoReceipt]

ReceiverTypeOK ==
  /\ request \in [RequestIds -> Requests \cup {NoRequest}]
  /\ thread \in [RequestIds -> [at : Points, reply : Replies]]
  /\ arrived \in [RequestIds -> Bodies \cup {NoBody}]
  /\ response \in [RequestIds -> Replies]
  /\ lock \in RequestIds \cup {NoOne}
  /\ contents \in [Stores -> Bodies \cup {NoBody}]
  /\ receipts \in [Stores -> Receipts \cup {NoReceipt}]
  /\ events \in Seq([request : RequestIds, scope : Scopes, refs : Seq(Refs)])
  /\ trace \in Seq([kind : {"upload"}, scope : Scopes, ref : Refs]
                     \cup [kind : {"event"}, scope : Scopes, request : RequestIds])
  /\ issued \subseteq Refs

ReceiverInit ==
  /\ request  = [q \in RequestIds |-> NoRequest]
  /\ thread   = [q \in RequestIds |-> [at |-> "idle", reply |-> NoReply]]
  /\ arrived  = [q \in RequestIds |-> NoBody]
  /\ response = [q \in RequestIds |-> NoReply]
  /\ lock = NoOne
  /\ contents = [k \in Stores |-> NoBody]
  /\ receipts = [k \in Stores |-> NoReceipt]
  /\ events = <<>>
  /\ trace = <<>>
  /\ issued = {}

-----------------------------------------------------------------------------
receipt(ref, body) == [ref |-> ref, size |-> Size[body], sha256 |-> Sha256[body]]

Grants(r) == IF r.path = "upload" THEN UploadTokens ELSE EventTokens

OneScope(r) == \E scope \in Scopes : Grants(r)[r.auth] = {scope}
Scope(r)    == CHOOSE scope \in Scopes : Grants(r)[r.auth] = {scope}

(* The checks do_POST makes before it takes the lock, in their order, and  *)
(* the status it replies; 0 when all pass.  `whole`: rfile.read returned   *)
(* as many octets as Content-Length announced.                             *)
EarlyStatus(r, whole) ==
  IF r.path = "other" THEN 404
  ELSE IF r.auth \notin DOMAIN Grants(r) THEN 401
  ELSE IF ~ OneScope(r) THEN 403
  ELSE IF ~ r.headers THEN 400
  ELSE IF r.size > MaxBytes THEN 413
  ELSE IF ~ whole THEN 400
  ELSE 0

Goto(q, point, reply) ==
  thread' = [thread EXCEPT ![q] = [at |-> point, reply |-> reply]]

(* A client connects and posts r.                                          *)
Connect(q, r) ==
  /\ thread[q].at = "idle"
  /\ request' = [request EXCEPT ![q] = r]
  /\ Goto(q, "reading", NoReply)
  /\ UNCHANGED <<arrived, response, lock, stored, issued>>

(* The bytes that arrive are those sent, other bytes of the announced      *)
(* length, or too few.                                                     *)
Arrivals(r) ==
  IF r.body = NoBody THEN {NoBody} ELSE {b \in Bodies : Size[b] = r.size}

Read(q) ==
  /\ thread[q].at = "reading"
  /\ \E whole \in BOOLEAN :
       LET status == EarlyStatus(request[q], whole)
       IN \/ /\ status = 0
             /\ \E body \in Arrivals(request[q]) :
                  arrived' = [arrived EXCEPT ![q] = body]
             /\ Goto(q, "waiting", NoReply)
          \/ /\ status # 0
             /\ Goto(q, "answering", Status(status))
             /\ UNCHANGED arrived
  /\ UNCHANGED <<request, response, lock, stored, issued>>

Acquire(q) ==
  /\ thread[q].at = "waiting"
  /\ lock = NoOne
  /\ lock' = q
  /\ Goto(q, "locked", NoReply)
  /\ UNCHANGED <<request, arrived, response, stored, issued>>

-----------------------------------------------------------------------------
(* Uploads.  Bytes with the announced size and digest are stored under a   *)
(* reference of their own, in the scope of the credential, with the        *)
(* announced metadata.  The 201 is sent before the lock is released.       *)
\* mutant of Intact: the announced digest is not compared
IntactSize(q) ==
  /\ request[q].payload
  /\ arrived[q] # NoBody
  /\ request[q].size = Size[arrived[q]]

Intact(q) ==
  /\ request[q].payload
  /\ arrived[q] # NoBody
  /\ request[q].size = Size[arrived[q]]
  /\ request[q].sha256 = Sha256[arrived[q]]

\* mutant of Store: a reference may be issued twice
StoreReusingRef(q) ==
  /\ thread[q].at = "locked" /\ request[q].path = "upload"
  /\ Intact(q)
  /\ \E ref \in Refs :
       LET key == <<Scope(request[q]), ref>>
           metadata == receipt(ref, arrived[q])
       IN  /\ issued' = issued \cup {ref}
           /\ contents' = [contents EXCEPT ![key] = arrived[q]]
           /\ receipts' = [receipts EXCEPT ![key] = metadata]
           /\ trace' = Append(trace, [kind |-> "upload", scope |-> key[1], ref |-> ref])
           /\ Goto(q, "confirm", [status |-> 201, receipt |-> metadata])
  /\ UNCHANGED <<request, arrived, response, lock, events>>

Store(q) ==
  /\ thread[q].at = "locked" /\ request[q].path = "upload"
  /\ Intact(q)
  /\ \E ref \in Refs :
       LET key == <<Scope(request[q]), ref>>
           metadata == [ref |-> ref, size |-> request[q].size,
                        sha256 |-> request[q].sha256]
       IN  /\ ref \notin issued
           /\ issued' = issued \cup {ref}
           /\ contents' = [contents EXCEPT ![key] = arrived[q]]
           /\ receipts' = [receipts EXCEPT ![key] = metadata]
           /\ trace' = Append(trace, [kind |-> "upload", scope |-> key[1], ref |-> ref])
           /\ Goto(q, "confirm", [status |-> 201, receipt |-> metadata])
  /\ UNCHANGED <<request, arrived, response, lock, events>>

RejectUpload(q) ==
  /\ thread[q].at = "locked" /\ request[q].path = "upload"
  /\ ~ Intact(q)
  /\ lock' = NoOne
  /\ Goto(q, "answering", Status(400))
  /\ UNCHANGED <<request, arrived, response, stored, issued>>

-----------------------------------------------------------------------------
(* Events.  Every body reference must resolve, in the scope of the event's *)
(* credential, to bytes that still match their receipt.                    *)
Missing(key)   == contents[key] = NoBody
Corrupted(key) == ~ Missing(key) /\ receipt(key[2], contents[key]) # receipts[key]

\* mutant of EventKeys: a reference resolves in whichever scope holds it
KeysOfAnyScope(q) ==
  [i \in 1..Len(request[q].refs) |->
     LET ref == request[q].refs[i]
         held == {k \in Stores : k[2] = ref /\ contents[k] # NoBody}
     IN  IF held = {} THEN <<Scope(request[q]), ref>> ELSE CHOOSE k \in held : TRUE]

EventKeys(q) ==
  [i \in 1..Len(request[q].refs) |-> <<Scope(request[q]), request[q].refs[i]>>]

RecordEvent(q) ==
  /\ thread[q].at = "locked" /\ request[q].path = "event"
  /\ request[q].payload
  /\ \A i \in 1..Len(request[q].refs) :
       ~ Missing(EventKeys(q)[i]) /\ ~ Corrupted(EventKeys(q)[i])
  /\ events' = Append(events, [request |-> q, scope |-> Scope(request[q]),
                               refs |-> request[q].refs])
  /\ trace' = Append(trace, [kind |-> "event", scope |-> Scope(request[q]),
                             request |-> q])
  /\ lock' = NoOne
  /\ Goto(q, "answering", Status(204))
  /\ UNCHANGED <<request, arrived, response, contents, receipts, issued>>

(* The first reference that does not resolve decides: 404 while the lock   *)
(* is held when it is missing, 400 after the lock when it is corrupted.    *)
MissingContent(q) ==
  /\ thread[q].at = "locked" /\ request[q].path = "event"
  /\ request[q].payload
  /\ \E i \in 1..Len(request[q].refs) :
       /\ Missing(EventKeys(q)[i])
       /\ \A j \in 1..(i-1) : ~ Missing(EventKeys(q)[j]) /\ ~ Corrupted(EventKeys(q)[j])
  /\ Goto(q, "confirm", Status(404))
  /\ UNCHANGED <<request, arrived, response, lock, stored, issued>>

\* mutant of RejectEvent: an invalid event is acknowledged
AcceptInvalidEvent(q) ==
  /\ thread[q].at = "locked" /\ request[q].path = "event"
  /\ ~ request[q].payload
  /\ lock' = NoOne
  /\ Goto(q, "answering", Status(204))
  /\ UNCHANGED <<request, arrived, response, stored, issued>>

RejectEvent(q) ==
  /\ thread[q].at = "locked" /\ request[q].path = "event"
  /\ \/ ~ request[q].payload
     \/ \E i \in 1..Len(request[q].refs) :
          /\ Corrupted(EventKeys(q)[i])
          /\ \A j \in 1..(i-1) : ~ Missing(EventKeys(q)[j]) /\ ~ Corrupted(EventKeys(q)[j])
  /\ lock' = NoOne
  /\ Goto(q, "answering", Status(400))
  /\ UNCHANGED <<request, arrived, response, stored, issued>>

-----------------------------------------------------------------------------
(* reply writes a head and then a body, and either write may raise: the    *)
(* client reads all of it, a status whose descriptor never comes, or       *)
(* nothing; of two replies on its connection it reads the first.  An error *)
(* raised inside do_POST's try, where every reply but 401 and that of an   *)
(* unknown path is written, leaves the lock's `with` block and makes a     *)
(* reply of 400 the last attempt.                                          *)
Arrives(q, reply) ==
  response' = IF response[q] = NoReply THEN [response EXCEPT ![q] = reply] ELSE response

Sent(q)   == Arrives(q, thread[q].reply)
CutOff(q) == UNCHANGED response \/ Arrives(q, Status(thread[q].reply.status))

ReplyLocked(q) ==
  /\ thread[q].at = "confirm"
  /\ \/ Sent(q) /\ Goto(q, "unlocking", thread[q].reply)
     \/ CutOff(q) /\ Goto(q, "raising", Status(400))
  /\ UNCHANGED <<request, arrived, lock, stored, issued>>

\* mutant of Release: an error while replying leaves the lock taken
ReleaseUnlessRaised(q) ==
  /\ thread[q].at \in {"unlocking", "raising"}
  /\ lock' = IF thread[q].at = "unlocking" THEN NoOne ELSE lock
  /\ Goto(q, IF thread[q].at = "unlocking" THEN "ended" ELSE "answering", thread[q].reply)
  /\ UNCHANGED <<request, arrived, response, stored, issued>>

Release(q) ==
  /\ thread[q].at \in {"unlocking", "raising"}
  /\ lock' = NoOne
  /\ Goto(q, IF thread[q].at = "unlocking" THEN "ended" ELSE "answering", thread[q].reply)
  /\ UNCHANGED <<request, arrived, response, stored, issued>>

Answer(q) ==
  /\ thread[q].at = "answering"
  /\ \/ Sent(q) /\ Goto(q, "ended", thread[q].reply)
     \/ /\ CutOff(q)
        /\ IF thread[q].reply.status \in {400, 401, 404}
           THEN Goto(q, "ended", thread[q].reply)
           ELSE Goto(q, "answering", Status(400))
  /\ UNCHANGED <<request, arrived, lock, stored, issued>>

HandlerStep(q) ==
  \/ Read(q) \/ Acquire(q) \/ Store(q) \/ RejectUpload(q)
  \/ RecordEvent(q) \/ MissingContent(q) \/ RejectEvent(q)
  \/ ReplyLocked(q) \/ Release(q) \/ Answer(q)

ReceiverNext ==
  \E q \in RequestIds : (\E r \in Posts : Connect(q, r)) \/ HandlerStep(q)

(* Each accepted connection is served by a running thread.                 *)
ReceiverSpec ==
  /\ ReceiverInit
  /\ [][ReceiverNext]_receiverVars
  /\ \A q \in RequestIds : WF_receiverVars(HandlerStep(q))

-----------------------------------------------------------------------------
(* A thread is inside the `with` block exactly while it holds the lock.    *)
LockHeld ==
  \A q \in RequestIds : thread[q].at \in Holding <=> lock = q

(* The two dictionaries describe the same bytes, so the integrity check of *)
(* an event can only fail if bytes change after they were confirmed.       *)
StoreIntegrity ==
  \A key \in Stores :
    IF contents[key] = NoBody THEN receipts[key] = NoReceipt
    ELSE receipts[key] = receipt(key[2], contents[key])

(* Every reference of a recorded event was uploaded before it, under the   *)
(* same scope, whatever other threads did in between.                      *)
EventsFollowUploads ==
  \A n \in 1..Len(trace) :
    trace[n].kind = "event" =>
      \A i \in 1..Len(request[trace[n].request].refs) :
        \E m \in 1..(n-1) :
          /\ trace[m].kind = "upload"
          /\ trace[m].scope = trace[n].scope
          /\ trace[m].ref = request[trace[n].request].refs[i]

(* A client reads a status of 201 only when bytes with the digest it       *)
(* announced are stored in its scope, and the receipt, when it comes with  *)
(* the status, is theirs; a status of 204 only after the event is          *)
(* recorded, whatever is written, or raises, after the work.               *)
RepliesAreTrue ==
  \A q \in {p \in RequestIds : request[p] # NoRequest} :
    /\ response[q].status = 201 =>
         \E ref \in Refs :
           LET key == <<Scope(request[q]), ref>>
           IN  /\ contents[key] # NoBody
               /\ request[q].sha256 = Sha256[contents[key]]
               /\ response[q].receipt \in {NoReceipt, receipt(ref, contents[key])}
    /\ response[q].status = 204 =>
         \E n \in 1..Len(events) : events[n].request = q

(* Confirmed bytes and recorded events are never changed or dropped.       *)
NothingLost ==
  [][/\ \A key \in Stores : contents[key] # NoBody => contents'[key] = contents[key]
     /\ Len(events) <= Len(events')
     /\ \A n \in 1..Len(events) : events'[n] = events[n]]_receiverVars

(* Every connection is answered or dropped: no thread waits for the lock   *)
(* for ever, although replies are written while it is held.                *)
EveryRequestEnds ==
  \A q \in RequestIds : thread[q].at = "reading" ~> thread[q].at = "ended"
=============================================================================
