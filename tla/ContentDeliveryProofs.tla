-------------------------- MODULE ContentDeliveryProofs --------------------------
(***************************************************************************)
(* Proofs about ContentReceiver and ContentDelivery for every number of    *)
(* connections, every credential map, every set of posts and any number of *)
(* deliveries, attachments, strangers and scopes.                          *)
(*                                                                         *)
(* The first part is about the receiver alone.  Its inductive invariant is *)
(* ReceiverInv: besides the types it says who holds the lock, that stored  *)
(* bytes carry an issued reference and their own receipt, that the trace   *)
(* lists every upload, and that a recorded event belongs to a connection   *)
(* whose handler is past the lock.                                         *)
(*                                                                         *)
(* The second part composes it with the senders.  The inductive invariant  *)
(* adds to ReceiverInv that every receipt in flight and every reference a  *)
(* sender holds names bytes no one else can attach to it, and that an      *)
(* event's connection is opened with the complete list of references.      *)
(***************************************************************************)
EXTENDS ContentDelivery, TLAPS

Past == {"answering", "ended"}

(* What the checks before the lock have established.                       *)
Admitted ==
  \A q \in RequestIds :
    /\ thread[q].at # "idle" => request[q] \in Requests
    /\ thread[q].at \in {"waiting", "locked"} =>
         request[q].path \in {"upload", "event"} /\ OneScope(request[q])

KeysIssued == \A key \in Stores : contents[key] # NoBody => key[2] \in issued

UploadsTraced ==
  \A key \in Stores : contents[key] # NoBody =>
    \E m \in 1..Len(trace) :
      trace[m].kind = "upload" /\ trace[m].scope = key[1] /\ trace[m].ref = key[2]

(* An event is recorded once, by a handler that is past the lock, with the *)
(* references its connection asked for, all of them stored.                *)
EventRecords ==
  \A n \in 1..Len(events) :
    /\ events[n].request \in RequestIds
    /\ events[n].scope \in Scopes
    /\ thread[events[n].request].at \in Past
    /\ events[n].refs = request[events[n].request].refs
    /\ events[n].refs \in Seq(Refs)
    /\ \A i \in 1..Len(events[n].refs) :
         contents[<<events[n].scope, events[n].refs[i]>>] # NoBody
    /\ \A m \in 1..Len(events) : events[m].request = events[n].request => m = n

EventsTraced ==
  \A n \in 1..Len(trace) : trace[n].kind = "event" =>
    /\ trace[n].request \in RequestIds
    /\ thread[trace[n].request].at \in Past

ReceiverInv ==
  /\ ReceiverTypeOK
  /\ LockHeld
  /\ Admitted
  /\ StoreIntegrity
  /\ KeysIssued
  /\ UploadsTraced
  /\ EventRecords
  /\ EventsTraced
  /\ EventsFollowUploads

-----------------------------------------------------------------------------
(* The checks before the lock decide one of the listed statuses, and pass  *)
(* only a known path whose credential grants exactly one scope.            *)
LEMMA StatusFacts ==
  ASSUME NEW r \in Requests, NEW whole \in BOOLEAN
  PROVE  /\ EarlyStatus(r, whole) \in {0, 400, 401, 403, 404, 413}
         /\ EarlyStatus(r, whole) = 0 =>
              r.path \in {"upload", "event"} /\ OneScope(r)
BY DEF EarlyStatus, Requests

(* A credential that grants one scope grants a scope of the receiver.      *)
LEMMA ScopeFacts ==
  ASSUME NEW r, r.path \in {"upload", "event"}, OneScope(r)
  PROVE  Scope(r) \in Scopes
BY DEF OneScope, Scope

(* Receipts are typed, are no marker, and identify reference and bytes.    *)
LEMMA ReceiptFacts ==
  ASSUME NEW ref \in Refs, NEW body \in Bodies
  PROVE  /\ receipt(ref, body) \in Receipts
         /\ receipt(ref, body) # NoReceipt
         /\ receipt(ref, body).ref = ref
         /\ \A other \in Bodies, r \in Refs :
              receipt(r, other) = receipt(ref, body) => r = ref /\ other = body
<1>1. /\ Size[body] \in Nat
      /\ Sha256[body] \in Digests
  BY DigestAssumption DEF Digests
<1>2. receipt(ref, body) \in Receipts
  BY <1>1 DEF receipt, Receipts
<1>3. receipt(ref, body) # NoReceipt
  BY MarkersAssumption DEF receipt
<1>4. ASSUME NEW other \in Bodies, NEW r \in Refs, receipt(r, other) = receipt(ref, body)
      PROVE  r = ref /\ other = body
  BY <1>4, DigestAssumption DEF receipt
<1> QED BY <1>2, <1>3, <1>4 DEF receipt

(* The three shapes a thread's state may take in a step.                   *)
LEMMA GotoFacts ==
  ASSUME ReceiverTypeOK, NEW q \in RequestIds, NEW point \in Points, NEW reply \in Replies,
         Goto(q, point, reply)
  PROVE  /\ thread' \in [RequestIds -> [at : Points, reply : Replies]]
         /\ thread'[q].at = point /\ thread'[q].reply = reply
         /\ \A p \in RequestIds : p # q => thread'[p] = thread[p]
BY DEF ReceiverTypeOK, Goto

LEMMA ReplyFacts ==
  /\ NoReply \in Replies
  /\ \A code \in {400, 401, 403, 404, 413, 204} : Status(code) \in Replies
  /\ \A metadata \in Receipts : [status |-> 201, receipt |-> metadata] \in Replies
  /\ \A reply \in Replies : Status(reply.status) \in Replies
BY DEF NoReply, Status, Replies

-----------------------------------------------------------------------------
LEMMA ReceiverStart == ReceiverInit => ReceiverInv
<1>1. SUFFICES ASSUME ReceiverInit PROVE ReceiverInv
  OBVIOUS
<1>2. ReceiverTypeOK
  BY <1>1, ReplyFacts DEF ReceiverInit, ReceiverTypeOK, Points
<1>3. LockHeld
  BY <1>1, MarkersAssumption DEF ReceiverInit, LockHeld, Holding
<1>4. Admitted /\ StoreIntegrity /\ KeysIssued /\ UploadsTraced
  BY <1>1 DEF ReceiverInit, Admitted, StoreIntegrity, KeysIssued, UploadsTraced
<1>5. EventRecords /\ EventsTraced /\ EventsFollowUploads
  BY <1>1 DEF ReceiverInit, EventRecords, EventsTraced, EventsFollowUploads
<1> QED BY <1>2, <1>3, <1>4, <1>5 DEF ReceiverInv

(* A step of one thread that leaves the store, the events and the trace    *)
(* alone keeps what the invariant says of them.                            *)
LEMMA QuietStep ==
  ASSUME ReceiverInv, NEW q \in RequestIds, NEW point \in Points, NEW reply \in Replies,
         Goto(q, point, reply), UNCHANGED <<stored, issued>>,
         thread[q].at \in Past => point \in Past,
         \A p \in RequestIds : p # q \/ thread[q].at # "idle" => request'[p] = request[p],
         ReceiverTypeOK', LockHeld', Admitted'
  PROVE  ReceiverInv'
<1>1. \A p \in RequestIds : thread[p].at \in Past =>
        thread'[p].at \in Past /\ request'[p] = request[p]
  BY GotoFacts DEF ReceiverInv, Past
<1>2. StoreIntegrity' /\ KeysIssued' /\ UploadsTraced'
  BY DEF ReceiverInv, StoreIntegrity, KeysIssued, UploadsTraced, stored
<1>3. EventRecords'
  BY <1>1 DEF ReceiverInv, EventRecords, stored
<1>4. EventsTraced'
  BY <1>1 DEF ReceiverInv, EventsTraced, stored
<1>5. EventsFollowUploads'
  <2>1. trace' = trace
    BY DEF stored
  <2>2. \A n \in 1..Len(trace) : trace[n].kind = "event" =>
          request'[trace[n].request] = request[trace[n].request]
    BY <1>1 DEF ReceiverInv, EventsTraced
  <2>3. SUFFICES ASSUME NEW n \in 1..Len(trace'), trace'[n].kind = "event",
                        NEW i \in 1..Len(request'[trace'[n].request].refs)
                 PROVE  \E m \in 1..(n-1) :
                          /\ trace'[m].kind = "upload"
                          /\ trace'[m].scope = trace'[n].scope
                          /\ trace'[m].ref = request'[trace'[n].request].refs[i]
    BY DEF EventsFollowUploads
  <2>4. EventsFollowUploads
    BY DEF ReceiverInv
  <2>5. request'[trace[n].request] = request[trace[n].request]
    BY <2>1, <2>2, <2>3
  <2>6. /\ n \in 1..Len(trace) /\ trace[n].kind = "event"
        /\ i \in 1..Len(request[trace[n].request].refs)
    BY <2>1, <2>3, <2>5
  <2>7. \E m \in 1..(n-1) : /\ trace[m].kind = "upload"
                            /\ trace[m].scope = trace[n].scope
                            /\ trace[m].ref = request[trace[n].request].refs[i]
    BY <2>4, <2>6 DEF EventsFollowUploads
  <2> QED BY <2>1, <2>5, <2>7
<1> QED BY <1>2, <1>3, <1>4, <1>5 DEF ReceiverInv

LEMMA ConnectStep ==
  ASSUME ReceiverInv, NEW q \in RequestIds, NEW r \in Requests, Connect(q, r)
  PROVE  ReceiverInv'
<1>1. Goto(q, "reading", NoReply) /\ "reading" \in Points /\ NoReply \in Replies
  BY ReplyFacts DEF Connect, Points
<1>2. ReceiverTypeOK'
  BY <1>1, GotoFacts DEF ReceiverInv, ReceiverTypeOK, Connect, stored
<1>3. LockHeld'
  BY <1>1, GotoFacts DEF ReceiverInv, LockHeld, Connect, Holding
<1>4. request'[q] = r /\ \A p \in RequestIds : p # q => request'[p] = request[p]
  BY DEF ReceiverInv, ReceiverTypeOK, Connect
<1>5. Admitted'
  <2>1. ASSUME NEW p \in RequestIds, p # q
        PROVE  thread'[p] = thread[p] /\ request'[p] = request[p]
    BY <1>1, <1>4, <2>1, GotoFacts DEF ReceiverInv
  <2>2. thread'[q].at = "reading"
    BY <1>1, GotoFacts DEF ReceiverInv
  <2> QED BY <1>4, <2>1, <2>2 DEF ReceiverInv, Admitted
<1>6. thread[q].at = "idle" /\ UNCHANGED <<stored, issued>>
  BY DEF Connect
<1> QED BY <1>1, <1>2, <1>3, <1>4, <1>5, <1>6, QuietStep DEF Past

LEMMA ReadStep ==
  ASSUME ReceiverInv, NEW q \in RequestIds, Read(q)
  PROVE  ReceiverInv'
<1>1. request[q] \in Requests
  BY DEF ReceiverInv, Admitted, Read
<1>2. PICK whole \in BOOLEAN :
        \/ /\ EarlyStatus(request[q], whole) = 0
           /\ \E body \in Arrivals(request[q]) :
                arrived' = [arrived EXCEPT ![q] = body]
           /\ Goto(q, "waiting", NoReply)
        \/ /\ EarlyStatus(request[q], whole) # 0
           /\ Goto(q, "answering", Status(EarlyStatus(request[q], whole)))
           /\ UNCHANGED arrived
  BY DEF Read
<1>3. PICK point \in {"waiting", "answering"}, reply \in Replies :
        /\ Goto(q, point, reply)
        /\ point = "waiting" => EarlyStatus(request[q], whole) = 0
  BY <1>1, <1>2, StatusFacts, ReplyFacts
<1>4. arrived' \in [RequestIds -> Bodies \cup {NoBody}]
  BY <1>2 DEF ReceiverInv, ReceiverTypeOK, Arrivals
<1>5. point \in Points
  BY DEF Points
<1>6. thread[q].at = "reading" /\ UNCHANGED <<request, response, lock, stored, issued>>
  BY DEF Read
<1>7. ReceiverTypeOK'
  BY <1>3, <1>4, <1>5, <1>6, GotoFacts DEF ReceiverInv, ReceiverTypeOK, stored
<1>8. LockHeld'
  BY <1>3, <1>5, <1>6, GotoFacts DEF ReceiverInv, LockHeld, Holding
<1>9. Admitted'
  <2>1. \A p \in RequestIds : request'[p] = request[p]
    BY <1>6
  <2>2. point = "waiting" =>
          request[q].path \in {"upload", "event"} /\ OneScope(request[q])
    BY <1>1, <1>3, StatusFacts
  <2>3. thread'[q].at = point
    BY <1>3, <1>5, GotoFacts DEF ReceiverInv
  <2>4. \A p \in RequestIds : p # q => thread'[p] = thread[p]
    BY <1>3, <1>5, GotoFacts DEF ReceiverInv
  <2> QED BY <1>1, <2>1, <2>2, <2>3, <2>4 DEF ReceiverInv, Admitted
<1> QED BY <1>3, <1>5, <1>6, <1>7, <1>8, <1>9, QuietStep DEF Past

LEMMA AcquireStep ==
  ASSUME ReceiverInv, NEW q \in RequestIds, Acquire(q)
  PROVE  ReceiverInv'
<1>1. Goto(q, "locked", NoReply) /\ "locked" \in Points /\ NoReply \in Replies
  BY ReplyFacts DEF Acquire, Points
<1>2. /\ thread[q].at = "waiting" /\ lock = NoOne /\ lock' = q
      /\ UNCHANGED <<request, arrived, response, stored, issued>>
  BY DEF Acquire
<1>3. ReceiverTypeOK'
  BY <1>1, <1>2, GotoFacts DEF ReceiverInv, ReceiverTypeOK, stored
<1>4. LockHeld'
  BY <1>1, <1>2, GotoFacts, MarkersAssumption DEF ReceiverInv, LockHeld, Holding
<1>5. Admitted'
  <2>1. /\ thread'[q].at = "locked"
        /\ \A p \in RequestIds : p # q => thread'[p] = thread[p]
    BY <1>1, GotoFacts DEF ReceiverInv
  <2>2. \A p \in RequestIds : request'[p] = request[p]
    BY <1>2
  <2> QED BY <1>2, <2>1, <2>2 DEF ReceiverInv, Admitted
<1> QED BY <1>1, <1>2, <1>3, <1>4, <1>5, QuietStep DEF Past

(* Refusals under the lock: the lock is released or the reply is written   *)
(* while it is held; nothing is stored.                                    *)
LEMMA RefusalStep ==
  ASSUME ReceiverInv, NEW q \in RequestIds,
         RejectUpload(q) \/ MissingContent(q) \/ RejectEvent(q)
  PROVE  ReceiverInv'
<1>1. PICK point \in {"answering", "confirm"}, reply \in Replies :
        /\ Goto(q, point, reply)
        /\ IF point = "answering" THEN lock' = NoOne ELSE UNCHANGED lock
  BY ReplyFacts DEF RejectUpload, MissingContent, RejectEvent
<1>2. /\ point \in Points /\ thread[q].at = "locked"
      /\ UNCHANGED <<request, arrived, response, stored, issued>>
  BY DEF RejectUpload, MissingContent, RejectEvent, Points
<1>3. ReceiverTypeOK'
  BY <1>1, <1>2, GotoFacts DEF ReceiverInv, ReceiverTypeOK, stored
<1>4. LockHeld'
  BY <1>1, <1>2, GotoFacts, MarkersAssumption DEF ReceiverInv, LockHeld, Holding
<1>5. Admitted'
  <2>1. /\ thread'[q].at = point
        /\ \A p \in RequestIds : p # q => thread'[p] = thread[p]
    BY <1>1, <1>2, GotoFacts DEF ReceiverInv
  <2>2. \A p \in RequestIds : request'[p] = request[p]
    BY <1>2
  <2> QED BY <1>2, <2>1, <2>2 DEF ReceiverInv, Admitted
<1> QED BY <1>1, <1>2, <1>3, <1>4, <1>5, QuietStep DEF Past

(* Writing a reply and leaving the `with` block.                           *)
LEMMA ReplyStep ==
  ASSUME ReceiverInv, NEW q \in RequestIds,
         ReplyLocked(q) \/ Release(q) \/ Answer(q)
  PROVE  ReceiverInv'
<1>1. /\ thread[q].reply \in Replies
      /\ thread[q].at \in {"confirm", "unlocking", "raising", "answering"}
      /\ UNCHANGED <<request, arrived, stored, issued>>
      /\ response' \in [RequestIds -> Replies]
  <2>1. thread[q].reply \in Replies /\ response \in [RequestIds -> Replies]
    BY DEF ReceiverInv, ReceiverTypeOK
  <2>2. Status(thread[q].reply.status) \in Replies
    BY <2>1, ReplyFacts
  <2>3. \A reply \in Replies : Arrives(q, reply) => response' \in [RequestIds -> Replies]
    BY <2>1 DEF Arrives
  <2>4. response' \in [RequestIds -> Replies]
    BY <2>1, <2>2, <2>3 DEF ReplyLocked, Release, Answer, Sent, CutOff
  <2> QED BY <2>1, <2>4 DEF ReplyLocked, Release, Answer
<1>2. PICK point \in {"unlocking", "raising", "answering", "ended"}, reply \in Replies :
        /\ Goto(q, point, reply)
        /\ thread[q].at = "answering" => point \in Past /\ UNCHANGED lock
        /\ thread[q].at = "confirm" => point \in Holding /\ UNCHANGED lock
        /\ thread[q].at \in {"unlocking", "raising"} => point \in Past /\ lock' = NoOne
  BY <1>1, ReplyFacts DEF ReplyLocked, Release, Answer, Past, Holding
<1>3. point \in Points
  BY DEF Points
<1>4. ReceiverTypeOK'
  BY <1>1, <1>2, <1>3, GotoFacts DEF ReceiverInv, ReceiverTypeOK, stored
<1>5. LockHeld'
  BY <1>1, <1>2, <1>3, GotoFacts, MarkersAssumption
     DEF ReceiverInv, LockHeld, Holding, Past
<1>6. Admitted'
  <2>1. thread'[q].at = point /\ \A p \in RequestIds : p # q => thread'[p] = thread[p]
    BY <1>2, <1>3, GotoFacts DEF ReceiverInv
  <2>2. \A p \in RequestIds : request'[p] = request[p]
    BY <1>1
  <2> QED BY <1>1, <2>1, <2>2 DEF ReceiverInv, Admitted
<1>7. thread[q].at \in Past => point \in Past
  BY <1>1, <1>2 DEF Past
<1> QED BY <1>1, <1>2, <1>3, <1>4, <1>5, <1>6, <1>7, QuietStep

(* What the upload handler stores, and what it leaves alone.               *)
LEMMA StoreFacts ==
  ASSUME ReceiverInv, NEW q \in RequestIds, Store(q)
  PROVE  /\ Scope(request[q]) \in Scopes /\ arrived[q] \in Bodies
         /\ request[q].sha256 = Sha256[arrived[q]]
         /\ \E ref \in Refs :
              LET key == <<Scope(request[q]), ref>>
                  metadata == receipt(ref, arrived[q])
              IN  /\ key \in Stores
                  /\ ref \notin issued /\ issued' = issued \cup {ref}
                  /\ contents'[key] = arrived[q]
                  /\ receipts'[key] = metadata
                  /\ \A k \in Stores : k # key =>
                       contents'[k] = contents[k] /\ receipts'[k] = receipts[k]
                  /\ contents[key] = NoBody
                  /\ trace' = Append(trace, [kind |-> "upload", scope |-> key[1], ref |-> ref])
                  /\ Goto(q, "confirm", [status |-> 201, receipt |-> metadata])
<1>1. /\ thread[q].at = "locked" /\ request[q].path = "upload" /\ Intact(q)
      /\ OneScope(request[q])
  BY DEF Store, ReceiverInv, Admitted
<1>2. Scope(request[q]) \in Scopes
  BY <1>1, ScopeFacts
<1>3. arrived[q] \in Bodies /\ request[q].sha256 = Sha256[arrived[q]]
  BY <1>1 DEF Intact, ReceiverInv, ReceiverTypeOK
<1>4. PICK ref \in Refs :
        LET metadata == [ref |-> ref, size |-> request[q].size,
                         sha256 |-> request[q].sha256]
        IN  /\ ref \notin issued
            /\ issued' = issued \cup {ref}
            /\ contents' = [contents EXCEPT ![<<Scope(request[q]), ref>>] = arrived[q]]
            /\ receipts' = [receipts EXCEPT ![<<Scope(request[q]), ref>>] = metadata]
            /\ trace' = Append(trace, [kind |-> "upload",
                                       scope |-> <<Scope(request[q]), ref>>[1],
                                       ref |-> ref])
            /\ Goto(q, "confirm", [status |-> 201, receipt |-> metadata])
  BY DEF Store
<1>8. [ref |-> ref, size |-> request[q].size, sha256 |-> request[q].sha256]
        = receipt(ref, arrived[q])
  BY <1>1 DEF Intact, receipt
<1>5. <<Scope(request[q]), ref>> \in Stores
  BY <1>2 DEF Stores
<1>6. contents[<<Scope(request[q]), ref>>] = NoBody
  BY <1>4, <1>5 DEF ReceiverInv, KeysIssued
<1>7. contents \in [Stores -> Bodies \cup {NoBody}] /\ DOMAIN receipts = Stores
  BY DEF ReceiverInv, ReceiverTypeOK
<1> QED BY <1>2, <1>3, <1>4, <1>5, <1>6, <1>7, <1>8

LEMMA StoreStep ==
  ASSUME ReceiverInv, NEW q \in RequestIds, Store(q)
  PROVE  ReceiverInv'
<1>1. /\ thread[q].at = "locked"
      /\ UNCHANGED <<request, arrived, response, lock, events>>
  BY DEF Store
<1>2. PICK ref \in Refs :
        LET key == <<Scope(request[q]), ref>>
            metadata == receipt(ref, arrived[q])
        IN  /\ key \in Stores
            /\ ref \notin issued /\ issued' = issued \cup {ref}
            /\ contents'[key] = arrived[q]
            /\ receipts'[key] = metadata
            /\ \A k \in Stores : k # key =>
                 contents'[k] = contents[k] /\ receipts'[k] = receipts[k]
            /\ contents[key] = NoBody
            /\ trace' = Append(trace, [kind |-> "upload", scope |-> key[1], ref |-> ref])
            /\ Goto(q, "confirm", [status |-> 201, receipt |-> metadata])
  BY StoreFacts
<1> DEFINE key == <<Scope(request[q]), ref>>
           entry == [kind |-> "upload", scope |-> key[1], ref |-> ref]
           metadata == receipt(ref, arrived[q])
<1>3. /\ Scope(request[q]) \in Scopes /\ arrived[q] \in Bodies
      /\ metadata \in Receipts /\ arrived[q] # NoBody
  BY StoreFacts, ReceiptFacts, MarkersAssumption
<1>4. /\ thread' \in [RequestIds -> [at : Points, reply : Replies]]
      /\ thread'[q].at = "confirm"
      /\ \A p \in RequestIds : p # q => thread'[p] = thread[p]
  BY <1>2, <1>3, GotoFacts, ReplyFacts DEF ReceiverInv, Points
<1>5. /\ trace' = Append(trace, entry)
      /\ trace' \in Seq([kind : {"upload"}, scope : Scopes, ref : Refs]
                     \cup [kind : {"event"}, scope : Scopes, request : RequestIds])
      /\ Len(trace') = Len(trace) + 1
      /\ trace'[Len(trace) + 1] = entry
      /\ \A n \in 1..Len(trace) : trace'[n] = trace[n]
      /\ Len(trace) \in Nat
  BY <1>2, <1>3 DEF ReceiverInv, ReceiverTypeOK
<1>6. ReceiverTypeOK'
  <2>1. contents' = [k \in Stores |-> IF k = key THEN arrived[q] ELSE contents[k]]
    BY <1>1, <1>2 DEF Store, ReceiverInv, ReceiverTypeOK
  <2>2. receipts' = [k \in Stores |-> IF k = key THEN metadata ELSE receipts[k]]
    BY <1>1, <1>2 DEF Store, ReceiverInv, ReceiverTypeOK
  <2>3. contents' \in [Stores -> Bodies \cup {NoBody}]
    BY <1>3, <2>1 DEF ReceiverInv, ReceiverTypeOK
  <2>4. receipts' \in [Stores -> Receipts \cup {NoReceipt}]
    BY <1>3, <2>2 DEF ReceiverInv, ReceiverTypeOK
  <2> QED BY <1>1, <1>2, <1>4, <1>5, <2>3, <2>4 DEF ReceiverInv, ReceiverTypeOK
<1>7. LockHeld'
  BY <1>1, <1>4 DEF ReceiverInv, LockHeld, Holding
<1>8. Admitted'
  <2>1. \A p \in RequestIds : request'[p] = request[p]
    BY <1>1
  <2> QED BY <1>1, <1>4, <2>1 DEF ReceiverInv, Admitted
<1>9. StoreIntegrity' /\ KeysIssued'
  BY <1>2, <1>3 DEF ReceiverInv, StoreIntegrity, KeysIssued
<1>10. UploadsTraced'
  <2>1. SUFFICES ASSUME NEW k \in Stores, contents'[k] # NoBody
                 PROVE  \E m \in 1..Len(trace') : /\ trace'[m].kind = "upload"
                                                  /\ trace'[m].scope = k[1]
                                                  /\ trace'[m].ref = k[2]
    BY DEF UploadsTraced
  <2>2. CASE k = key
    BY <1>5, <2>2
  <2>3. CASE k # key
    <3>1. contents[k] # NoBody
      BY <1>2, <2>1, <2>3
    <3>2. PICK m \in 1..Len(trace) : /\ trace[m].kind = "upload"
                                     /\ trace[m].scope = k[1]
                                     /\ trace[m].ref = k[2]
      BY <3>1 DEF ReceiverInv, UploadsTraced
    <3>3. m \in 1..Len(trace') /\ trace'[m] = trace[m]
      BY <1>5
    <3> QED BY <3>2, <3>3
  <2> QED BY <2>2, <2>3
<1>11. \A p \in RequestIds : thread[p].at \in Past => p # q /\ thread'[p] = thread[p]
  BY <1>1, <1>4 DEF Past
<1>12. EventRecords'
  <2>1. SUFFICES ASSUME NEW n \in 1..Len(events)
                 PROVE  \A i \in 1..Len(events[n].refs) :
                          contents'[<<events[n].scope, events[n].refs[i]>>] # NoBody
    BY <1>1, <1>11 DEF EventRecords, ReceiverInv
  <2>2. TAKE i \in 1..Len(events[n].refs)
  <2>3. /\ <<events[n].scope, events[n].refs[i]>> \in Stores
        /\ contents[<<events[n].scope, events[n].refs[i]>>] # NoBody
    BY DEF EventRecords, ReceiverInv, Stores
  <2> QED BY <1>2, <2>3
<1>13. EventsTraced'
  BY <1>5, <1>11 DEF EventsTraced, ReceiverInv
<1>14. EventsFollowUploads'
  <2>1. SUFFICES ASSUME NEW n \in 1..Len(trace'), trace'[n].kind = "event",
                        NEW i \in 1..Len(request[trace'[n].request].refs)
                 PROVE  \E m \in 1..(n-1) :
                          /\ trace'[m].kind = "upload"
                          /\ trace'[m].scope = trace'[n].scope
                          /\ trace'[m].ref = request[trace'[n].request].refs[i]
    BY <1>1 DEF EventsFollowUploads
  <2>2. n \in 1..Len(trace) /\ trace'[n] = trace[n]
    BY <1>5, <2>1
  <2>3. \A m \in 1..(n-1) : trace'[m] = trace[m]
    BY <1>5, <2>2
  <2>4. i \in 1..Len(request[trace[n].request].refs) /\ trace[n].kind = "event"
    BY <2>1, <2>2
  <2>5. PICK m \in 1..(n-1) :
          /\ trace[m].kind = "upload"
          /\ trace[m].scope = trace[n].scope
          /\ trace[m].ref = request[trace[n].request].refs[i]
    BY <2>2, <2>4 DEF EventsFollowUploads, ReceiverInv
  <2> QED BY <2>2, <2>3, <2>5
<1> QED BY <1>6, <1>7, <1>8, <1>9, <1>10, <1>12, <1>13, <1>14 DEF ReceiverInv

LEMMA RecordStep ==
  ASSUME ReceiverInv, NEW q \in RequestIds, RecordEvent(q)
  PROVE  ReceiverInv'
<1> DEFINE event == [request |-> q, scope |-> Scope(request[q]), refs |-> request[q].refs]
           entry == [kind |-> "event", scope |-> Scope(request[q]), request |-> q]
<1>1. /\ thread[q].at = "locked" /\ lock' = NoOne
      /\ Goto(q, "answering", Status(204))
      /\ UNCHANGED <<request, arrived, response, contents, receipts, issued>>
      /\ events' = Append(events, event) /\ trace' = Append(trace, entry)
  BY DEF RecordEvent
<1>2. /\ request[q] \in Requests /\ OneScope(request[q]) /\ request[q].path = "event"
      /\ request[q].refs \in Seq(Refs)
  BY <1>1 DEF RecordEvent, ReceiverInv, Admitted, Requests
<1>3. Scope(request[q]) \in Scopes
  BY <1>2, ScopeFacts
<1>4. /\ thread' \in [RequestIds -> [at : Points, reply : Replies]]
      /\ thread'[q].at = "answering"
      /\ \A p \in RequestIds : p # q => thread'[p] = thread[p]
  BY <1>1, GotoFacts, ReplyFacts DEF ReceiverInv, Points
<1>5. /\ event \in [request : RequestIds, scope : Scopes, refs : Seq(Refs)]
      /\ events' \in Seq([request : RequestIds, scope : Scopes, refs : Seq(Refs)])
      /\ Len(events) \in Nat /\ Len(events') = Len(events) + 1
      /\ events'[Len(events) + 1] = event
      /\ \A n \in 1..Len(events) : events'[n] = events[n]
  BY <1>1, <1>2, <1>3 DEF ReceiverInv, ReceiverTypeOK
<1>6. /\ trace' \in Seq([kind : {"upload"}, scope : Scopes, ref : Refs]
                     \cup [kind : {"event"}, scope : Scopes, request : RequestIds])
      /\ Len(trace) \in Nat /\ Len(trace') = Len(trace) + 1
      /\ trace'[Len(trace) + 1] = entry
      /\ \A n \in 1..Len(trace) : trace'[n] = trace[n]
  BY <1>1, <1>3 DEF ReceiverInv, ReceiverTypeOK
<1>7. ReceiverTypeOK'
  BY <1>1, <1>4, <1>5, <1>6 DEF ReceiverInv, ReceiverTypeOK
<1>8. LockHeld'
  BY <1>1, <1>4, MarkersAssumption DEF ReceiverInv, LockHeld, Holding
<1>9. Admitted'
  <2>1. \A p \in RequestIds : request'[p] = request[p]
    BY <1>1
  <2> QED BY <1>1, <1>4, <2>1 DEF ReceiverInv, Admitted
<1>10. StoreIntegrity' /\ KeysIssued'
  BY <1>1 DEF ReceiverInv, StoreIntegrity, KeysIssued
<1>11. UploadsTraced'
  BY <1>1, <1>6 DEF ReceiverInv, UploadsTraced
<1>12. \A p \in RequestIds : thread[p].at \in Past => p # q /\ thread'[p] = thread[p]
  BY <1>1, <1>4 DEF Past
<1>13. \A i \in 1..Len(request[q].refs) :
         /\ <<Scope(request[q]), request[q].refs[i]>> \in Stores
         /\ contents[<<Scope(request[q]), request[q].refs[i]>>] # NoBody
  <2>1. SUFFICES ASSUME NEW i \in 1..Len(request[q].refs)
                 PROVE  /\ <<Scope(request[q]), request[q].refs[i]>> \in Stores
                        /\ contents[<<Scope(request[q]), request[q].refs[i]>>] # NoBody
    OBVIOUS
  <2>2. ~ Missing(EventKeys(q)[i])
    BY DEF RecordEvent
  <2>3. EventKeys(q)[i] = <<Scope(request[q]), request[q].refs[i]>>
    BY DEF EventKeys
  <2>4. request[q].refs[i] \in Refs
    BY <1>2
  <2> QED BY <1>3, <2>2, <2>3, <2>4 DEF Missing, Stores
<1>14. EventRecords'
  <2>1. SUFFICES ASSUME NEW n \in 1..Len(events')
                 PROVE  /\ events'[n].request \in RequestIds
                        /\ events'[n].scope \in Scopes
                        /\ thread'[events'[n].request].at \in Past
                        /\ events'[n].refs = request[events'[n].request].refs
                        /\ events'[n].refs \in Seq(Refs)
                        /\ \A i \in 1..Len(events'[n].refs) :
                             contents[<<events'[n].scope, events'[n].refs[i]>>] # NoBody
                        /\ \A m \in 1..Len(events') :
                             events'[m].request = events'[n].request => m = n
    BY <1>1 DEF EventRecords
  <2>2. \A m \in 1..Len(events) : events'[m].request # q
    BY <1>5, <1>12 DEF ReceiverInv, EventRecords
  <2>3. CASE n = Len(events) + 1
    <3>1. events'[n] = event /\ thread'[q].at \in Past
      BY <1>4, <1>5, <2>3 DEF Past
    <3>2. \A m \in 1..Len(events') : events'[m].request = q => m = n
      <4>1. SUFFICES ASSUME NEW m \in 1..Len(events'), events'[m].request = q
                     PROVE  m = n
        OBVIOUS
      <4>2. m \notin 1..Len(events)
        BY <2>2, <4>1
      <4>3. Len(events) \in Nat /\ Len(events') = Len(events) + 1
        BY <1>5
      <4> QED BY <2>3, <4>1, <4>2, <4>3
    <3>3. /\ event.request = q /\ event.scope = Scope(request[q])
          /\ event.refs = request[q].refs /\ event.refs \in Seq(Refs)
      BY <1>2
    <3>4. request'[q] = request[q] /\ contents' = contents
      BY <1>1
    <3>5. \A i \in 1..Len(events'[n].refs) :
            contents[<<events'[n].scope, events'[n].refs[i]>>] # NoBody
      BY <1>13, <3>1, <3>3
    <3> QED BY <1>3, <3>1, <3>2, <3>3, <3>4, <3>5
  <2>4. CASE n \in 1..Len(events)
    <3>1. events'[n] = events[n] /\ thread'[events[n].request].at \in Past
      BY <1>5, <1>12, <2>4 DEF ReceiverInv, EventRecords
    <3>2. \A m \in 1..Len(events') : events'[m].request = events[n].request => m = n
      <4>1. SUFFICES ASSUME NEW m \in 1..Len(events'),
                            events'[m].request = events[n].request
                     PROVE  m = n
        OBVIOUS
      <4>2. CASE m \in 1..Len(events)
        <5>1. events'[m] = events[m]
          BY <1>5, <4>2
        <5> QED BY <2>4, <4>1, <4>2, <5>1 DEF ReceiverInv, EventRecords
      <4>3. CASE m = Len(events) + 1
        BY <1>5, <2>2, <2>4, <4>1, <4>3
      <4> QED BY <1>5, <4>2, <4>3
    <3> QED BY <2>4, <3>1, <3>2 DEF ReceiverInv, EventRecords
  <2> QED BY <1>5, <2>3, <2>4
<1>15. EventsTraced'
  BY <1>4, <1>6, <1>12 DEF EventsTraced, ReceiverInv, Past
<1>16. EventsFollowUploads'
  <2>1. SUFFICES ASSUME NEW n \in 1..Len(trace'), trace'[n].kind = "event",
                        NEW i \in 1..Len(request[trace'[n].request].refs)
                 PROVE  \E m \in 1..(n-1) :
                          /\ trace'[m].kind = "upload"
                          /\ trace'[m].scope = trace'[n].scope
                          /\ trace'[m].ref = request[trace'[n].request].refs[i]
    <3>1. request' = request
      BY <1>1
    <3> QED BY <3>1 DEF EventsFollowUploads
  <2>2. CASE n \in 1..Len(trace)
    <3>1. \A m \in 1..n : trace'[m] = trace[m]
      BY <1>6, <2>2
    <3>2. i \in 1..Len(request[trace[n].request].refs) /\ trace[n].kind = "event"
      BY <2>1, <2>2, <3>1
    <3>3. PICK m \in 1..(n-1) :
            /\ trace[m].kind = "upload"
            /\ trace[m].scope = trace[n].scope
            /\ trace[m].ref = request[trace[n].request].refs[i]
      BY <2>2, <3>2 DEF EventsFollowUploads, ReceiverInv
    <3>4. trace'[m] = trace[m] /\ trace'[n] = trace[n]
      BY <2>2, <3>1
    <3> QED BY <3>3, <3>4
  <2>3. CASE n = Len(trace) + 1
    <3>1. trace'[n].scope = Scope(request[q]) /\ trace'[n].request = q
      BY <1>6, <2>3
    <3>2. PICK m \in 1..Len(trace) :
            /\ trace[m].kind = "upload"
            /\ trace[m].scope = Scope(request[q])
            /\ trace[m].ref = request[q].refs[i]
      BY <1>13, <2>1, <3>1 DEF ReceiverInv, UploadsTraced
    <3> QED BY <1>6, <2>3, <3>1, <3>2
  <2> QED BY <1>6, <2>2, <2>3
<1> QED BY <1>7, <1>8, <1>9, <1>10, <1>11, <1>14, <1>15, <1>16 DEF ReceiverInv

LEMMA HandlerKeepsReceiverInv ==
  ASSUME ReceiverInv, NEW q \in RequestIds, HandlerStep(q)
  PROVE  ReceiverInv'
BY ReadStep, AcquireStep, RefusalStep, ReplyStep, StoreStep, RecordStep DEF HandlerStep

LEMMA ReceiverStutter ==
  ASSUME ReceiverInv, UNCHANGED receiverVars
  PROVE  ReceiverInv'
<1>1a. ReceiverTypeOK'
  BY DEF ReceiverInv, receiverVars, stored, ReceiverTypeOK
<1>1b. LockHeld'
  BY DEF ReceiverInv, receiverVars, LockHeld
<1>1c. Admitted'
  BY DEF ReceiverInv, receiverVars, Admitted
<1>2. StoreIntegrity' /\ KeysIssued' /\ UploadsTraced'
  BY DEF ReceiverInv, receiverVars, stored, StoreIntegrity, KeysIssued, UploadsTraced
<1>3. EventRecords' /\ EventsTraced' /\ EventsFollowUploads'
  BY DEF ReceiverInv, receiverVars, stored, EventRecords, EventsTraced, EventsFollowUploads
<1> QED BY <1>1a, <1>1b, <1>1c, <1>2, <1>3 DEF ReceiverInv

LEMMA ReceiverKeepsInv == ReceiverInv /\ [ReceiverNext]_receiverVars => ReceiverInv'
BY ConnectStep, HandlerKeepsReceiverInv, ReceiverStutter, PostsAssumption DEF ReceiverNext

(* The inductive invariant of the receiver.                                *)
THEOREM ReceiverInvariant == ReceiverSpec => []ReceiverInv
BY ReceiverStart, ReceiverKeepsInv, PTL DEF ReceiverSpec

(* The variables of the receiver keep their types.                         *)
THEOREM ReceiverTypeCorrect == ReceiverSpec => []ReceiverTypeOK
<1>1. ReceiverInv => ReceiverTypeOK
  BY DEF ReceiverInv
<1> QED BY <1>1, ReceiverInvariant, PTL

(* Contents and receipts always describe the same bytes.                   *)
THEOREM AlwaysStoreIntegrity == ReceiverSpec => []StoreIntegrity
<1>1. ReceiverInv => StoreIntegrity
  BY DEF ReceiverInv
<1> QED BY <1>1, ReceiverInvariant, PTL

(* An event is recorded after the uploads it refers to, in its own scope.  *)
THEOREM EventsAlwaysFollowUploads == ReceiverSpec => []EventsFollowUploads
<1>1. ReceiverInv => EventsFollowUploads
  BY DEF ReceiverInv
<1> QED BY <1>1, ReceiverInvariant, PTL

-----------------------------------------------------------------------------
(* A handler step keeps stored bytes and recorded events.                  *)
Kept ==
  /\ \A key \in Stores : contents[key] # NoBody => contents'[key] = contents[key]
  /\ Len(events) <= Len(events')
  /\ \A n \in 1..Len(events) : events'[n] = events[n]

LEMMA HandlerKeeps ==
  ASSUME ReceiverInv, NEW q \in RequestIds, HandlerStep(q)
  PROVE  Kept
<1>1. Len(events) \in Nat
  BY DEF ReceiverInv, ReceiverTypeOK
<1>2. CASE Store(q)
  <2>1. UNCHANGED events
    BY <1>2 DEF Store
  <2>2. \A key \in Stores : contents[key] # NoBody => contents'[key] = contents[key]
    BY <1>2, StoreFacts
  <2> QED BY <1>1, <2>1, <2>2 DEF Kept
<1>3. CASE RecordEvent(q)
  <2>1. /\ contents' = contents
        /\ \E event : events' = Append(events, event)
    BY <1>3 DEF RecordEvent
  <2>2. events \in Seq([request : RequestIds, scope : Scopes, refs : Seq(Refs)])
    BY DEF ReceiverInv, ReceiverTypeOK
  <2> QED BY <1>1, <2>1, <2>2 DEF Kept
<1>4. CASE ~ Store(q) /\ ~ RecordEvent(q)
  <2>1. UNCHANGED <<contents, events>>
    BY <1>4 DEF HandlerStep, Read, Acquire, RejectUpload, MissingContent,
       RejectEvent, ReplyLocked, Release, Answer, stored
  <2> QED BY <1>1, <2>1 DEF Kept
<1> QED BY <1>2, <1>3, <1>4

LEMMA ReceiverKeeps ==
  ASSUME ReceiverInv, [ReceiverNext]_receiverVars
  PROVE  Kept
<1>1. Len(events) \in Nat
  BY DEF ReceiverInv, ReceiverTypeOK
<1>2. CASE UNCHANGED <<contents, events>>
  BY <1>1, <1>2 DEF Kept
<1> QED BY <1>2, HandlerKeeps DEF ReceiverNext, Connect, stored, receiverVars

(* No step drops or changes confirmed bytes or recorded events.            *)
THEOREM NothingEverLost == ReceiverSpec => NothingLost
<1>1. ReceiverInv /\ [ReceiverNext]_receiverVars => [Kept]_receiverVars
  BY ReceiverKeeps
<1> QED BY <1>1, ReceiverInvariant, PTL DEF ReceiverSpec, NothingLost, Kept

-----------------------------------------------------------------------------
(* What a reply to q claims is true of a store and its events.             *)
Truthful(q, reply, asked, stores, records) ==
  /\ reply.status = 201 =>
       \E ref \in Refs :
         LET key == <<Scope(asked), ref>>
         IN  /\ key \in Stores
             /\ stores[key] # NoBody
             /\ asked.sha256 = Sha256[stores[key]]
             /\ reply.receipt \in {NoReceipt, receipt(ref, stores[key])}
  /\ reply.status = 204 => \E n \in 1..Len(records) : records[n].request = q

(* Pending and delivered replies are true; an idle connection has none.    *)
RepliesInv ==
  \A q \in RequestIds :
    /\ Truthful(q, thread[q].reply, request[q], contents, events)
    /\ Truthful(q, response[q], request[q], contents, events)
    /\ thread[q].at = "idle" => thread[q].reply = NoReply /\ response[q] = NoReply

(* A refusal, and no reply yet, claim nothing.                             *)
LEMMA RefusalIsTruthful ==
  ASSUME NEW q, NEW reply, reply.status \notin {201, 204}, NEW asked, NEW stores, NEW records
  PROVE  Truthful(q, reply, asked, stores, records)
BY DEF Truthful

(* What is true of a reply is true of its head alone.                      *)
LEMMA HeadIsTruthful ==
  ASSUME NEW q, NEW reply, NEW asked, NEW stores, NEW records,
         Truthful(q, reply, asked, stores, records)
  PROVE  Truthful(q, Status(reply.status), asked, stores, records)
BY DEF Truthful, Status

LEMMA StatusOfReply ==
  /\ NoReply.status = 0 /\ NoReply.receipt = NoReceipt
  /\ \A code : Status(code).status = code /\ Status(code).receipt = NoReceipt
BY DEF NoReply, Status

(* A true reply stays true, because nothing stored is lost.                *)
LEMMA TruthStays ==
  ASSUME ReceiverInv, Kept, NEW q, NEW reply, NEW asked,
         Truthful(q, reply, asked, contents, events)
  PROVE  Truthful(q, reply, asked, contents', events')
<1>1. CASE reply.status = 201
  <2>1. PICK ref \in Refs :
          /\ <<Scope(asked), ref>> \in Stores
          /\ contents[<<Scope(asked), ref>>] # NoBody
          /\ asked.sha256 = Sha256[contents[<<Scope(asked), ref>>]]
          /\ reply.receipt \in {NoReceipt, receipt(ref, contents[<<Scope(asked), ref>>])}
    BY <1>1 DEF Truthful
  <2>2. contents'[<<Scope(asked), ref>>] = contents[<<Scope(asked), ref>>]
    BY <2>1 DEF Kept
  <2> QED BY <1>1, <2>1, <2>2 DEF Truthful
<1>2. CASE reply.status = 204
  <2>1. PICK n \in 1..Len(events) : events[n].request = q
    BY <1>2 DEF Truthful
  <2>2. n \in 1..Len(events') /\ events'[n] = events[n]
    BY <2>1 DEF Kept, ReceiverInv, ReceiverTypeOK
  <2> QED BY <1>2, <2>1, <2>2 DEF Truthful
<1> QED BY <1>1, <1>2 DEF Truthful

(* What a handler step makes of its replies: only Store decides on a 201   *)
(* with a receipt, only RecordEvent on a 204.                              *)
LEMMA HandlerReplies ==
  ASSUME ReceiverInv, NEW q \in RequestIds, HandlerStep(q)
  PROVE  /\ response'[q] \in {response[q], thread[q].reply, Status(thread[q].reply.status)}
         /\ ~ Store(q) =>
              \/ thread'[q].reply = thread[q].reply
              \/ /\ thread'[q].reply.receipt = NoReceipt
                 /\ thread'[q].reply.status # 201
                 /\ ~ RecordEvent(q) => thread'[q].reply.status # 204
<1>1. response'[q] \in {response[q], thread[q].reply, Status(thread[q].reply.status)}
  <2>1. CASE ReplyLocked(q) \/ Answer(q)
    BY <2>1 DEF ReplyLocked, Answer, Sent, CutOff, Arrives, ReceiverInv, ReceiverTypeOK
  <2>2. CASE ~ ReplyLocked(q) /\ ~ Answer(q)
    BY <2>2 DEF HandlerStep, Read, Acquire, Store, RejectUpload, RecordEvent,
       MissingContent, RejectEvent, Release
  <2> QED BY <2>1, <2>2
<1>2. CASE Read(q)
  <2>1. request[q] \in Requests
    BY <1>2 DEF ReceiverInv, Admitted, Read
  <2>2. PICK whole \in BOOLEAN :
          \/ Goto(q, "waiting", NoReply)
          \/ Goto(q, "answering", Status(EarlyStatus(request[q], whole)))
    BY <1>2 DEF Read
  <2>3. thread'[q].reply \in {NoReply, Status(EarlyStatus(request[q], whole))}
    BY <2>2 DEF Goto, ReceiverInv, ReceiverTypeOK
  <2>4. EarlyStatus(request[q], whole) \notin {201, 204}
    BY <2>1, StatusFacts
  <2> QED BY <1>1, <2>3, <2>4, StatusOfReply
<1>3. CASE RecordEvent(q)
  <2>1. Goto(q, "answering", Status(204))
    BY <1>3 DEF RecordEvent
  <2>2. thread'[q].reply = Status(204)
    BY <2>1 DEF Goto, ReceiverInv, ReceiverTypeOK
  <2> QED BY <1>1, <1>3, <2>2, StatusOfReply
<1>4. CASE Acquire(q) \/ RejectUpload(q) \/ MissingContent(q) \/ RejectEvent(q)
  BY <1>1, <1>4, StatusOfReply DEF Acquire, RejectUpload, MissingContent, RejectEvent,
     Goto, ReceiverInv, ReceiverTypeOK
<1>5. CASE ReplyLocked(q) \/ Release(q) \/ Answer(q)
  BY <1>1, <1>5, StatusOfReply DEF ReplyLocked, Release, Answer, Goto,
     ReceiverInv, ReceiverTypeOK
<1> QED BY <1>1, <1>2, <1>3, <1>4, <1>5 DEF HandlerStep

LEMMA StoreReplies ==
  ASSUME ReceiverInv, NEW q \in RequestIds, Store(q)
  PROVE  thread'[q].reply.status = 201
<1>1. PICK ref \in Refs :
        Goto(q, "confirm", [status |-> 201,
                            receipt |-> [ref |-> ref, size |-> request[q].size,
                                         sha256 |-> request[q].sha256]])
  BY DEF Store
<1> QED BY <1>1 DEF Goto, ReceiverInv, ReceiverTypeOK

(* A handler decides on, and writes, only replies that are true.           *)
LEMMA HandlerIsTruthful ==
  ASSUME ReceiverInv, NEW q \in RequestIds, HandlerStep(q),
         Truthful(q, thread[q].reply, request[q], contents, events),
         Truthful(q, response[q], request[q], contents, events)
  PROVE  /\ Truthful(q, thread'[q].reply, request[q], contents', events')
         /\ Truthful(q, response'[q], request[q], contents', events')
<1>1. Kept
  BY HandlerKeeps
<1>2. /\ Truthful(q, thread[q].reply, request[q], contents', events')
      /\ Truthful(q, response[q], request[q], contents', events')
  BY <1>1, TruthStays
<1>3. Truthful(q, response'[q], request[q], contents', events')
  <2>1. response'[q] \in {response[q], thread[q].reply, Status(thread[q].reply.status)}
    BY HandlerReplies
  <2>2. Truthful(q, Status(thread[q].reply.status), request[q], contents', events')
    BY <1>2, HeadIsTruthful
  <2> QED BY <1>2, <2>1, <2>2
<1>4. CASE Store(q)
  <2>1. /\ Scope(request[q]) \in Scopes /\ arrived[q] \in Bodies
        /\ request[q].sha256 = Sha256[arrived[q]]
    BY <1>4, StoreFacts
  <2>2. PICK ref \in Refs :
          /\ <<Scope(request[q]), ref>> \in Stores
          /\ contents'[<<Scope(request[q]), ref>>] = arrived[q]
          /\ Goto(q, "confirm", [status |-> 201, receipt |-> receipt(ref, arrived[q])])
    BY <1>4, StoreFacts
  <2>3. thread'[q].reply = [status |-> 201, receipt |-> receipt(ref, arrived[q])]
    BY <2>2 DEF Goto, ReceiverInv, ReceiverTypeOK
  <2>4. receipt(ref, arrived[q]).ref = ref /\ arrived[q] # NoBody
    BY <2>1, ReceiptFacts, MarkersAssumption
  <2> QED BY <1>2, <1>3, <2>1, <2>2, <2>3, <2>4 DEF Truthful
<1>5. CASE RecordEvent(q)
  <2>1. /\ thread'[q].reply = Status(204)
        /\ events' = Append(events, [request |-> q, scope |-> Scope(request[q]),
                                     refs |-> request[q].refs])
    BY <1>5 DEF RecordEvent, Goto, ReceiverInv, ReceiverTypeOK
  <2>2. /\ Len(events) + 1 \in 1..Len(events')
        /\ events'[Len(events) + 1].request = q
    BY <2>1 DEF ReceiverInv, ReceiverTypeOK
  <2>3. Truthful(q, thread'[q].reply, request[q], contents', events')
    BY <2>1, <2>2, StatusOfReply DEF Truthful
  <2> QED BY <1>2, <1>3, <2>3
<1>6. CASE ~ Store(q) /\ ~ RecordEvent(q)
  <2>1. \/ thread'[q].reply = thread[q].reply
        \/ thread'[q].reply.status \notin {201, 204}
    BY <1>6, HandlerReplies
  <2> QED BY <1>2, <1>3, <2>1, RefusalIsTruthful
<1> QED BY <1>4, <1>5, <1>6

(* A handler step concerns the replies of its own connection only, and     *)
(* that connection is never idle.                                          *)
LEMMA HandlerIsLocal ==
  ASSUME ReceiverInv, NEW q \in RequestIds, HandlerStep(q)
  PROVE  /\ UNCHANGED request
         /\ thread'[q].at # "idle"
         /\ \A p \in RequestIds : p # q =>
              thread'[p] = thread[p] /\ response'[p] = response[p]
<1>1. CASE Read(q)
  BY <1>1 DEF Read, Goto, ReceiverInv, ReceiverTypeOK
<1>2. CASE Store(q)
  BY <1>2 DEF Store, Goto, ReceiverInv, ReceiverTypeOK
<1>3. CASE ~ Read(q) /\ ~ Store(q)
  BY <1>3 DEF HandlerStep, Acquire, RejectUpload, RecordEvent, MissingContent, RejectEvent,
     ReplyLocked, Release, Answer, Sent, CutOff, Arrives, Goto, ReceiverInv, ReceiverTypeOK
<1> QED BY <1>1, <1>2, <1>3

LEMMA RepliesStep ==
  ReceiverInv /\ RepliesInv /\ [ReceiverNext]_receiverVars => RepliesInv'
<1>1. SUFFICES ASSUME ReceiverInv, RepliesInv, [ReceiverNext]_receiverVars
               PROVE  RepliesInv'
  OBVIOUS
<1>2. Kept
  BY <1>1, ReceiverKeeps
<1>3. CASE UNCHANGED receiverVars
  BY <1>1, <1>3 DEF RepliesInv, receiverVars, stored
<1>4. ASSUME NEW q \in RequestIds, NEW r \in Posts, Connect(q, r)
      PROVE  RepliesInv'
  <2>1. /\ thread[q].at = "idle" /\ thread'[q] = [at |-> "reading", reply |-> NoReply]
        /\ UNCHANGED <<response, contents, events>>
        /\ \A p \in RequestIds : p # q =>
             thread'[p] = thread[p] /\ request'[p] = request[p]
    BY <1>1, <1>4 DEF Connect, Goto, stored, ReceiverInv, ReceiverTypeOK
  <2>2. /\ response[q] = NoReply
        /\ \A asked : Truthful(q, NoReply, asked, contents, events)
    BY <1>1, <2>1, StatusOfReply, RefusalIsTruthful DEF RepliesInv
  <2> QED BY <1>1, <2>1, <2>2 DEF RepliesInv
<1>5. ASSUME NEW q \in RequestIds, HandlerStep(q) PROVE RepliesInv'
  <2>1. /\ Truthful(q, thread'[q].reply, request[q], contents', events')
        /\ Truthful(q, response'[q], request[q], contents', events')
    BY <1>1, <1>5, HandlerIsTruthful DEF RepliesInv
  <2>2. ASSUME NEW p \in RequestIds, p # q
        PROVE  /\ Truthful(p, thread[p].reply, request[p], contents', events')
               /\ Truthful(p, response[p], request[p], contents', events')
    BY <1>1, <1>2, TruthStays DEF RepliesInv
  <2>3. ASSUME NEW p \in RequestIds, p # q
        PROVE  thread'[p] = thread[p] /\ response'[p] = response[p] /\ request' = request
    BY <1>1, <1>5, <2>3, HandlerIsLocal DEF RepliesInv
  <2> QED BY <1>1, <1>5, <2>1, <2>2, <2>3, HandlerIsLocal DEF RepliesInv
<1> QED BY <1>1, <1>3, <1>4, <1>5 DEF ReceiverNext

(* A 201 is never sent without the bytes, nor a 204 without the event.     *)
THEOREM RepliesAlwaysTrue == ReceiverSpec => []RepliesAreTrue
<1>1. ASSUME ReceiverInit PROVE RepliesInv
  <2>1. ASSUME NEW q \in RequestIds
        PROVE  thread[q].reply = NoReply /\ response[q] = NoReply
    BY <1>1 DEF ReceiverInit
  <2>2. \A q : Truthful(q, NoReply, request[q], contents, events)
    BY StatusOfReply, RefusalIsTruthful
  <2> QED BY <2>1, <2>2 DEF RepliesInv
<1>2. RepliesInv => RepliesAreTrue
  BY DEF RepliesInv, RepliesAreTrue, Truthful
<1> QED BY <1>1, <1>2, RepliesStep, ReceiverInvariant, PTL DEF ReceiverSpec

-------------------------------------------------------------------------------
(* In `stores`, ref names `body` wherever it resolves, and is taken.       *)
Names(ref, body, stores, used) ==
  /\ ref \in used
  /\ \A scope \in Scopes : stores[<<scope, ref>>] \in {NoBody, body}

(* A receipt describes the bytes its reference names.                      *)
Honest(reply, stores, used) ==
  reply.receipt # NoReceipt =>
    \E body \in Bodies :
      /\ reply.receipt = receipt(reply.receipt.ref, body)
      /\ Names(reply.receipt.ref, body, stores, used)

ReceiptsHonest ==
  \A q \in RequestIds :
    /\ Honest(thread[q].reply, contents, issued)
    /\ Honest(response[q], contents, issued)

ReferencesHeld ==
  \A d \in Deliveries :
    /\ Len(refs[d]) <= Len(config[d].items)
    /\ \A i \in 1..Len(refs[d]) :
         Names(refs[d][i], config[d].items[i], contents, issued)

(* The event's connection carries the references of every attachment.      *)
EventComplete ==
  \A d \in Deliveries : thread[EventId(d)].at # "idle" =>
    Len(refs[d]) = Len(config[d].items) /\ request[EventId(d)].refs = refs[d]

(* Success is reported, pending or seen only for a recorded event.         *)
SuccessRecorded ==
  \A d \in Deliveries :
    \/ thread[EventId(d)].reply.status = 204
    \/ response[EventId(d)].status = 204
    \/ client[d] = "done"
    => Recorded(d)

DeliveryInv ==
  /\ ReceiverInv
  /\ DeliveryTypeOK
  /\ ReceiptsHonest
  /\ ReferencesHeld
  /\ EventComplete
  /\ SuccessRecorded

-----------------------------------------------------------------------------
LEMMA ConfigFacts ==
  ASSUME NEW c \in Configs
  PROVE  /\ c.items \in Seq(Bodies)
         /\ Len(c.items) \in Nat /\ Len(c.items) <= MaxAttachments
         /\ \A i \in 1..Len(c.items) : c.items[i] \in Bodies
BY DeliveryAssumption DEF Attachments

(* The connections of a delivery are its own: the n-th post's, and the     *)
(* event's, which is the last.                                             *)
LEMMA ConnectionFacts ==
  ASSUME DeliveryTypeOK, ReferencesHeld, NEW d \in Deliveries
  PROVE  /\ EventId(d) \in PostIds /\ Slot(d) \in PostIds
         /\ EventId(d) \in RequestIds /\ Slot(d) \in RequestIds
         /\ \A c \in Deliveries : Slot(d) = EventId(c) <=> c = d /\ ~ Uploading(d)
         /\ \A c \in Deliveries : EventId(c) = EventId(d) => c = d
<1>1. /\ config[d] \in Configs /\ refs[d] \in Seq(Refs)
      /\ Len(refs[d]) <= Len(config[d].items)
      /\ \A c \in Deliveries : Len(config[c].items) \in Nat
  BY ConfigFacts DEF DeliveryTypeOK, ReferencesHeld
<1>2. Len(config[d].items) + 1 \in 1..(MaxAttachments + 1)
  BY <1>1, ConfigFacts, DeliveryAssumption
<1>3. Len(refs[d]) + 1 \in 1..(MaxAttachments + 1)
  BY <1>1, ConfigFacts, DeliveryAssumption
<1>4. EventId(d) \in PostIds /\ Slot(d) \in PostIds
  BY <1>2, <1>3 DEF EventId, Slot, PostIds
<1>5. \A c \in Deliveries : Slot(d) = EventId(c) <=> c = d /\ ~ Uploading(d)
  BY <1>1 DEF EventId, Slot, Uploading
<1>6. \A c \in Deliveries : EventId(c) = EventId(d) => c = d
  BY DEF EventId
<1> QED BY <1>4, <1>5, <1>6, DeliveryAssumption

(* deliver's own posts are posts the receiver can be sent.                 *)
LEMMA RequestFacts ==
  ASSUME DeliveryTypeOK, NEW d \in Deliveries
  PROVE  /\ Uploading(d) => UploadRequest(d) \in Requests /\ Item(d) \in Bodies
         /\ EventRequest(d) \in Requests /\ EventRequest(d).refs = refs[d]
<1>1. config[d] \in Configs /\ refs[d] \in Seq(Refs)
  BY DEF DeliveryTypeOK
<1>2. config[d].uploadAuth \in Tokens /\ config[d].eventAuth \in Tokens
  BY <1>1, DeliveryAssumption
<1>3. ASSUME Uploading(d) PROVE Item(d) \in Bodies
  BY <1>1, <1>3, ConfigFacts DEF Uploading, Item
<1>4. \A body \in Bodies : Size[body] \in Nat /\ Sha256[body] \in Digests
  BY DigestAssumption DEF Digests
<1>5. ASSUME Uploading(d) PROVE UploadRequest(d) \in Requests
  BY <1>2, <1>3, <1>4, <1>5 DEF UploadRequest, Requests
<1>6. EventRequest(d) \in Requests /\ EventRequest(d).refs = refs[d]
  BY <1>1, <1>2, DeliveryAssumption DEF EventRequest, Requests
<1> QED BY <1>3, <1>5, <1>6

(* A new upload takes a fresh reference: names never change their bytes.   *)
LEMMA NamesStay ==
  ASSUME ReceiverInv, NEW ref, NEW body, Names(ref, body, contents, issued),
         \/ \E q \in RequestIds : HandlerStep(q)
         \/ contents' = contents /\ issued \subseteq issued'
  PROVE  Names(ref, body, contents', issued')
<1>1. CASE \E q \in RequestIds : Store(q)
  <2>0. PICK q \in RequestIds : Store(q)
    BY <1>1
  <2>1. PICK fresh \in Refs :
          /\ fresh \notin issued
          /\ issued' = issued \cup {fresh}
          /\ contents' = [contents EXCEPT ![<<Scope(request[q]), fresh>>] = arrived[q]]
    BY <2>0 DEF Store
  <2>2. ref \in Refs /\ ref # fresh
    BY <2>1 DEF Names, ReceiverInv, ReceiverTypeOK
  <2>3. ASSUME NEW scope \in Scopes
        PROVE  contents'[<<scope, ref>>] = contents[<<scope, ref>>]
    BY <2>1, <2>2 DEF Stores, ReceiverInv, ReceiverTypeOK
  <2> QED BY <2>1, <2>3 DEF Names
<1>2. CASE contents' = contents /\ issued \subseteq issued'
  BY <1>2 DEF Names
<1>3. ASSUME NEW q \in RequestIds, HandlerStep(q), ~ Store(q)
      PROVE  contents' = contents /\ issued' = issued
  BY <1>3 DEF HandlerStep, Read, Acquire, RejectUpload, RecordEvent, MissingContent,
     RejectEvent, ReplyLocked, Release, Answer, stored
<1> QED BY <1>1, <1>2, <1>3

LEMMA HonestStays ==
  ASSUME ReceiverInv, NEW reply, Honest(reply, contents, issued),
         \/ \E q \in RequestIds : HandlerStep(q)
         \/ contents' = contents /\ issued \subseteq issued'
  PROVE  Honest(reply, contents', issued')
BY NamesStay DEF Honest

(* A reply that confirms an upload names exactly the bytes sent.           *)
LEMMA ConfirmationNames ==
  ASSUME ReceiverInv, NEW reply \in Replies, Honest(reply, contents, issued),
         NEW body \in Bodies, Confirms(reply, body)
  PROVE  reply.receipt.ref \in Refs /\ Names(reply.receipt.ref, body, contents, issued)
<1>1. PICK b \in Bodies :
        /\ reply.receipt = receipt(reply.receipt.ref, b)
        /\ Names(reply.receipt.ref, b, contents, issued)
  BY DEF Confirms, Honest
<1>2. reply.receipt.ref \in Refs
  BY <1>1 DEF Names, ReceiverInv, ReceiverTypeOK
<1>3. b = body
  BY <1>1, <1>2, ReceiptFacts DEF Confirms
<1> QED BY <1>1, <1>2, <1>3

(* What the receiver resolves for a recorded event is what was attached.   *)
LEMMA ResolvedIsAttached ==
  ASSUME DeliveryInv, NEW d \in Deliveries, Recorded(d)
  PROVE  Resolved(d) = config[d].items
<1> DEFINE n == CHOOSE m \in 1..Len(events) : events[m].request = EventId(d)
<1>1. n \in 1..Len(events) /\ events[n].request = EventId(d)
  BY DEF Recorded
<1>2. thread[EventId(d)].at # "idle" /\ events[n].refs = request[EventId(d)].refs
  BY <1>1 DEF DeliveryInv, ReceiverInv, EventRecords, Past
<1>3. events[n].refs = refs[d] /\ Len(refs[d]) = Len(config[d].items)
  BY <1>2 DEF DeliveryInv, EventComplete
<1>4. config[d].items \in Seq(Bodies)
  BY ConfigFacts DEF DeliveryInv, DeliveryTypeOK
<1>5. ASSUME NEW i \in 1..Len(config[d].items)
      PROVE  contents[<<events[n].scope, events[n].refs[i]>>] = config[d].items[i]
  <2>1. events[n].scope \in Scopes
        /\ contents[<<events[n].scope, events[n].refs[i]>>] # NoBody
    BY <1>1, <1>3 DEF DeliveryInv, ReceiverInv, EventRecords
  <2> QED BY <1>3, <2>1 DEF DeliveryInv, ReferencesHeld, Names
<1>6. Resolved(d) = [i \in 1..Len(config[d].items) |->
                       contents[<<events[n].scope, events[n].refs[i]>>]]
  BY <1>3 DEF Resolved
<1>7. Resolved(d) = [i \in 1..Len(config[d].items) |-> config[d].items[i]]
  BY <1>5, <1>6
<1> QED BY <1>4, <1>7

-----------------------------------------------------------------------------
LEMMA DeliveryStart == DeliveryInit => DeliveryInv
<1>1. SUFFICES ASSUME DeliveryInit PROVE DeliveryInv
  OBVIOUS
<1>2. ReceiverInv
  BY <1>1, ReceiverStart DEF DeliveryInit
<1>3. /\ config \in [Deliveries -> Configs]
      /\ refs = [d \in Deliveries |-> <<>>]
      /\ client = [d \in Deliveries |-> "sending"]
  BY <1>1 DEF DeliveryInit
<1>4. DeliveryTypeOK
  BY <1>2, <1>3 DEF DeliveryTypeOK, ReceiverInv
<1>5. \A q \in RequestIds :
        thread[q].at = "idle" /\ thread[q].reply = NoReply /\ response[q] = NoReply
  BY <1>1 DEF DeliveryInit, ReceiverInit
<1>6. NoReply.receipt = NoReceipt /\ NoReply.status = 0
  BY DEF NoReply
<1>7. ReceiptsHonest
  BY <1>5, <1>6 DEF ReceiptsHonest, Honest
<1>8. ReferencesHeld
  BY <1>3, ConfigFacts DEF ReferencesHeld
<1>9. \A d \in Deliveries : EventId(d) \in RequestIds
  BY <1>4, <1>8, ConnectionFacts
<1>10. EventComplete
  BY <1>5, <1>9 DEF EventComplete
<1>11. SuccessRecorded
  BY <1>3, <1>5, <1>6, <1>9 DEF SuccessRecorded
<1> QED BY <1>2, <1>4, <1>7, <1>8, <1>10, <1>11 DEF DeliveryInv

(* A handler step of any connection.                                       *)
LEMMA HandlerKeepsDeliveryInv ==
  ASSUME DeliveryInv, NEW q \in RequestIds, HandlerStep(q), UNCHANGED deliveryVars
  PROVE  DeliveryInv'
<1>1. ReceiverInv /\ ReceiverInv' /\ Kept
  BY HandlerKeepsReceiverInv, HandlerKeeps DEF DeliveryInv
<1>2. UNCHANGED <<config, refs, client>>
  BY DEF deliveryVars
<1>3. DeliveryTypeOK'
  BY <1>1, <1>2 DEF DeliveryInv, DeliveryTypeOK, ReceiverInv
<1>4. /\ UNCHANGED request
      /\ thread'[q].at # "idle" /\ thread[q].at # "idle"
      /\ \A p \in RequestIds : p # q =>
           thread'[p] = thread[p] /\ response'[p] = response[p]
  <2>1. thread[q].at # "idle"
    BY DEF HandlerStep, Read, Acquire, Store, RejectUpload, RecordEvent, MissingContent,
       RejectEvent, ReplyLocked, Release, Answer
  <2> QED BY <1>1, <2>1, HandlerIsLocal
<1>5. ReceiptsHonest'
  <2>1. \A p \in RequestIds : /\ Honest(thread[p].reply, contents', issued')
                              /\ Honest(response[p], contents', issued')
    BY <1>1, HonestStays DEF DeliveryInv, ReceiptsHonest
  <2>2. response'[q] \in {response[q], thread[q].reply, Status(thread[q].reply.status)}
    BY <1>1, HandlerReplies
  <2>3. Honest(thread'[q].reply, contents', issued')
    <3>1. CASE Store(q)
      <4>1. PICK ref \in Refs :
              /\ <<Scope(request[q]), ref>> \in Stores
              /\ ref \notin issued /\ issued' = issued \cup {ref}
              /\ contents'[<<Scope(request[q]), ref>>] = arrived[q]
              /\ \A k \in Stores : k # <<Scope(request[q]), ref>> =>
                   contents'[k] = contents[k]
              /\ Goto(q, "confirm", [status |-> 201, receipt |-> receipt(ref, arrived[q])])
        BY <1>1, <3>1, StoreFacts
      <4>2. arrived[q] \in Bodies
        BY <1>1, <3>1, StoreFacts
      <4>3. thread'[q].reply.receipt = receipt(ref, arrived[q])
        BY <1>1, <4>1 DEF Goto, ReceiverInv, ReceiverTypeOK
      <4>4. ASSUME NEW scope \in Scopes
            PROVE  contents'[<<scope, ref>>] \in {NoBody, arrived[q]}
        <5>1. <<scope, ref>> \in Stores /\ contents[<<scope, ref>>] = NoBody
          BY <1>1, <4>1 DEF ReceiverInv, KeysIssued, Stores
        <5> QED BY <4>1, <5>1
      <4>5. Names(ref, arrived[q], contents', issued')
        BY <4>1, <4>4 DEF Names
      <4>6. receipt(ref, arrived[q]).ref = ref
        BY DEF receipt
      <4> QED BY <4>2, <4>3, <4>5, <4>6 DEF Honest
    <3>2. CASE ~ Store(q)
      <4>1. \/ thread'[q].reply = thread[q].reply
            \/ thread'[q].reply.receipt = NoReceipt
        BY <1>1, <3>2, HandlerReplies
      <4> QED BY <2>1, <4>1 DEF Honest
    <3> QED BY <3>1, <3>2
  <2>4. \A code : Honest(Status(code), contents', issued')
    BY StatusOfReply DEF Honest
  <2> QED BY <1>4, <2>1, <2>2, <2>3, <2>4 DEF ReceiptsHonest
<1>6. ReferencesHeld'
  BY <1>1, <1>2, NamesStay DEF DeliveryInv, ReferencesHeld
<1>7. \A d \in Deliveries : EventId(d) \in RequestIds /\ EventId(d)' = EventId(d)
  BY <1>2, ConnectionFacts DEF DeliveryInv, EventId
<1>8. EventComplete'
  BY <1>2, <1>4, <1>7 DEF DeliveryInv, EventComplete
<1>9. SuccessRecorded'
  <2>1. SUFFICES ASSUME NEW d \in Deliveries,
                        \/ thread'[EventId(d)].reply.status = 204
                        \/ response'[EventId(d)].status = 204
                        \/ client[d] = "done"
                 PROVE  \E n \in 1..Len(events') : events'[n].request = EventId(d)
    BY <1>2, <1>7 DEF SuccessRecorded, Recorded
  <2>2. CASE Recorded(d)
    <3>1. PICK n \in 1..Len(events) : events[n].request = EventId(d)
      BY <2>2 DEF Recorded
    <3>2. n \in 1..Len(events') /\ events'[n] = events[n]
      BY <1>1, <3>1 DEF Kept, ReceiverInv, ReceiverTypeOK
    <3> QED BY <3>1, <3>2
  <2>3. CASE EventId(d) = q /\ RecordEvent(q)
    <3>1. events' = Append(events, [request |-> q, scope |-> Scope(request[q]),
                                    refs |-> request[q].refs])
      BY <2>3 DEF RecordEvent
    <3>2. /\ Len(events) + 1 \in 1..Len(events')
          /\ events'[Len(events) + 1].request = q
      BY <1>1, <3>1 DEF ReceiverInv, ReceiverTypeOK
    <3> QED BY <2>3, <3>2
  <2>4. CASE EventId(d) # q
    BY <1>4, <1>7, <2>1, <2>2, <2>4 DEF DeliveryInv, SuccessRecorded
  <2>5. CASE EventId(d) = q /\ ~ RecordEvent(q)
    <3>1. \/ thread'[q].reply = thread[q].reply
          \/ thread'[q].reply.status # 204
      BY <1>1, <2>5, HandlerReplies, StoreReplies
    <3>2. response'[q].status \in {response[q].status, thread[q].reply.status}
      BY <1>1, HandlerReplies, StatusOfReply
    <3> QED BY <2>1, <2>2, <2>5, <3>1, <3>2 DEF DeliveryInv, SuccessRecorded
  <2> QED BY <2>2, <2>3, <2>4, <2>5
<1> QED BY <1>1, <1>3, <1>5, <1>6, <1>8, <1>9 DEF DeliveryInv

(* A connection is opened: an event's only with all its references.        *)
LEMMA ConnectKeepsDeliveryInv ==
  ASSUME DeliveryInv, NEW q \in RequestIds, NEW r \in Requests, Connect(q, r),
         UNCHANGED <<config, refs>>,
         client' \in [Deliveries -> {"sending", "posted", "done", "failed"}],
         \A c \in Deliveries : client'[c] = "done" => client[c] = "done",
         \A c \in Deliveries : EventId(c) = q =>
           Len(refs[c]) = Len(config[c].items) /\ r.refs = refs[c]
  PROVE  DeliveryInv'
<1>1. ReceiverInv /\ ReceiverInv'
  BY ConnectStep DEF DeliveryInv
<1>2. /\ UNCHANGED <<response, contents, events, issued>>
      /\ thread' = [thread EXCEPT ![q] = [at |-> "reading", reply |-> NoReply]]
      /\ request' = [request EXCEPT ![q] = r]
  BY DEF Connect, Goto, stored
<1>3. /\ thread'[q].reply = NoReply /\ request'[q] = r
      /\ \A p \in RequestIds : p # q =>
           thread'[p] = thread[p] /\ request'[p] = request[p]
  BY <1>1, <1>2 DEF ReceiverInv, ReceiverTypeOK
<1>4. DeliveryTypeOK'
  BY <1>1 DEF DeliveryInv, DeliveryTypeOK, ReceiverInv
<1>5. ReceiptsHonest'
  BY <1>2, <1>3, StatusOfReply DEF DeliveryInv, ReceiptsHonest, Honest
<1>6. ReferencesHeld'
  BY <1>2 DEF DeliveryInv, ReferencesHeld
<1>7. \A d \in Deliveries : EventId(d) \in RequestIds /\ EventId(d)' = EventId(d)
  BY ConnectionFacts DEF DeliveryInv, EventId
<1>8. EventComplete'
  BY <1>3, <1>7 DEF DeliveryInv, EventComplete
<1>9. \A d \in Deliveries : Recorded(d)' = Recorded(d)
  BY <1>2, <1>7 DEF Recorded
<1>10. SuccessRecorded'
  BY <1>2, <1>3, <1>7, <1>9, StatusOfReply DEF DeliveryInv, SuccessRecorded
<1> QED BY <1>1, <1>4, <1>5, <1>6, <1>8, <1>10 DEF DeliveryInv

(* A call ends, or waits for another server.                               *)
LEMMA ClientKeepsDeliveryInv ==
  ASSUME DeliveryInv, UNCHANGED <<receiverVars, config, refs>>,
         client' \in [Deliveries -> {"sending", "posted", "done", "failed"}],
         \A c \in Deliveries : client'[c] = "done" => Recorded(c)
  PROVE  DeliveryInv'
<1>1. /\ ReceiverInv' /\ DeliveryTypeOK'
      /\ UNCHANGED <<request, thread, response, contents, events, issued>>
  BY ReceiverStutter DEF DeliveryInv, DeliveryTypeOK, ReceiverInv, receiverVars, stored
<1>2. ReceiptsHonest' /\ ReferencesHeld'
  BY <1>1 DEF DeliveryInv, ReceiptsHonest, ReferencesHeld
<1>3. \A d \in Deliveries : EventId(d)' = EventId(d) /\ Recorded(d)' = Recorded(d)
  BY <1>1 DEF EventId, Recorded
<1>4. EventComplete' /\ SuccessRecorded'
  BY <1>1, <1>3 DEF DeliveryInv, EventComplete, SuccessRecorded
<1> QED BY <1>1, <1>2, <1>4 DEF DeliveryInv

(* An upload is confirmed: its reference names the attachment.             *)
LEMMA ConfirmedKeepsDeliveryInv ==
  ASSUME DeliveryInv, NEW d \in Deliveries, Confirmed(d)
  PROVE  DeliveryInv'
<1> DEFINE ref == response[Slot(d)].receipt.ref
<1>1. /\ client[d] = "posted" /\ Uploading(d)
      /\ Confirms(response[Slot(d)], Item(d))
      /\ refs' = [refs EXCEPT ![d] = Append(@, ref)]
      /\ client' = [client EXCEPT ![d] = "sending"]
      /\ UNCHANGED <<receiverVars, config>>
  BY DEF Confirmed, ClientTo
<1>2. Slot(d) \in RequestIds /\ Item(d) \in Bodies
  BY <1>1, ConnectionFacts, RequestFacts DEF DeliveryInv
<1>3. ref \in Refs /\ Names(ref, Item(d), contents, issued)
  BY <1>1, <1>2, ConfirmationNames
     DEF DeliveryInv, ReceiptsHonest, ReceiverInv, ReceiverTypeOK
<1>4. /\ refs[d] \in Seq(Refs) /\ config[d].items \in Seq(Bodies)
      /\ Len(refs[d]) \in Nat /\ Len(config[d].items) \in Nat
      /\ refs \in [Deliveries -> Seq(Refs)]
  BY ConfigFacts DEF DeliveryInv, DeliveryTypeOK
<1>5. /\ refs'[d] = Append(refs[d], ref)
      /\ \A c \in Deliveries : c # d => refs'[c] = refs[c]
      /\ refs' \in [Deliveries -> Seq(Refs)]
  BY <1>1, <1>3, <1>4
<1>6. /\ ReceiverInv'
      /\ UNCHANGED <<request, thread, response, contents, events, issued>>
  BY <1>1, ReceiverStutter DEF DeliveryInv, receiverVars, stored
<1>7. DeliveryTypeOK'
  BY <1>1, <1>5, <1>6 DEF DeliveryInv, DeliveryTypeOK, ReceiverInv
<1>8. ReceiptsHonest'
  BY <1>6 DEF DeliveryInv, ReceiptsHonest
<1>9. ReferencesHeld'
  <2>1. SUFFICES ASSUME NEW c \in Deliveries
                 PROVE  /\ Len(refs'[c]) <= Len(config[c].items)
                        /\ \A i \in 1..Len(refs'[c]) :
                             Names(refs'[c][i], config[c].items[i], contents, issued)
    BY <1>1, <1>6 DEF ReferencesHeld
  <2>2. CASE c # d
    BY <1>5, <2>2 DEF DeliveryInv, ReferencesHeld
  <2>3. CASE c = d
    <3>1. Len(refs'[d]) = Len(refs[d]) + 1 /\ Len(refs[d]) < Len(config[d].items)
      BY <1>1, <1>4, <1>5 DEF Uploading
    <3>2. ASSUME NEW i \in 1..Len(refs[d])
          PROVE  Names(refs'[d][i], config[d].items[i], contents, issued)
      <4>1. refs'[d][i] = refs[d][i]
        BY <1>4, <1>5
      <4> QED BY <4>1 DEF DeliveryInv, ReferencesHeld
    <3>3. refs'[d][Len(refs[d]) + 1] = ref /\ config[d].items[Len(refs[d]) + 1] = Item(d)
      BY <1>4, <1>5 DEF Item
    <3> QED BY <1>3, <1>4, <2>3, <3>1, <3>2, <3>3
  <2> QED BY <2>2, <2>3
<1>10. \A c \in Deliveries : EventId(c)' = EventId(c) /\ Recorded(c)' = Recorded(c)
  BY <1>1, <1>6 DEF EventId, Recorded
<1>11. EventComplete'
  BY <1>1, <1>4, <1>5, <1>6, <1>10 DEF DeliveryInv, EventComplete, Uploading
<1>12. SuccessRecorded'
  BY <1>1, <1>6, <1>10 DEF DeliveryInv, SuccessRecorded, DeliveryTypeOK
<1> QED BY <1>6, <1>7, <1>8, <1>9, <1>11, <1>12 DEF DeliveryInv

(* Another server confirms under a reference no one else has.              *)
LEMMA ForeignKeepsDeliveryInv ==
  ASSUME DeliveryInv, NEW d \in Deliveries, ForeignReply(d)
  PROVE  DeliveryInv'
<1>1. PICK status \in {201, 204, 400}, ref \in Refs \ issued, body \in Bodies :
        /\ response' = [response EXCEPT ![Slot(d)] =
                          [status |-> status, receipt |-> receipt(ref, body)]]
        /\ issued' = issued \cup {ref}
  BY DEF ForeignReply
<1>2. /\ UNCHANGED <<request, thread, arrived, lock, contents, receipts, events, trace>>
      /\ UNCHANGED <<config, refs, client>> /\ Uploading(d)
  BY DEF ForeignReply, stored, deliveryVars
<1>3. Slot(d) \in RequestIds /\ \A c \in Deliveries : EventId(c) # Slot(d)
  BY <1>2, ConnectionFacts DEF DeliveryInv
<1>4. /\ receipt(ref, body) \in Receipts
      /\ receipt(ref, body).ref = ref
  BY ReceiptFacts
<1>5. ReceiverInv'
  <2>1. ReceiverTypeOK'
    <3>1. [status |-> status, receipt |-> receipt(ref, body)] \in Replies
      BY <1>4 DEF Replies
    <3>2. response' \in [RequestIds -> Replies]
      BY <1>1, <3>1 DEF DeliveryInv, ReceiverInv, ReceiverTypeOK
    <3>3. issued' \subseteq Refs
      BY <1>1 DEF DeliveryInv, ReceiverInv, ReceiverTypeOK
    <3> QED BY <1>2, <3>2, <3>3 DEF DeliveryInv, ReceiverInv, ReceiverTypeOK
  <2>2. KeysIssued'
    BY <1>1, <1>2 DEF DeliveryInv, ReceiverInv, KeysIssued
  <2>3. LockHeld' /\ Admitted' /\ StoreIntegrity' /\ UploadsTraced'
    BY <1>2 DEF DeliveryInv, ReceiverInv, LockHeld, Admitted, StoreIntegrity, UploadsTraced
  <2>4. EventRecords' /\ EventsTraced' /\ EventsFollowUploads'
    BY <1>2 DEF DeliveryInv, ReceiverInv, EventRecords, EventsTraced, EventsFollowUploads
  <2> QED BY <2>1, <2>2, <2>3, <2>4 DEF ReceiverInv
<1>6. DeliveryTypeOK'
  BY <1>2, <1>5 DEF DeliveryInv, DeliveryTypeOK, ReceiverInv
<1>7. /\ response'[Slot(d)] = [status |-> status, receipt |-> receipt(ref, body)]
      /\ \A p \in RequestIds : p # Slot(d) => response'[p] = response[p]
  BY <1>1, <1>3 DEF DeliveryInv, ReceiverInv, ReceiverTypeOK
<1>8. contents' = contents /\ issued \subseteq issued'
  BY <1>1, <1>2
<1>9. Names(ref, body, contents', issued')
  <2>1. ASSUME NEW scope \in Scopes PROVE contents[<<scope, ref>>] = NoBody
    <3>1. <<scope, ref>> \in Stores /\ ref \notin issued
      BY DEF Stores
    <3> QED BY <3>1 DEF DeliveryInv, ReceiverInv, KeysIssued
  <2> QED BY <1>1, <1>8, <2>1 DEF Names
<1>10. Honest(response'[Slot(d)], contents', issued')
  BY <1>4, <1>7, <1>9 DEF Honest
<1>11. \A p \in RequestIds : /\ Honest(thread[p].reply, contents', issued')
                             /\ Honest(response[p], contents', issued')
  BY <1>8, HonestStays DEF DeliveryInv, ReceiptsHonest
<1>12. ReceiptsHonest'
  BY <1>2, <1>7, <1>10, <1>11 DEF ReceiptsHonest
<1>13. ReferencesHeld'
  BY <1>2, <1>8, NamesStay DEF DeliveryInv, ReferencesHeld
<1>14. \A c \in Deliveries : EventId(c)' = EventId(c) /\ Recorded(c)' = Recorded(c)
  BY <1>2 DEF EventId, Recorded
<1>15. \A c \in Deliveries : EventId(c) \in RequestIds
  BY ConnectionFacts DEF DeliveryInv
<1>16. EventComplete' /\ SuccessRecorded'
  BY <1>2, <1>3, <1>7, <1>14, <1>15 DEF DeliveryInv, EventComplete, SuccessRecorded
<1> QED BY <1>5, <1>6, <1>12, <1>13, <1>16 DEF DeliveryInv

LEMMA DeliveryStep ==
  ASSUME DeliveryInv, [Next]_vars
  PROVE  DeliveryInv'
<1> USE DEF ClientTo
<1>1. /\ client \in [Deliveries -> {"sending", "posted", "done", "failed"}]
      /\ \A c \in Deliveries : client[c] = "done" => Recorded(c)
  BY DEF DeliveryInv, DeliveryTypeOK, SuccessRecorded
<1>2. CASE UNCHANGED vars
  BY <1>1, <1>2, ClientKeepsDeliveryInv DEF vars, deliveryVars
<1>3. ASSUME NEW d \in Deliveries, TooLarge(d) \/ Unconfirmed(d) \/ Raise(d)
      PROVE  DeliveryInv'
  BY <1>1, <1>3, ClientKeepsDeliveryInv DEF TooLarge, Unconfirmed, Raise
<1>4. ASSUME NEW d \in Deliveries, PostUpload(d)
      PROVE  DeliveryInv'
  <2>1. CASE config[d].foreign
    BY <1>1, <1>4, <2>1, ClientKeepsDeliveryInv DEF PostUpload
  <2>2. CASE ~ config[d].foreign
    <3>1. /\ Connect(Slot(d), UploadRequest(d)) /\ UNCHANGED <<config, refs>>
          /\ client' \in [Deliveries -> {"sending", "posted", "done", "failed"}]
          /\ \A c \in Deliveries : client'[c] = "done" => client[c] = "done"
      BY <1>1, <1>4, <2>2 DEF PostUpload
    <3>2. UploadRequest(d) \in Requests /\ Slot(d) \in RequestIds
      BY <1>4, RequestFacts, ConnectionFacts DEF DeliveryInv, PostUpload
    <3>3. \A c \in Deliveries : EventId(c) # Slot(d)
      BY <1>4, ConnectionFacts DEF DeliveryInv, PostUpload
    <3> QED BY <3>1, <3>2, <3>3, ConnectKeepsDeliveryInv
  <2> QED BY <2>1, <2>2
<1>5. ASSUME NEW d \in Deliveries, PostEvent(d)
      PROVE  DeliveryInv'
  <2>1. /\ Connect(Slot(d), EventRequest(d)) /\ UNCHANGED <<config, refs>>
        /\ client' \in [Deliveries -> {"sending", "posted", "done", "failed"}]
        /\ \A c \in Deliveries : client'[c] = "done" => client[c] = "done"
    BY <1>1, <1>5 DEF PostEvent
  <2>2. /\ EventRequest(d) \in Requests /\ Slot(d) \in RequestIds
        /\ EventRequest(d).refs = refs[d]
    BY RequestFacts, ConnectionFacts DEF DeliveryInv
  <2>3. Len(refs[d]) = Len(config[d].items)
    BY <1>5, ConfigFacts
       DEF PostEvent, Uploading, DeliveryInv, ReferencesHeld, DeliveryTypeOK
  <2>4. \A c \in Deliveries : EventId(c) = Slot(d) => c = d
    BY ConnectionFacts DEF DeliveryInv
  <2> QED BY <2>1, <2>2, <2>3, <2>4, ConnectKeepsDeliveryInv
<1>6. ASSUME NEW d \in Deliveries, EventAnswered(d)
      PROVE  DeliveryInv'
  <2>1. Slot(d) = EventId(d)
    BY <1>6, ConnectionFacts DEF DeliveryInv, EventAnswered
  <2>2. \A c \in Deliveries : client'[c] = "done" => Recorded(c)
    BY <1>1, <1>6, <2>1 DEF EventAnswered, DeliveryInv, SuccessRecorded
  <2> QED BY <1>1, <1>6, <2>2, ClientKeepsDeliveryInv DEF EventAnswered
<1>7. ASSUME NEW q \in Strangers, NEW r \in Posts, Connect(q, r), UNCHANGED deliveryVars
      PROVE  DeliveryInv'
  <2>1. q \in RequestIds /\ r \in Requests /\ \A c \in Deliveries : EventId(c) # q
    BY <1>7, PostsAssumption, ConnectionFacts DEF DeliveryInv, Strangers
  <2> QED BY <1>1, <1>7, <2>1, ConnectKeepsDeliveryInv DEF deliveryVars
<1> QED BY <1>2, <1>3, <1>4, <1>5, <1>6, <1>7, ConfirmedKeepsDeliveryInv,
           ForeignKeepsDeliveryInv, HandlerKeepsDeliveryInv DEF Next, ClientStep

(* The inductive invariant of senders and receiver together.               *)
THEOREM DeliveryInvariant == Spec => []DeliveryInv
<1>1. DeliveryInv /\ [Next]_vars => DeliveryInv'
  BY DeliveryStep
<1> QED BY <1>1, DeliveryStart, PTL DEF Spec

(* The variables of senders and receiver keep their types.                 *)
THEOREM DeliveryTypeCorrect == Spec => []DeliveryTypeOK
<1>1. DeliveryInv => DeliveryTypeOK
  BY DEF DeliveryInv
<1> QED BY <1>1, DeliveryInvariant, PTL

(* No sender ever holds a reference to bytes other than its own.           *)
THEOREM ReferencesAlwaysNameOwnBytes == Spec => []ReferencesNameOwnBytes
<1>1. DeliveryInv => ReferencesNameOwnBytes
  BY DEF DeliveryInv, ReferencesHeld, Names, ReferencesNameOwnBytes
<1> QED BY <1>1, DeliveryInvariant, PTL

-----------------------------------------------------------------------------
(* Only the handler of d's event, and only once, records it.               *)
LEMMA RecordingStep ==
  ASSUME DeliveryInv, NEW q \in RequestIds, RecordEvent(q), UNCHANGED deliveryVars,
         NEW d \in Deliveries
  PROVE  /\ Recorded(d)' <=> Recorded(d) \/ q = EventId(d)
         /\ q = EventId(d) => ~ Recorded(d)
<1>1. /\ events' = Append(events, [request |-> q, scope |-> Scope(request[q]),
                                   refs |-> request[q].refs])
      /\ thread[q].at = "locked"
  BY DEF RecordEvent
<1>2. /\ events \in Seq([request : RequestIds, scope : Scopes, refs : Seq(Refs)])
      /\ Len(events) \in Nat
      /\ EventId(d)' = EventId(d)
  BY DEF DeliveryInv, ReceiverInv, ReceiverTypeOK, deliveryVars, EventId
<1>3. /\ Len(events') = Len(events) + 1
      /\ events'[Len(events) + 1].request = q
      /\ \A n \in 1..Len(events) : events'[n] = events[n]
  BY <1>1, <1>2
<1>4. Recorded(d)' <=> Recorded(d) \/ q = EventId(d)
  <2>1. 1..Len(events') = 1..Len(events) \cup {Len(events) + 1}
    BY <1>2, <1>3
  <2>2. Recorded(d)' <=> \E n \in 1..Len(events') : events'[n].request = EventId(d)
    BY <1>2 DEF Recorded
  <2> QED BY <1>3, <2>1, <2>2 DEF Recorded
<1>5. q = EventId(d) => ~ Recorded(d)
  <2>1. \A n \in 1..Len(events) : thread[events[n].request].at \in {"answering", "ended"}
    BY DEF DeliveryInv, ReceiverInv, EventRecords, Past
  <2>2. thread[q].at \notin {"answering", "ended"}
    BY DEF RecordEvent
  <2> QED BY <2>1, <2>2 DEF Recorded
<1> QED BY <1>4, <1>5

(* Every other step leaves the recorded events alone.                      *)
LEMMA OtherSteps ==
  ASSUME DeliveryInv, [Next]_vars,
         ~ \E q \in RequestIds : RecordEvent(q) /\ UNCHANGED deliveryVars
  PROVE  UNCHANGED <<events, config>>
<1>1. CASE UNCHANGED vars
  BY <1>1 DEF vars, receiverVars, stored, deliveryVars
<1>2. ASSUME NEW d \in Deliveries, ClientStep(d)
      PROVE  UNCHANGED <<events, config>>
  BY <1>2 DEF ClientStep, TooLarge, PostUpload, Confirmed, Unconfirmed, PostEvent,
     EventAnswered, Raise, Connect, receiverVars, stored
<1>3. ASSUME NEW d \in Deliveries, ForeignReply(d)
      PROVE  UNCHANGED <<events, config>>
  BY <1>3 DEF ForeignReply, stored, deliveryVars
<1>4. ASSUME NEW q \in RequestIds, NEW r, Connect(q, r), UNCHANGED deliveryVars
      PROVE  UNCHANGED <<events, config>>
  BY <1>4 DEF Connect, stored, deliveryVars
<1>5. ASSUME NEW q \in RequestIds, HandlerStep(q), UNCHANGED deliveryVars
      PROVE  UNCHANGED <<events, config>>
  BY <1>5 DEF HandlerStep, Read, Acquire, Store, RejectUpload, MissingContent,
     RejectEvent, ReplyLocked, Release, Answer, stored, deliveryVars
<1> QED BY <1>1, <1>2, <1>3, <1>4, <1>5 DEF Next, Strangers

(* Only the answer to d's event lets d return normally, and it stays so.   *)
LEMMA ReturningStep ==
  ASSUME DeliveryInv, [Next]_vars
  PROVE  \/ client' = client
         \/ \E d \in Deliveries :
              /\ client[d] # "done" /\ UNCHANGED <<receiverVars, config, refs>>
              /\ client' = [client EXCEPT ![d] = "done"]
         \/ \E d \in Deliveries, state \in {"sending", "posted", "failed"} :
              client[d] # "done" /\ client' = [client EXCEPT ![d] = state]
<1>1. CASE UNCHANGED client
  BY <1>1
<1>2. ASSUME NEW d \in Deliveries, EventAnswered(d)
      PROVE  /\ client[d] # "done"
             /\ UNCHANGED <<receiverVars, config, refs>>
             /\ \/ client' = [client EXCEPT ![d] = "done"]
                \/ client' = [client EXCEPT ![d] = "failed"]
  BY <1>2 DEF EventAnswered, ClientTo
<1>3. ASSUME NEW d \in Deliveries, ClientStep(d), ~ EventAnswered(d)
      PROVE  \E state \in {"sending", "posted", "failed"} :
               client[d] # "done" /\ client' = [client EXCEPT ![d] = state]
  BY <1>3 DEF ClientStep, TooLarge, PostUpload, Confirmed, Unconfirmed, PostEvent,
     Raise, ClientTo
<1>4. CASE \A d \in Deliveries : ~ ClientStep(d)
  BY <1>4 DEF Next, ForeignReply, vars, deliveryVars
<1> QED BY <1>2, <1>3, <1>4

Attached     == [d \in Deliveries |-> config[d].items]
Published    == [d \in Deliveries |-> IF Recorded(d) THEN Resolved(d) ELSE Unpublished]
Acknowledged == {d \in Deliveries : client[d] = "done"}

(* Under the invariant the published contents are the attached ones.       *)
LEMMA PublishedIsAttached ==
  DeliveryInv => Published = [d \in Deliveries |->
                   IF Recorded(d) THEN config[d].items ELSE Unpublished]
BY ResolvedIsAttached DEF Published

LEMMA AttachedIsNoMarker ==
  ASSUME DeliveryInv, NEW d \in Deliveries
  PROVE  config[d].items # Unpublished
BY ConfigFacts, UnpublishedAssumption DEF DeliveryInv, DeliveryTypeOK

(* A recorded event is a publication of the attached bytes; the answer to  *)
(* it an acknowledgement; everything else leaves the abstract state alone. *)
LEMMA StepMaps ==
  ASSUME DeliveryInv, DeliveryInv', [Next]_vars
  PROVE  [\E d \in Deliveries :
            \/ /\ Published[d] = Unpublished
               /\ Published' = [Published EXCEPT ![d] = Attached[d]]
               /\ UNCHANGED <<Attached, Acknowledged>>
            \/ /\ Published[d] # Unpublished
               /\ Acknowledged' = Acknowledged \cup {d}
               /\ UNCHANGED <<Attached, Published>>]_<<Attached, Published, Acknowledged>>
<1>1. Published = [d \in Deliveries |-> IF Recorded(d) THEN config[d].items ELSE Unpublished]
  BY PublishedIsAttached
<1>2. (Published = [d \in Deliveries |->
         IF Recorded(d) THEN config[d].items ELSE Unpublished])'
  BY PublishedIsAttached, PTL
<1>3. client \in [Deliveries -> {"sending", "posted", "done", "failed"}]
  BY DEF DeliveryInv, DeliveryTypeOK
<1>4. CASE \E q \in RequestIds : RecordEvent(q) /\ UNCHANGED deliveryVars
  <2>1. PICK q \in RequestIds : RecordEvent(q) /\ UNCHANGED deliveryVars
    BY <1>4
  <2>2. UNCHANGED <<config, client>> /\ UNCHANGED <<Attached, Acknowledged>>
    BY <2>1 DEF deliveryVars, Attached, Acknowledged
  <2>3. \A d \in Deliveries : /\ Recorded(d)' <=> Recorded(d) \/ q = EventId(d)
                              /\ q = EventId(d) => ~ Recorded(d)
    BY <2>1, RecordingStep
  <2>4. CASE \E d \in Deliveries : q = EventId(d)
    <3>1. PICK d \in Deliveries : q = EventId(d)
      BY <2>4
    <3>2. \A c \in Deliveries : q = EventId(c) <=> c = d
      BY <3>1, ConnectionFacts DEF DeliveryInv
    <3>3. Published[d] = Unpublished
      BY <1>1, <2>3, <3>1
    <3>4. Published' = [Published EXCEPT ![d] = Attached[d]]
      <4>1. Published' = [c \in Deliveries |->
                            IF Recorded(c) \/ c = d THEN config[c].items ELSE Unpublished]
        BY <1>2, <2>2, <2>3, <3>2
      <4> QED BY <1>1, <4>1 DEF Attached
    <3> QED BY <2>2, <3>3, <3>4
  <2>5. CASE ~ \E d \in Deliveries : q = EventId(d)
    <3>1. UNCHANGED Published
      BY <1>1, <1>2, <2>2, <2>3, <2>5
    <3> QED BY <2>2, <3>1
  <2> QED BY <2>4, <2>5
<1>5. CASE ~ \E q \in RequestIds : RecordEvent(q) /\ UNCHANGED deliveryVars
  <2>1. UNCHANGED <<events, config>>
    BY <1>5, OtherSteps
  <2>2. \A d \in Deliveries : Recorded(d)' <=> Recorded(d)
    BY <2>1 DEF Recorded, EventId
  <2>3. UNCHANGED <<Attached, Published>>
    BY <1>1, <1>2, <2>1, <2>2 DEF Attached
  <2>4. CASE UNCHANGED client
    BY <2>3, <2>4 DEF Acknowledged
  <2>5. ASSUME NEW d \in Deliveries, client' = [client EXCEPT ![d] = "done"]
        PROVE  \E c \in Deliveries : /\ Published[c] # Unpublished
                                     /\ Acknowledged' = Acknowledged \cup {c}
    <3>1. Acknowledged' = Acknowledged \cup {d}
      BY <1>3, <2>5 DEF Acknowledged
    <3>2. client'[d] = "done"
      BY <1>3, <2>5
    <3>3. Recorded(d)
      BY <2>2, <3>2 DEF DeliveryInv, SuccessRecorded
    <3> QED BY <1>1, <3>1, <3>3, AttachedIsNoMarker
  <2>6. ASSUME NEW d \in Deliveries, NEW state \in {"sending", "posted", "failed"},
               client[d] # "done", client' = [client EXCEPT ![d] = state]
        PROVE  UNCHANGED Acknowledged
    BY <1>3, <2>6 DEF Acknowledged
  <2> QED BY <2>3, <2>4, <2>5, <2>6, ReturningStep
<1> QED BY <1>4, <1>5

(* Uploads, confirmations and the event post together publish exactly what *)
(* was attached, at most once, before success is reported.                 *)
THEOREM DeliveryPublishes == Spec => PublishesWhatWasAttached
<1>1. DeliveryInit => Publication!PInit
  BY DEF DeliveryInit, ReceiverInit, Publication!PInit, Recorded
<1>2. DeliveryInv /\ DeliveryInv' /\ [Next]_vars
        => [Publication!PNext]_(Publication!pubVars)
  BY StepMaps DEF Publication!PNext, Publication!Publish, Publication!Acknowledge,
     Publication!pubVars, Attached, Published, Acknowledged
<1> QED BY <1>1, <1>2, DeliveryInvariant, PTL
        DEF Spec, PublishesWhatWasAttached, Publication!PSpec
==================================================================================
