---------------------------- MODULE ContentDelivery ----------------------------
(***************************************************************************)
(* Calls of deliver (interop/content_upload.py) against the receiver, next *)
(* to arbitrary other clients: each call uploads the bytes of every        *)
(* attachment, checks the receiver's confirmation, and posts the event     *)
(* with the confirmed references.  A call may fail between any two posts,  *)
(* and a post may time out while the receiver still works on it.           *)
(***************************************************************************)
EXTENDS ContentReceiver

CONSTANTS
  Deliveries,     \* calls of deliver
  Configs,        \* their arguments and local configuration
  MaxAttachments, \* bound on the attachments of one event
  EventSize,      \* octets of an event message
  Unpublished

(* The n-th post of a delivery is a connection of its own.                 *)
PostIds == Deliveries \X (1..(MaxAttachments + 1))
Strangers == RequestIds \ PostIds

Attachments == {s \in Seq(Bodies) : Len(s) <= MaxAttachments}

ASSUME DeliveryAssumption ==
  /\ MaxAttachments \in Nat
  /\ EventSize \in Nat
  /\ PostIds \subseteq RequestIds
  /\ Configs \subseteq
       [items : Attachments, uploadAuth : Tokens, eventAuth : Tokens,
        maxBytes : Nat, foreign : BOOLEAN]
ASSUME UnpublishedAssumption == Unpublished \notin Seq(Bodies)

VARIABLES
  config,   \* the arguments of each call
  refs,     \* the canonical references confirmed so far
  client    \* where the call is

deliveryVars == <<config, refs, client>>
vars == <<receiverVars, deliveryVars>>

DeliveryTypeOK ==
  /\ ReceiverTypeOK
  /\ config \in [Deliveries -> Configs]
  /\ refs \in [Deliveries -> Seq(Refs)]
  /\ client \in [Deliveries -> {"sending", "posted", "done", "failed"}]

DeliveryInit ==
  /\ ReceiverInit
  /\ config \in [Deliveries -> Configs]
  /\ refs = [d \in Deliveries |-> <<>>]
  /\ client = [d \in Deliveries |-> "sending"]

-----------------------------------------------------------------------------
(* deliver's loop: the next attachment, or the event when there is none.   *)
Slot(d)      == <<d, Len(refs[d]) + 1>>
EventId(d)   == <<d, Len(config[d].items) + 1>>
Uploading(d) == Len(refs[d]) < Len(config[d].items)
Item(d)      == config[d].items[Len(refs[d]) + 1]

UploadRequest(d) ==
  [path |-> "upload", auth |-> config[d].uploadAuth, headers |-> TRUE,
   payload |-> TRUE, size |-> Size[Item(d)], sha256 |-> Sha256[Item(d)],
   body |-> Item(d), refs |-> <<>>]

EventRequest(d) ==
  [path |-> "event", auth |-> config[d].eventAuth, headers |-> TRUE,
   payload |-> TRUE, size |-> EventSize, sha256 |-> NoBody, body |-> NoBody,
   refs |-> refs[d]]

ClientTo(d, state) == client' = [client EXCEPT ![d] = state]

(* upload refuses a body over the configured bound before any connection.  *)
TooLarge(d) ==
  /\ client[d] = "sending" /\ Uploading(d)
  /\ Size[Item(d)] > config[d].maxBytes
  /\ ClientTo(d, "failed")
  /\ UNCHANGED <<receiverVars, config, refs>>

(* The upload endpoint is configured apart from the event endpoint: it may *)
(* be another server than the receiver of the event.                       *)
PostUpload(d) ==
  /\ client[d] = "sending" /\ Uploading(d)
  /\ Size[Item(d)] <= config[d].maxBytes
  /\ IF config[d].foreign THEN UNCHANGED receiverVars
     ELSE Connect(Slot(d), UploadRequest(d))
  /\ ClientTo(d, "posted")
  /\ UNCHANGED <<config, refs>>

(* Another server replies to an upload with any status and any receipt     *)
(* for a reference of its own.                                             *)
ForeignReply(d) ==
  /\ client[d] = "posted" /\ Uploading(d) /\ config[d].foreign
  /\ response[Slot(d)] = NoReply
  /\ \E status \in {201, 204, 400}, ref \in Refs \ issued, body \in Bodies :
       /\ response' = [response EXCEPT ![Slot(d)] =
                         [status |-> status, receipt |-> receipt(ref, body)]]
       /\ issued' = issued \cup {ref}
  /\ UNCHANGED <<request, thread, arrived, lock, stored, deliveryVars>>

(* Only a 201 whose receipt has the size and digest of the bytes sent      *)
(* confirms an upload; its reference replaces the local one.               *)
Confirms(reply, body) ==
  /\ reply.status = 201
  /\ reply.receipt # NoReceipt
  /\ reply.receipt = receipt(reply.receipt.ref, body)

\* mutant of Confirmed: the references end up in reverse order
ConfirmedReversed(d) ==
  /\ client[d] = "posted" /\ Uploading(d)
  /\ Confirms(response[Slot(d)], Item(d))
  /\ refs' = [refs EXCEPT ![d] = <<response[Slot(d)].receipt.ref>> \o @]
  /\ ClientTo(d, "sending")
  /\ UNCHANGED <<receiverVars, config>>

Confirmed(d) ==
  /\ client[d] = "posted" /\ Uploading(d)
  /\ Confirms(response[Slot(d)], Item(d))
  /\ refs' = [refs EXCEPT ![d] = Append(@, response[Slot(d)].receipt.ref)]
  /\ ClientTo(d, "sending")
  /\ UNCHANGED <<receiverVars, config>>

Unconfirmed(d) ==
  /\ client[d] = "posted" /\ Uploading(d)
  /\ response[Slot(d)] # NoReply
  /\ ~ Confirms(response[Slot(d)], Item(d))
  /\ ClientTo(d, "failed")
  /\ UNCHANGED <<receiverVars, config, refs>>

PostEvent(d) ==
  /\ client[d] = "sending" /\ ~ Uploading(d)
  /\ Connect(Slot(d), EventRequest(d))
  /\ ClientTo(d, "posted")
  /\ UNCHANGED <<config, refs>>

EventAnswered(d) ==
  /\ client[d] = "posted" /\ ~ Uploading(d)
  /\ response[Slot(d)] # NoReply
  /\ ClientTo(d, IF response[Slot(d)].status = 204 THEN "done" ELSE "failed")
  /\ UNCHANGED <<receiverVars, config, refs>>

\* mutant of Raise: upload posts have no timeout
RaiseUnlessUploading(d) ==
  /\ client[d] = "sending" \/ (client[d] = "posted" /\ ~ Uploading(d))
  /\ ClientTo(d, "failed")
  /\ UNCHANGED <<receiverVars, config, refs>>

(* deliver raises of itself: before a post, when a message, a receipt or   *)
(* the configuration is not valid, the bytes or the credential are missing *)
(* or the endpoint is refused; after it, when urlopen gives up (timeout,   *)
(* reset, redirect) while the handler may still be at work, or when the    *)
(* response is refused for its form.  The exception ends the call.         *)
Raise(d) ==
  /\ client[d] \in {"sending", "posted"}
  /\ ClientTo(d, "failed")
  /\ UNCHANGED <<receiverVars, config, refs>>

ClientStep(d) ==
  \/ TooLarge(d) \/ PostUpload(d) \/ Confirmed(d) \/ Unconfirmed(d)
  \/ PostEvent(d) \/ EventAnswered(d) \/ Raise(d)

Next ==
  \/ \E d \in Deliveries : ClientStep(d) \/ ForeignReply(d)
  \/ \E q \in Strangers, r \in Posts : Connect(q, r) /\ UNCHANGED deliveryVars
  \/ \E q \in RequestIds : HandlerStep(q) /\ UNCHANGED deliveryVars

(* Clients run and their posts have timeouts; handler threads run.  Other  *)
(* servers and strangers owe nothing.                                      *)
Spec ==
  /\ DeliveryInit
  /\ [][Next]_vars
  /\ \A d \in Deliveries : WF_vars(ClientStep(d))
  /\ \A q \in RequestIds : WF_vars(HandlerStep(q) /\ UNCHANGED deliveryVars)

-----------------------------------------------------------------------------
(* The bytes the receiver resolves for a recorded event of d.              *)
Recorded(d) == \E n \in 1..Len(events) : events[n].request = EventId(d)

Resolved(d) ==
  LET event == events[CHOOSE n \in 1..Len(events) : events[n].request = EventId(d)]
  IN  [i \in 1..Len(event.refs) |-> contents[<<event.scope, event.refs[i]>>]]

Publication == INSTANCE ContentPublication WITH
  attached     <- [d \in Deliveries |-> config[d].items],
  published    <- [d \in Deliveries |-> IF Recorded(d) THEN Resolved(d) ELSE Unpublished],
  acknowledged <- {d \in Deliveries : client[d] = "done"}

(* The protocol of uploads, confirmations and event post implements the    *)
(* one-step publication of exactly the attached bytes.                     *)
PublishesWhatWasAttached == Publication!PSpec

(* A reference a sender holds names its own bytes wherever it resolves,    *)
(* whatever other senders, other servers and strangers do.                 *)
ReferencesNameOwnBytes ==
  \A d \in Deliveries : \A i \in 1..Len(refs[d]) : \A scope \in Scopes :
    contents[<<scope, refs[d][i]>>] \in {NoBody, config[d].items[i]}

(* Every call of deliver returns or raises, and every connection it made   *)
(* is served to its end, also one whose client has given up: no handler of *)
(* it stays in the lock's queue or in the lock, whatever writing raises.   *)
DeliveryEnds ==
  \A d \in Deliveries :
    <>[](/\ client[d] \in {"done", "failed"}
         /\ \A n \in 1..(MaxAttachments + 1) : thread[<<d, n>>].at \in {"idle", "ended"})
=============================================================================
