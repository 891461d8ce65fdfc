----------------------------- MODULE Subscriptions -----------------------------
(***************************************************************************)
(* How an application composes a subscription in the generated SDKs: it    *)
(* selects events, by name, by family or all of them, and an interception  *)
(* also needs a timeout and a failure policy.  Rust collects the parts in  *)
(* a builder, in any order; the others take them at once.  What an SDK     *)
(* does not refuse itself is left to the canonical validation at setup.    *)
(* Durations are counted in half milliseconds.                             *)
(***************************************************************************)
EXTENDS Integers, Sequences, FiniteSets, SequencesExt

CONSTANTS Supports,    \* the modes of each event, by the request schemas
          Listed,      \* the events of each mode, by the subscription schemas
          Family,      \* what an event's name starts with, by event
          Timeouts, Policies, Contents,
          MaxSelectors,
          Unset

VARIABLES request,     \* what the application wants, so far
          composed     \* Rust's builder, Unset when its types do not have it

subscriptionVars == <<request, composed>>

-------------------------------------------------------------------------------
(* An event, a family or everything, as they are written on the wire.      *)
Selectors ==
  {<<e>> : e \in DOMAIN Supports} \cup {<<Family[e], "*">> : e \in DOMAIN Supports} \cup {<<"*">>}

Covers(selector, e) ==
  \/ selector = <<e>>
  \/ selector = <<Family[e], "*">>
  \/ selector = <<"*">>

(* A subscription of which parts may still be missing.                     *)
Named(durations) ==
  [mode : {"intercept", "observe"}, events : Seq(Selectors), timeout : durations \cup {Unset},
   policy : Policies \cup {Unset}, content : Contents \cup {Unset}]

(* Some event can be intercepted, and Unset is no value of a part.         *)
ASSUME SubscriptionAssumption ==
  /\ Timeouts \subseteq Int /\ MaxSelectors \in Nat
  /\ \E e \in DOMAIN Supports : "intercept" \in Supports[e]
  /\ Unset \notin Int /\ Unset \notin Policies /\ Unset \notin Contents
  /\ Unset \notin Named(Timeouts \cup {0})

(* InterceptSelector: everything, or what has an event to intercept.       *)
InterceptSelector(selector) ==
  selector = <<"*">> \/ \E e \in DOMAIN Supports : Covers(selector, e) /\ "intercept" \in Supports[e]

EveryName(selectors) == selectors   \* a wrong Names: repeated selectors stay

(* names of a tuple of selectors: each once, in order.                     *)
Names(selectors) ==
  FoldLeft(LAMBDA names, s : IF Contains(names, s) THEN names ELSE Append(names, s), <<>>, selectors)

(* The canonical schemas of the two kinds of subscription.                 *)
Whole(duration) == duration % 2 = 0
Accepts(subscription) ==
  /\ subscription.events # <<>> /\ IsInjective(subscription.events)
  /\ \A s \in ToSet(subscription.events) : Len(s) = 1 /\ s # <<"*">> => s[1] \in Listed[subscription.mode]
  /\ subscription.content # Unset
  /\ IF subscription.mode = "intercept"
       THEN subscription.policy # Unset /\ subscription.timeout # Unset
              /\ subscription.timeout >= 2 /\ Whole(subscription.timeout)
       ELSE subscription.policy = Unset /\ subscription.timeout = Unset

-------------------------------------------------------------------------------
(* Rust                                                                    *)
Composable(mode, selectors) ==
  selectors # <<>> /\ (mode = "intercept" => \A s \in ToSet(selectors) : InterceptSelector(s))

RustTruncated(duration) == duration - (duration % 2)   \* a wrong RustTimeout

(* Invalid durations are kept as 0, which the schema refuses.              *)
RustTimeout(duration) == IF duration = 0 \/ ~ Whole(duration) THEN 0 ELSE duration

(* Only a builder with all of its parts converts to a subscription.        *)
AllParts(parts) ==
  parts.content # Unset /\ (parts.mode = "intercept" => Unset \notin {parts.timeout, parts.policy})

RustOffers == {c \in {composed} : c # Unset /\ AllParts(c)}

(* try_timeout reports instead.                                            *)
RustTried == {c \in RustOffers : request.timeout = Unset \/ RustTimeout(request.timeout) # 0}

-------------------------------------------------------------------------------
(* Go: durationMilliseconds is exact; Milliseconds refuses.                *)
GoMilliseconds(duration) == {d \in {duration} : d > 0 /\ Whole(d)}
GoOffers  == {request}
GoChecked == {r \in GoOffers : r.timeout = Unset \/ GoMilliseconds(r.timeout) # {}}

(* Python: the constructor converts a timedelta, and validates.            *)
PythonTimeout(duration) == {d \in {duration} : d > 0 /\ Whole(d)}
PythonOffers ==
  {r \in {request} : (r.timeout = Unset \/ PythonTimeout(r.timeout) # {}) /\ Accepts(r)}

(* TypeScript: options are typed, checked, and parsed.                     *)
DurationOf(value) == {v \in {value} : v >= 2 /\ Whole(v)}
CheckedEvents(mode, selectors) ==
  /\ selectors # <<>> /\ IsInjective(selectors)
  /\ \A s \in ToSet(selectors) : s = <<"*">> \/ Len(s) = 2 \/ s[1] \in Listed[mode]
TypeScriptOffers ==
  {r \in {request} : /\ CheckedEvents(r.mode, r.events)
                     /\ r.mode = "intercept" => r.policy \in Policies /\ DurationOf(r.timeout) # {}
                     /\ Accepts(r)}

-------------------------------------------------------------------------------
Parts(mode, selectors) ==
  [mode |-> mode, events |-> selectors, timeout |-> Unset, policy |-> Unset, content |-> Unset]

SubscriptionInit == request = Unset /\ composed = Unset

Begin(mode) ==
  /\ request = Unset
  /\ \E selectors \in BoundedSeq(Selectors, MaxSelectors) :
       /\ request' = Parts(mode, selectors)
       /\ composed' = IF Composable(mode, selectors) THEN Parts(mode, Names(selectors)) ELSE Unset

(* A part given again replaces the one before.                             *)
SetPart(part, wanted, built) ==
  /\ request # Unset
  /\ request' = [request EXCEPT ![part] = wanted]
  /\ composed' = IF composed = Unset THEN Unset ELSE [composed EXCEPT ![part] = built]

(* Rust's Duration has no sign.                                            *)
SetTimeout ==
  /\ request # Unset /\ request.mode = "intercept"
  /\ \E d \in Timeouts : SetPart("timeout", d, IF d < 0 THEN Unset ELSE RustTimeout(d))

SetPolicy ==
  /\ request # Unset /\ request.mode = "intercept"
  /\ \E p \in Policies : SetPart("policy", p, p)

SetContent == \E c \in Contents : SetPart("content", c, c)

SubscriptionNext == (\E mode \in {"intercept", "observe"} : Begin(mode)) \/ SetTimeout \/ SetPolicy \/ SetContent
SubscriptionSpec == SubscriptionInit /\ [][SubscriptionNext]_subscriptionVars

-------------------------------------------------------------------------------
Forms == {"rust", "rust try", "go", "go checked", "python", "typescript"}
Offers(form) ==
  CASE form = "rust"       -> RustOffers
    [] form = "rust try"   -> RustTried
    [] form = "go"         -> GoOffers
    [] form = "go checked" -> GoChecked
    [] form = "python"     -> PythonOffers
    [] OTHER               -> TypeScriptOffers

Taken(form) == {s \in Offers(form) : Accepts(s)}
Wanted == request # Unset /\ AllParts(request)

(* What is delivered under a subscription.                                 *)
Delivered(subscription) ==
  {e \in DOMAIN Supports : /\ subscription.mode \in Supports[e]
                           /\ \E s \in ToSet(subscription.events) : Covers(s, e)}

SetUpAsAsked ==
  /\ \A form \in Forms : \A s \in Taken(form) :
       /\ [s EXCEPT !.events = ToSet(@)] = [request EXCEPT !.events = ToSet(@)]
       /\ Delivered(s) = Delivered(request)
  /\ \A s \in PythonOffers \cup TypeScriptOffers : Accepts(s)
  /\ \A s \in RustTried \cup GoChecked : Accepts([s EXCEPT !.events = <<<<"*">>>>])
  /\ \A s \in RustOffers : s.mode = "intercept" => Delivered(s) # {}

SetUpAlike ==
  /\ \A form \in Forms \ {"rust", "rust try"} : Taken(form) = Taken("go")
  /\ Taken("rust") = Taken("rust try")
  /\ RustOffers # {} =>
       IF IsInjective(request.events)
         THEN Taken("rust") = Taken("go")
         ELSE /\ Taken("go") = {}
              /\ Taken("rust") # {} <=> Accepts([request EXCEPT !.events = SetToSeq(ToSet(@))])

(* A subscription that is set up is for the events, and has the timeout,   *)
(* policy and content, that the application named last, whichever SDK it   *)
(* was made with and in whatever order: no duration is rounded.  Python,   *)
(* TypeScript and the checking forms of Rust and Go hand on nothing whose  *)
(* timeout is refused later, and what Rust's types let through has events. *)
(* Every SDK sets up what any of them sets up, if its types can say it; a  *)
(* selector that is repeated counts once in Rust and is refused elsewhere. *)
SubscriptionsExact == Wanted => SetUpAsAsked /\ SetUpAlike
===============================================================================
