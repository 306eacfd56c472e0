----------------------------- MODULE LiveEvents -----------------------------
(***************************************************************************)
(* Live events, end to end: RealtimeService of every API instance (local   *)
(* subject, Redis bridge, own echo dropped, recipient scoping), the stream *)
(* cookie, and DashboardStreamService in the browser, whose one            *)
(* EventSource is held open by the root NotificationStore from the first   *)
(* sign-in on and is authorized anew only when it drops.                   *)
(***************************************************************************)
EXTENDS Naturals, Sequences, FiniteSets

CONSTANTS
    Instance,    \* API instances that share Redis
    Browser,     \* pages that are not reloaded
    LiveUser,    \* operators
    Everyone,    \* the recipient of a broadcast; also nobody signed in
    EventBound   \* events emitted

ASSUME LiveEventsAssumption == Everyone \notin LiveUser /\ EventBound \in Nat

VARIABLES
    emitted,      \* events: their recipient and the instance they come from
    channel,      \* external: Redis messages not yet handed to a subscriber
    unpublished,  \* observer: events whose publish failed
    signedIn,     \* browser -> operator, or Everyone for nobody
    streamCookie, \* browser -> subject of the ftd_stream cookie, or Everyone
    source,       \* browser -> its EventSource
    foreign       \* observer: browsers handed an event private to someone else

liveVars == <<emitted, channel, unpublished, signedIn, streamCookie, source, foreign>>

-----------------------------------------------------------------------------
Event == [to : LiveUser \cup {Everyone}, origin : Instance]

\* got: events received; since: events emitted before it opened.
Source == [at : {"off", "authorize", "handshake", "open"}, subject : LiveUser \cup {Everyone},
           on : SUBSET Instance, got : Seq(1..EventBound), since : 0..EventBound]
NoSource == [at |-> "off", subject |-> Everyone, on |-> {}, got |-> <<>>, since |-> 0]

LiveTypeOK ==
    /\ emitted \in Seq(Event) /\ Len(emitted) <= EventBound
    /\ channel \subseteq (DOMAIN emitted) \X Instance
    /\ unpublished \subseteq DOMAIN emitted
    /\ signedIn \in [Browser -> LiveUser \cup {Everyone}]
    /\ streamCookie \in [Browser -> LiveUser \cup {Everyone}]
    /\ source \in [Browser -> Source]
    /\ foreign \subseteq Browser

LiveInit ==
    /\ emitted = <<>> /\ channel = {} /\ unpublished = {} /\ foreign = {}
    /\ signedIn = [b \in Browser |-> Everyone]
    /\ streamCookie = [b \in Browser |-> Everyone]
    /\ source = [b \in Browser |-> NoSource]

-----------------------------------------------------------------------------
\* scopedStream: broadcasts, and what is private to the subject.
InScope(e, subject) == e.to \in {Everyone, subject}

Receivers(e, i) ==
    {b \in Browser : source[b].at = "open" /\ i \in source[b].on /\ InScope(e, source[b].subject)}

\* events.next on instance i: event e, the n-th, goes to every stream in scope.
Deliver(n, e, i) ==
    /\ source' = [b \in Browser |-> IF b \in Receivers(e, i)
                                    THEN [source[b] EXCEPT !.got = Append(@, n)]
                                    ELSE source[b]]
    /\ foreign' = foreign \cup {b \in Receivers(e, i) : /\ e.to # Everyone
                                                        /\ signedIn[b] \notin {e.to, Everyone}}

\* emit: delivered here, and published unless Redis fails.
EmitEvent(i, to) ==
    /\ Len(emitted) < EventBound
    /\ LET n == Len(emitted) + 1
           e == [to |-> to, origin |-> i]
       IN /\ emitted' = Append(emitted, e)
          /\ Deliver(n, e, i)
          /\ \/ /\ channel' = channel \cup ({n} \X Instance)
                /\ UNCHANGED unpublished
             \/ /\ unpublished' = unpublished \cup {n}
                /\ UNCHANGED channel
    /\ UNCHANGED <<signedIn, streamCookie>>

\* Mutant: the instance's own message is delivered once more.
EchoToo(n, i) == TRUE

\* The originId of the envelope is another instance's.
FromElsewhere(n, i) == emitted[n].origin # i

\* onRemoteMessage.
OnRemoteMessage(n, i) ==
    /\ <<n, i>> \in channel
    /\ channel' = channel \ {<<n, i>>}
    /\ IF FromElsewhere(n, i) THEN Deliver(n, emitted[n], i) ELSE UNCHANGED <<source, foreign>>
    /\ UNCHANGED <<emitted, unpublished, signedIn, streamCookie>>

-----------------------------------------------------------------------------
\* Signing in opens the shell, which starts the shared stream unless it runs.
OpenShell(b, u) ==
    /\ signedIn[b] = Everyone
    /\ signedIn' = [signedIn EXCEPT ![b] = u]
    /\ source' = [source EXCEPT ![b].at = IF @ = "off" THEN "authorize" ELSE @]
    /\ UNCHANGED <<emitted, channel, unpublished, streamCookie, foreign>>

\* Signing out leaves the root store subscribed and the stream open.
CloseShell(b) ==
    /\ signedIn[b] # Everyone
    /\ signedIn' = [signedIn EXCEPT ![b] = Everyone]
    /\ UNCHANGED <<emitted, channel, unpublished, streamCookie, source, foreign>>

\* authorizeStream sets the cookie; nobody signed in, it fails and is retried.
AuthorizeStream(b) ==
    /\ source[b].at = "authorize"
    /\ signedIn[b] # Everyone
    /\ streamCookie' = [streamCookie EXCEPT ![b] = signedIn[b]]
    /\ source' = [source EXCEPT ![b].at = "handshake"]
    /\ UNCHANGED <<emitted, channel, unpublished, signedIn, foreign>>

\* openEventSource on some instance: StreamTokenGuard takes the cookie's subject.
OpenEventSource(b, i) ==
    /\ source[b].at = "handshake"
    /\ streamCookie[b] # Everyone
    /\ source' = [source EXCEPT ![b] = [at |-> "open", subject |-> streamCookie[b], on |-> {i},
                                        got |-> <<>>, since |-> Len(emitted)]]
    /\ UNCHANGED <<emitted, channel, unpublished, signedIn, streamCookie, foreign>>

\* The cookie's 60 seconds are over.
StreamCookieExpires(b) ==
    /\ streamCookie[b] # Everyone
    /\ streamCookie' = [streamCookie EXCEPT ![b] = Everyone]
    /\ UNCHANGED <<emitted, channel, unpublished, signedIn, source, foreign>>

\* onerror (the handshake's refusal too), or the watchdog after silence: the outer
\* retry authorizes anew.
StreamDrops(b) ==
    /\ source[b].at \in {"handshake", "open"}
    /\ source' = [source EXCEPT ![b] = [NoSource EXCEPT !.at = "authorize"]]
    /\ UNCHANGED <<emitted, channel, unpublished, signedIn, streamCookie, foreign>>

LiveNext ==
    \/ \E i \in Instance :
         \/ \E to \in LiveUser \cup {Everyone} : EmitEvent(i, to)
         \/ \E n \in DOMAIN emitted : OnRemoteMessage(n, i)
    \/ \E b \in Browser :
         \/ \E u \in LiveUser : OpenShell(b, u)
         \/ \E i \in Instance : OpenEventSource(b, i)
         \/ CloseShell(b) \/ AuthorizeStream(b) \/ StreamCookieExpires(b) \/ StreamDrops(b)

LiveSpec == LiveInit /\ [][LiveNext]_liveVars

-----------------------------------------------------------------------------
Received(b, n) == Cardinality({k \in DOMAIN source[b].got : source[b].got[k] = n})

\* An open stream receives every event in its subject's scope exactly once, whichever
\* instance emitted it, unless the publish failed or the message is still on its way;
\* an event out of scope never; one emitted before it opened at most once.
DeliveredOnce ==
    \A b \in Browser, n \in DOMAIN emitted : source[b].at = "open" =>
        IF ~InScope(emitted[n], source[b].subject) THEN Received(b, n) = 0
        ELSE /\ Received(b, n) <= 1
             /\ \/ n <= source[b].since
                \/ Received(b, n) = 1
                \/ n \in unpublished /\ emitted[n].origin \notin source[b].on
                \/ \E i \in source[b].on : <<n, i>> \in channel

\* What RealtimeController says: a connected user never receives another user's
\* notification event.
NoForeignEvent == foreign = {}

\* The same pages as long as an operator signs in only where neither stream nor cookie is
\* left of another one.
ClearedNext ==
    /\ LiveNext
    /\ \A b \in Browser : signedIn'[b] \notin {signedIn[b], Everyone} =>
           {source[b].subject, streamCookie[b]} \subseteq {signedIn'[b], Everyone}
ClearedSpec == LiveInit /\ [][ClearedNext]_liveVars
=============================================================================
