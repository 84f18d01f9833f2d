------------------------------ MODULE Registry ------------------------------
(***************************************************************************)
(* The channel registry of registry.go.  Every method holds the registry's *)
(* mutex from its first to its last statement, so each is one step.        *)
(*                                                                         *)
(* A Channel struct is never deleted.  A name without a struct and a       *)
(* struct without publisher and subscribers answer every method alike, so  *)
(* all names are present here from the start.  The random IDs of           *)
(* publishers and subscribers are the connections that asked for them: of  *)
(* the connects on one connection at most one gets as far as the registry. *)
(***************************************************************************)
EXTENDS StableRelay

CONSTANTS
    SubConn,    \* websocket connections of subscriber pages
    None        \* Go's nil

ASSUME IdentitiesDistinct ==
    /\ PubConn \cap SubConn = {}
    /\ None \notin PubConn \cup SubConn \cup Channel

VARIABLES
    publisher,   \* Channel.Publisher
    localTrack,  \* Channel.LocalTrack, named by the connection that made it
    subscribers, \* Channel.Subscribers
    quit         \* the subscribers whose QuitChan is closed

registryVars == <<publisher, localTrack, subscribers, quit, relayVars>>

RegistryTypeOK ==
    /\ publisher \in [Channel -> PubConn \cup {None}]
    /\ localTrack \in [Channel -> PubConn \cup {None}]
    /\ subscribers \in [Channel -> SUBSET SubConn]
    /\ quit \in SUBSET SubConn
    /\ RelayTypeOK

RegistryInit ==
    /\ publisher = [ch \in Channel |-> None]
    /\ localTrack = [ch \in Channel |-> None]
    /\ subscribers = [ch \in Channel |-> {}]
    /\ quit = {}
    /\ RelayInit

\* GetChannel(ch) # nil, and ch is among GetChannels().
OnAir(ch) == publisher[ch] # None

\* Slip: one track for the whole registry.
AddPublisherSharingTrack(ch, p) ==
    /\ ~OnAir(ch)
    /\ publisher' = [publisher EXCEPT ![ch] = p]
    /\ localTrack' = [x \in Channel |-> p]
    /\ UNCHANGED <<subscribers, quit, relayVars>>

\* AddPublisher returning nil.  It returns an error, changing nothing, when
\* the channel is on air.
AddPublisher(ch, p) ==
    /\ ~OnAir(ch)
    /\ publisher' = [publisher EXCEPT ![ch] = p]
    /\ localTrack' = [localTrack EXCEPT ![ch] = p]
    /\ UNCHANGED <<subscribers, quit, relayVars>>

\* Slips: no look at Publisher; the two arguments of the map update swapped.
AddSubscriberUnchecked(ch, s) ==
    /\ subscribers' = [subscribers EXCEPT ![ch] = @ \cup {s}]
    /\ UNCHANGED <<publisher, localTrack, quit, relayVars>>

AddSubscriberByChannel(ch, s) ==
    /\ OnAir(ch)
    /\ subscribers' = [subscribers EXCEPT ![ch] = @ \cup {ch}]
    /\ UNCHANGED <<publisher, localTrack, quit, relayVars>>

\* AddSubscriber returning nil.  It returns an error, changing nothing, when
\* the channel is off air.
AddSubscriber(ch, s) ==
    /\ OnAir(ch)
    /\ subscribers' = [subscribers EXCEPT ![ch] = @ \cup {s}]
    /\ UNCHANGED <<publisher, localTrack, quit, relayVars>>

\* Some subscriber in the map was told to quit by an earlier RemovePublisher
\* and has not removed itself yet: closing its QuitChan again panics.
StaleSubscriber(ch) == subscribers[ch] \cap quit # {}

\* Slips: Publisher is not reset; the subscribers are waited for.
RemovePublisherKeepsHolder(ch) ==
    /\ ~StaleSubscriber(ch)
    /\ quit' = quit \cup subscribers[ch]
    /\ StopAll(ch)
    /\ UNCHANGED <<publisher, localTrack, subscribers>>

RemovePublisherWaits(ch) ==
    /\ subscribers[ch] = {}
    /\ publisher' = [publisher EXCEPT ![ch] = None]
    /\ StopAll(ch)
    /\ UNCHANGED <<localTrack, subscribers, quit>>

\* RemovePublisher: no check who the publisher is, or that there is one.  The
\* subscribers stay in the map until they remove themselves.
RemovePublisher(ch) ==
    /\ ~StaleSubscriber(ch)
    /\ publisher' = [publisher EXCEPT ![ch] = None]
    /\ quit' = quit \cup subscribers[ch]
    /\ StopAll(ch)
    /\ UNCHANGED <<localTrack, subscribers>>

\* RemovePublisher running into a stale subscriber.  Map iteration order is
\* random, so any of the others may have been told before the panic; the rest
\* of the function, StopAll included, is not reached.
RemovePublisherPanics(ch) ==
    /\ StaleSubscriber(ch)
    /\ publisher' = [publisher EXCEPT ![ch] = None]
    /\ \E told \in SUBSET (subscribers[ch] \ quit) : quit' = quit \cup told
    /\ UNCHANGED <<localTrack, subscribers, relayVars>>

\* Slip: the channel is looked up with GetChannel, which hides one off air.
RemoveSubscriberOnAir(ch, s) ==
    /\ subscribers' = IF OnAir(ch) THEN [subscribers EXCEPT ![ch] = @ \ {s}]
                                   ELSE subscribers
    /\ UNCHANGED <<publisher, localTrack, quit, relayVars>>

RemoveSubscriber(ch, s) ==
    /\ subscribers' = [subscribers EXCEPT ![ch] = @ \ {s}]
    /\ UNCHANGED <<publisher, localTrack, quit, relayVars>>
=============================================================================
