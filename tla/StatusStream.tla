---------------------------- MODULE StatusStream ----------------------------
(***************************************************************************)
(* The event streams of one deployment: StreamManager and the HTTP         *)
(* handlers HandleStreamDeployment that read from it.  An event is its     *)
(* number in the order of the broadcasts; each client is one request.      *)
(***************************************************************************)
EXTENDS Naturals, Sequences

CONSTANTS Clients,  \* the requests for a stream
          Cap,      \* the capacity of a client's channel, 10 in the code
          States,   \* the values of an event's status
          Ending    \* those that end a stream: "completed" and "failed"

ASSUME StreamAssumption == Cap \in Nat \ {0}

VARIABLES streams,  \* the clients whose channel is in the map
          cast,     \* the status of every event broadcast so far
          since,    \* how many had been broadcast when a client registered
          ch,       \* the channels: numbers of events
          got,      \* the events written to a client
          handler   \* where the handler of a client is

streamVars == <<streams, cast, since, ch, got, handler>>

StreamTypeOK ==
  /\ streams \in SUBSET Clients
  /\ cast \in Seq(States)
  /\ since \in [Clients -> Nat]
  /\ ch \in [Clients -> Seq(Nat)]
  /\ got \in [Clients -> Seq(Nat)]
  /\ handler \in [Clients -> {"new", "reading", "ending", "closed"}]
  /\ \A c \in Clients : Len(ch[c]) <= Cap

StreamInit ==
  /\ streams = {}
  /\ cast = << >>
  /\ since = [c \in Clients |-> 0]
  /\ ch = [c \in Clients |-> << >>]
  /\ got = [c \in Clients |-> << >>]
  /\ handler = [c \in Clients |-> "new"]

-----------------------------------------------------------------------------
\* The request is routed: Register, and the headers are sent.
Register(c) ==
  /\ handler[c] = "new"
  /\ handler' = [handler EXCEPT ![c] = "reading"]
  /\ streams' = streams \union {c}
  /\ since' = [since EXCEPT ![c] = Len(cast)]
  /\ UNCHANGED <<cast, ch, got>>

\* Mutant: a final event does not end the loop.
WriteOn(c) ==
  /\ handler[c] = "reading" /\ ch[c] # << >>
  /\ got' = [got EXCEPT ![c] = Append(@, Head(ch[c]))]
  /\ ch' = [ch EXCEPT ![c] = Tail(@)]
  /\ UNCHANGED <<streams, cast, since, handler>>

\* One turn of the handler's loop.  Nothing tells it that the client is gone:
\* it then writes to nobody.
Write(c) ==
  /\ handler[c] = "reading" /\ ch[c] # << >>
  /\ got' = [got EXCEPT ![c] = Append(@, Head(ch[c]))]
  /\ ch' = [ch EXCEPT ![c] = Tail(@)]
  /\ handler' = IF cast[Head(ch[c])] \in Ending
                THEN [handler EXCEPT ![c] = "ending"] ELSE handler
  /\ UNCHANGED <<streams, cast, since>>

\* Mutant: the channel is closed and stays in the map.
UnregisterCloses(c) ==
  /\ handler[c] = "ending"
  /\ handler' = [handler EXCEPT ![c] = "closed"]
  /\ UNCHANGED <<streams, cast, since, ch, got>>

\* The deferred Unregister takes the channel out of the map and closes it.
Unregister(c) ==
  /\ handler[c] = "ending"
  /\ handler' = [handler EXCEPT ![c] = "closed"]
  /\ streams' = streams \ {c}
  /\ UNCHANGED <<cast, since, ch, got>>

\* Mutant: the newest event is read first.
BroadcastOnTop(s) ==
  /\ cast' = Append(cast, s)
  /\ ch' = [c \in Clients |->
              IF c \in streams /\ Len(ch[c]) < Cap
              THEN <<Len(cast) + 1>> \o ch[c] ELSE ch[c]]
  /\ UNCHANGED <<streams, since, got, handler>>

\* Mutant: one place of the channel is never used.
BroadcastOneLess(s) ==
  /\ cast' = Append(cast, s)
  /\ ch' = [c \in Clients |->
              IF c \in streams /\ Len(ch[c]) + 1 < Cap
              THEN Append(ch[c], Len(cast) + 1) ELSE ch[c]]
  /\ UNCHANGED <<streams, since, got, handler>>

\* Mutant: the channel has no bound.
BroadcastAlways(s) ==
  /\ cast' = Append(cast, s)
  /\ ch' = [c \in Clients |->
              IF c \in streams THEN Append(ch[c], Len(cast) + 1) ELSE ch[c]]
  /\ UNCHANGED <<streams, since, got, handler>>

\* Broadcast puts the event into every channel that has room; the others lose
\* it.  One call at a time: mu.
Broadcast(s) ==
  /\ cast' = Append(cast, s)
  /\ ch' = [c \in Clients |->
              IF c \in streams /\ Len(ch[c]) < Cap
              THEN Append(ch[c], Len(cast) + 1) ELSE ch[c]]
  /\ UNCHANGED <<streams, since, got, handler>>

\* The CO process dies: its connections end, the map is empty.
StreamsDie ==
  /\ streams' = {}
  /\ handler' = [c \in Clients |-> IF handler[c] = "new" THEN "new" ELSE "closed"]
  /\ UNCHANGED <<cast, since, ch, got>>

Serve(c) == Write(c) \/ Unregister(c)

StreamNext ==
  \/ StreamsDie
  \/ \E s \in States : Broadcast(s)
  \/ \E c \in Clients : Register(c) \/ Serve(c)

StreamSpec == StreamInit /\ [][StreamNext]_streamVars

-----------------------------------------------------------------------------
\* What a client has read, and what waits for it.
Line(c) == got[c] \o ch[c]

\* A client sees events in the order of the broadcasts, none twice, and none
\* from before its registration, whatever the channels had to drop.
InBroadcastOrder ==
  \A c \in Clients :
    /\ \A i \in 1 .. Len(Line(c)) : Line(c)[i] \in since[c] + 1 .. Len(cast)
    /\ \A i, j \in 1 .. Len(Line(c)) : i < j => Line(c)[i] < Line(c)[j]

\* A client that has had no more broadcasts than its channel has places has
\* missed none of them, however slowly it reads.
NothingSkipped ==
  \A c \in streams :
    Len(cast) - since[c] <= Cap => Len(Line(c)) = Len(cast) - since[c]

\* A channel is in the map exactly while a handler may still close it: Broadcast
\* would panic on a closed one.
NoSendOnClosed == streams = {c \in Clients : handler[c] \in {"reading", "ending"}}
=============================================================================
