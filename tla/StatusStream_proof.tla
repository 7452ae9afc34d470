------------------------- MODULE StatusStream_proof -------------------------
(***************************************************************************)
(* What a client of a stream can rely on, for any number of clients and    *)
(* events and any capacity of the channels.                                *)
(***************************************************************************)
EXTENDS StatusStream, SequenceTheorems, TLAPS

\* Nothing is read or queued before the registration.
Fresh ==
  /\ \A c \in Clients : since[c] <= Len(cast)
  /\ \A c \in Clients : handler[c] = "new" => got[c] = << >> /\ ch[c] = << >>

StreamInv ==
  /\ StreamTypeOK
  /\ Fresh
  /\ InBroadcastOrder
  /\ NothingSkipped
  /\ NoSendOnClosed

\* Reading moves the head of a channel to what was got: the line stays.
LEMMA MoveHead ==
  ASSUME NEW S, NEW p \in Seq(S), NEW q \in Seq(S), q # << >>
  PROVE  Append(p, Head(q)) \o Tail(q) = p \o q
<1> DEFINE a == Append(p, Head(q)) \o Tail(q)
           b == p \o q
<1>1. Head(q) \in S /\ Tail(q) \in Seq(S) /\ Len(Tail(q)) = Len(q) - 1
  BY HeadTailProperties
<1>2. Append(p, Head(q)) \in Seq(S) /\ Len(Append(p, Head(q))) = Len(p) + 1
  BY <1>1, AppendProperties
<1>3. a \in Seq(S) /\ b \in Seq(S) /\ Len(a) = Len(b)
  BY <1>1, <1>2, ConcatProperties, LenProperties
<1>4. ASSUME NEW i \in 1 .. Len(a)
      PROVE  a[i] = b[i]
  BY <1>1, <1>2, <1>4
<1>5. a = b
  BY <1>3, <1>4, SeqEqual
<1> QED
  BY <1>5

\* An event that is appended to a channel is appended to the line.
LEMMA AppendToLine ==
  ASSUME NEW S, NEW p \in Seq(S), NEW q \in Seq(S), NEW e \in S
  PROVE  p \o Append(q, e) = Append(p \o q, e)
<1>1. p \o q \in Seq(S) /\ <<e>> \in Seq(S)
  BY ConcatProperties
<1>2. Append(q, e) = q \o <<e>> /\ Append(p \o q, e) = (p \o q) \o <<e>>
  BY <1>1, AppendIsConcat
<1>3. (p \o q) \o <<e>> = p \o (q \o <<e>>)
  BY <1>1, ConcatAssociative
<1> QED
  BY <1>2, <1>3

\* A line is a sequence of numbers, no shorter than what waits in the channel.
LEMMA LineType ==
  ASSUME StreamTypeOK, NEW c \in Clients
  PROVE  /\ Line(c) \in Seq(Nat)
         /\ Len(Line(c)) = Len(got[c]) + Len(ch[c])
BY ConcatProperties DEF StreamTypeOK, Line

\* Broadcast extends the line of a client with room by the new event.
LEMMA LineGrows ==
  ASSUME StreamTypeOK, NEW s \in States, Broadcast(s), NEW c \in Clients
  PROVE  \/ Line(c)' = Line(c) /\ ~(c \in streams /\ Len(ch[c]) < Cap)
         \/ Line(c)' = Append(Line(c), Len(cast) + 1) /\ c \in streams
<1>1. got' = got
  BY DEF Broadcast
<1>2. CASE c \in streams /\ Len(ch[c]) < Cap
  <2>1. ch'[c] = Append(ch[c], Len(cast) + 1)
    BY <1>2 DEF Broadcast
  <2>2. got[c] \in Seq(Nat) /\ ch[c] \in Seq(Nat)
    BY DEF StreamTypeOK
  <2>3. PICK n \in Nat : n = Len(cast) + 1
    BY LenProperties DEF StreamTypeOK
  <2>4. got[c] \o Append(ch[c], n) = Append(got[c] \o ch[c], n)
    <3>1. \A p, q \in Seq(Nat) : \A e \in Nat : p \o Append(q, e) = Append(p \o q, e)
      BY AppendToLine
    <3> QED
      BY <2>2, <3>1, Zenon
  <2> QED
    BY <1>1, <1>2, <2>1, <2>3, <2>4 DEF Line
<1>3. CASE ~(c \in streams /\ Len(ch[c]) < Cap)
  BY <1>1, <1>3 DEF Broadcast, Line
<1> QED
  BY <1>2, <1>3

\* Types, and what is true of a client before it registers.
LEMMA StreamTypeStep ==
  ASSUME StreamInv, [StreamNext]_streamVars
  PROVE  StreamTypeOK' /\ Fresh' /\ NoSendOnClosed'
<1> USE StreamAssumption DEF StreamInv, StreamTypeOK, Fresh, NoSendOnClosed
<1>1. CASE UNCHANGED streamVars
  BY <1>1 DEF streamVars
<1>2. CASE StreamsDie
  BY <1>2 DEF StreamsDie
<1>3. ASSUME NEW c \in Clients, Register(c)
      PROVE  StreamTypeOK' /\ Fresh' /\ NoSendOnClosed'
  <2>1. Len(cast) \in Nat
    BY LenProperties
  <2> QED
    BY <1>3, <2>1 DEF Register
<1>4. ASSUME NEW c \in Clients, Unregister(c)
      PROVE  StreamTypeOK' /\ Fresh' /\ NoSendOnClosed'
  BY <1>4 DEF Unregister
<1>5. ASSUME NEW c \in Clients, Write(c)
      PROVE  StreamTypeOK' /\ Fresh' /\ NoSendOnClosed'
  <2>1. Head(ch[c]) \in Nat /\ Tail(ch[c]) \in Seq(Nat) /\ Len(Tail(ch[c])) <= Cap
    BY <1>5, HeadTailProperties, LenProperties DEF Write
  <2>2. Append(got[c], Head(ch[c])) \in Seq(Nat)
    BY <2>1, AppendProperties
  <2>3. handler' \in {handler, [handler EXCEPT ![c] = "ending"]}
    BY <1>5 DEF Write
  <2> QED
    BY <1>5, <2>1, <2>2, <2>3 DEF Write
<1>6. ASSUME NEW s \in States, Broadcast(s)
      PROVE  StreamTypeOK' /\ Fresh' /\ NoSendOnClosed'
  <2>1. cast' \in Seq(States) /\ Len(cast') = Len(cast) + 1 /\ Len(cast) \in Nat
    BY <1>6, AppendProperties, LenProperties DEF Broadcast
  <2>2. \A c \in Clients : ch'[c] \in Seq(Nat) /\ Len(ch'[c]) <= Cap
    BY <1>6, <2>1, AppendProperties, LenProperties DEF Broadcast
  <2>3. \A c \in Clients : handler[c] = "new" => ch'[c] = ch[c]
    BY <1>6 DEF Broadcast
  <2> QED
    BY <1>6, <2>1, <2>2, <2>3 DEF Broadcast
<1> QED
  BY <1>1, <1>2, <1>3, <1>4, <1>5, <1>6 DEF StreamNext, Serve

\* Reading leaves every line as it was.
LEMMA LineKept ==
  ASSUME StreamTypeOK, NEW d \in Clients, Write(d), NEW c \in Clients
  PROVE  Line(c)' = Line(c)
<1>1. CASE c = d
  <2>1. got'[c] = Append(got[c], Head(ch[c])) /\ ch'[c] = Tail(ch[c])
    BY <1>1 DEF Write, StreamTypeOK
  <2>2. got[c] \in Seq(Nat) /\ ch[c] \in Seq(Nat) /\ ch[c] # << >>
    BY <1>1 DEF Write, StreamTypeOK
  <2>3. Append(got[c], Head(ch[c])) \o Tail(ch[c]) = got[c] \o ch[c]
    BY <2>2, MoveHead
  <2> QED
    BY <2>1, <2>3 DEF Line
<1>2. CASE c # d
  BY <1>2 DEF Write, Line, StreamTypeOK
<1> QED
  BY <1>1, <1>2

\* The order of the events, and that none is skipped while there is room.
LEMMA StreamOrderStep ==
  ASSUME StreamInv, [StreamNext]_streamVars
  PROVE  InBroadcastOrder' /\ NothingSkipped'
<1> USE DEF StreamInv
<1>1. ASSUME \A c \in Clients : Line(c)' = Line(c),
             UNCHANGED <<cast, since>>, streams' \subseteq streams
      PROVE  InBroadcastOrder' /\ NothingSkipped'
  <2>1. \A c \in Clients : got'[c] \o ch'[c] = got[c] \o ch[c]
    BY <1>1 DEF Line
  <2>2. InBroadcastOrder'
    <3> SUFFICES ASSUME NEW c \in Clients
                 PROVE  /\ \A i \in 1 .. Len(got'[c] \o ch'[c]) :
                             (got'[c] \o ch'[c])[i] \in since'[c] + 1 .. Len(cast')
                        /\ \A i, j \in 1 .. Len(got'[c] \o ch'[c]) :
                             i < j => (got'[c] \o ch'[c])[i] < (got'[c] \o ch'[c])[j]
      BY DEF InBroadcastOrder, Line
    <3> QED
      BY <1>1, <2>1 DEF InBroadcastOrder, Line
  <2>3. NothingSkipped'
    <3> SUFFICES ASSUME NEW c \in streams', Len(cast') - since'[c] <= Cap
                 PROVE  Len(got'[c] \o ch'[c]) = Len(cast') - since'[c]
      BY DEF NothingSkipped, Line
    <3>1. c \in streams /\ c \in Clients
      BY <1>1 DEF StreamTypeOK
    <3> QED
      BY <1>1, <2>1, <3>1 DEF NothingSkipped, Line
  <2> QED
    BY <2>2, <2>3
<1>2. CASE UNCHANGED streamVars
  <2>1. \A c \in Clients : Line(c)' = Line(c)
    BY <1>2 DEF streamVars, Line
  <2> QED
    BY <1>1, <1>2, <2>1 DEF streamVars
<1>3. CASE StreamsDie
  <2>1. \A c \in Clients : Line(c)' = Line(c)
    BY <1>3 DEF StreamsDie, Line
  <2> QED
    BY <1>1, <1>3, <2>1 DEF StreamsDie
<1>4. ASSUME NEW d \in Clients, Unregister(d)
      PROVE  InBroadcastOrder' /\ NothingSkipped'
  <2>1. \A c \in Clients : Line(c)' = Line(c)
    BY <1>4 DEF Unregister, Line
  <2> QED
    BY <1>1, <1>4, <2>1 DEF Unregister
<1>5. ASSUME NEW d \in Clients, Write(d)
      PROVE  InBroadcastOrder' /\ NothingSkipped'
  <2>1. \A c \in Clients : Line(c)' = Line(c)
    BY <1>5, LineKept
  <2> QED
    BY <1>1, <1>5, <2>1 DEF Write
<1>6. ASSUME NEW d \in Clients, Register(d)
      PROVE  InBroadcastOrder' /\ NothingSkipped'
  <2>1. \A c \in Clients : Line(c)' = Line(c)
    BY <1>6 DEF Register, Line
  <2>2. Len(Line(d)) = 0
    <3>1. Len(got[d]) = 0 /\ Len(ch[d]) = 0
      BY <1>6 DEF Register, Fresh
    <3>2. Len(Line(d)) = Len(got[d]) + Len(ch[d])
      BY LineType
    <3> QED
      BY <3>1, <3>2
  <2>3. Len(cast) \in Nat /\ cast' = cast
    BY <1>6, LenProperties DEF Register, StreamTypeOK
  <2>4. since' = [since EXCEPT ![d] = Len(cast)]
    BY <1>6 DEF Register
  <2>5. InBroadcastOrder'
    BY <2>1, <2>2, <2>3, <2>4 DEF InBroadcastOrder, StreamTypeOK
  <2>6. streams' = streams \union {d}
    BY <1>6 DEF Register
  <2>7. NothingSkipped'
    BY <2>1, <2>2, <2>3, <2>4, <2>6 DEF NothingSkipped, StreamTypeOK
  <2> QED
    BY <2>5, <2>7
<1>7. ASSUME NEW s \in States, Broadcast(s)
      PROVE  InBroadcastOrder' /\ NothingSkipped'
  <2>1. Len(cast) \in Nat /\ Len(cast') = Len(cast) + 1
    BY <1>7, AppendProperties, LenProperties DEF Broadcast, StreamTypeOK
  <2>2. since' = since /\ streams' = streams
    BY <1>7 DEF Broadcast
  <2>3. ASSUME NEW c \in Clients
        PROVE  /\ \A i \in 1 .. Len(Line(c)') : Line(c)'[i] \in since[c] + 1 .. Len(cast')
               /\ \A i, j \in 1 .. Len(Line(c)') : i < j => Line(c)'[i] < Line(c)'[j]
               /\ c \in streams /\ Len(cast') - since[c] <= Cap
                    => Len(Line(c)') = Len(cast') - since[c]
    <3>1. Line(c) \in Seq(Nat) /\ Len(Line(c)) \in Nat /\ Len(Line(c)) >= Len(ch[c])
      BY LineType, LenProperties DEF StreamTypeOK
    <3>2. since[c] \in Nat /\ since[c] <= Len(cast)
      BY DEF StreamTypeOK, Fresh
    <3>3. \A i \in 1 .. Len(Line(c)) : Line(c)[i] \in since[c] + 1 .. Len(cast)
      BY DEF InBroadcastOrder
    <3>4. \A i, j \in 1 .. Len(Line(c)) : i < j => Line(c)[i] < Line(c)[j]
      BY DEF InBroadcastOrder
    <3>5. c \in streams /\ Len(cast) - since[c] <= Cap => Len(Line(c)) = Len(cast) - since[c]
      BY DEF NothingSkipped
    <3>6. CASE Line(c)' = Line(c) /\ ~(c \in streams /\ Len(ch[c]) < Cap)
      <4>1. c \in streams => ~(Len(cast') - since[c] <= Cap)
        BY <2>1, <3>1, <3>2, <3>5, <3>6, StreamAssumption, LenProperties DEF StreamTypeOK
      <4> QED
        BY <2>1, <3>2, <3>3, <3>4, <3>6, <4>1
    <3>7. CASE Line(c)' = Append(Line(c), Len(cast) + 1) /\ c \in streams
      <4> DEFINE q == Line(c)
      <4>1. Len(Line(c)') = Len(q) + 1
        BY <3>1, <3>7, AppendProperties
      <4>2. \A i \in 1 .. Len(q) : Line(c)'[i] = q[i]
        BY <3>1, <3>7, AppendProperties
      <4>3. Line(c)'[Len(q) + 1] = Len(cast) + 1
        BY <3>1, <3>7, AppendProperties
      <4>4. Len(q) \in Nat
        BY <3>1
      <4> HIDE DEF q
      <4>5. \A i \in 1 .. Len(Line(c)') : Line(c)'[i] \in since[c] + 1 .. Len(cast')
        BY <2>1, <3>2, <3>3, <4>1, <4>2, <4>3, <4>4 DEF q
      <4>6. \A i, j \in 1 .. Len(Line(c)') : i < j => Line(c)'[i] < Line(c)'[j]
        BY <2>1, <3>2, <3>3, <3>4, <4>1, <4>2, <4>3, <4>4 DEF q
      <4>7. Len(cast') - since[c] <= Cap => Len(Line(c)') = Len(cast') - since[c]
        BY <2>1, <3>2, <3>5, <3>7, <4>1, StreamAssumption DEF q
      <4> QED
        BY <4>5, <4>6, <4>7
    <3> QED
      BY <1>7, <3>6, <3>7, LineGrows
  <2>4. InBroadcastOrder'
    BY <2>2, <2>3 DEF InBroadcastOrder
  <2>5. NothingSkipped'
    BY <2>2, <2>3 DEF NothingSkipped, StreamTypeOK
  <2> QED
    BY <2>4, <2>5
<1> QED
  BY <1>2, <1>3, <1>4, <1>5, <1>6, <1>7 DEF StreamNext, Serve

LEMMA StreamInitInv == StreamInit => StreamInv
<1>1. ASSUME StreamInit PROVE StreamTypeOK
  <2>1. << >> \in Seq(States) /\ << >> \in Seq(Nat) /\ Len(<< >>) = 0
    OBVIOUS
  <2> QED
    BY <1>1, <2>1, StreamAssumption DEF StreamInit, StreamTypeOK
<1>2. ASSUME StreamInit PROVE Fresh /\ NoSendOnClosed
  BY <1>2 DEF StreamInit, Fresh, NoSendOnClosed
<1>3. ASSUME StreamInit, NEW c \in Clients PROVE Len(Line(c)) = 0
  BY <1>1, <1>3, LineType DEF StreamInit
<1>4. ASSUME StreamInit PROVE InBroadcastOrder /\ NothingSkipped
  BY <1>3, <1>4 DEF InBroadcastOrder, NothingSkipped, StreamInit
<1> QED
  BY <1>1, <1>2, <1>4 DEF StreamInv

\* The inductive invariant of the streams.
THEOREM StreamInvariant == StreamSpec => []StreamInv
<1>1. StreamInit => StreamInv
  BY StreamInitInv
<1>2. StreamInv /\ [StreamNext]_streamVars => StreamInv'
  BY StreamTypeStep, StreamOrderStep DEF StreamInv
<1> QED
  BY <1>1, <1>2, PTL DEF StreamSpec

\* Every client reads the broadcasts in order, each at most once.
THEOREM ClientsReadInOrder == StreamSpec => []InBroadcastOrder
<1>1. StreamInv => InBroadcastOrder
  BY DEF StreamInv
<1> QED
  BY <1>1, StreamInvariant, PTL

\* Nothing is dropped from a stream before its channel has overflowed.
THEOREM DropsNeedFullChannel == StreamSpec => []NothingSkipped
<1>1. StreamInv => NothingSkipped
  BY DEF StreamInv
<1> QED
  BY <1>1, StreamInvariant, PTL

\* Broadcast never meets a closed channel.
THEOREM ChannelsAreOpen == StreamSpec => []NoSendOnClosed
<1>1. StreamInv => NoSendOnClosed
  BY DEF StreamInv
<1> QED
  BY <1>1, StreamInvariant, PTL
=============================================================================
