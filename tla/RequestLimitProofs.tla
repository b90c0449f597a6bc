-------------------------- MODULE RequestLimitProofs --------------------------
(***************************************************************************)
(* Proofs about RequestLimit, for every limit, any chunks and any number of *)
(* requests: the invariant says what each phase of a request knows of the   *)
(* bytes that were read and of what has left for the client.                *)
(***************************************************************************)
EXTENDS RequestLimit, SequenceTheorems, TLAPS

Refusal413 == <<Start(TooLarge), End>>

\* One beginning, and nothing after the end.
WellFormed(w) ==
    /\ w # <<>> => Begins(w)
    /\ \A i \in 2 .. Len(w) : w[i].type = "body"
    /\ \A i \in 1 .. (Len(w) - 1) : w[i] # End

\* The bytes that were counted are those that were read, and an application
\* that exceeds the limit was told of a disconnect.
CountIsExact(k) ==
    /\ k.received = k.sent
    /\ k.exceeded <=> k.sent > MaxBytes
    /\ k.exceeded => k.told = "disconnect"
    /\ k.declared > MaxBytes =>
          k.phase # "app" /\ k.told = "nothing" /\ ~k.started /\ ~k.rejected

\* The answer of an application that got through, as far as it has come.
Passing(k) ==
    k.started => /\ ~k.rejected /\ k.phase # "refusing" /\ k.phase # "idle"
                 /\ Begins(k.wire) /\ WellFormed(k.wire)
                 /\ k.said # "nothing"
                 /\ k.phase = "app" /\ k.said = "started" => k.wire[Len(k.wire)] # End

\* What has left for the client otherwise.
Standing(k) ==
    ~k.started =>
        /\ k.phase = "idle" => k.wire = <<>> /\ ~k.rejected
        /\ k.phase = "refusing" => k.wire = <<Start(TooLarge)>> /\ TooLong(k)
        /\ k.phase \in {"refusing", "app"} /\ k.rejected => k.exceeded
        /\ k.phase = "app" /\ k.rejected => k.wire = Refusal413
        /\ k.phase = "app" /\ ~k.rejected => k.wire = <<>> /\ k.said = "nothing"
        /\ k.phase = "done" => \/ k.wire = Refusal413 /\ TooLong(k)
                               \/ k.wire = <<Start(ServerError), End>> /\ ~TooLong(k)

Sound(k) == k \in Conn /\ CountIsExact(k) /\ Passing(k) /\ Standing(k)

LimitInv == conn \in [Conns -> Conn] /\ \A c \in Conns : Sound(conn[c])

-----------------------------------------------------------------------------
\* The messages are what the protocol says.
LEMMA MessageFacts ==
    /\ Start(TooLarge) \in Message /\ Start(ServerError) \in Message
    /\ End \in Message /\ Part \in Message
    /\ \A s \in Statuses : Start(s).type = "start" /\ Start(s).status = s /\ Start(s) # End
    /\ Part.type = "body" /\ End.type = "body" /\ Part # End
    /\ Start(TooLarge) # Start(ServerError)
    /\ \A m \in Message : m.type = "body" => m = Part \/ m = End
    /\ \A m \in Message : m.type = "start" \/ m.type = "body"
  <1>1. \A s \in Statuses : Start(s) \in Message
    BY DEF Message
  <1>2. TooLarge \in Statuses /\ ServerError \in Statuses
    BY DEF Statuses
  <1>3. \A s : Start(s).type = "start" /\ Start(s).status = s
    BY DEF Start
  <1>4. Part.type = "body" /\ End.type = "body" /\ Part # End
    <2>1. Part.more /\ ~End.more
      BY DEF Part, End
    <2> QED BY <2>1 DEF Part, End
  <1>5. Start(TooLarge).status # Start(ServerError).status
    BY DEF Start, TooLarge, ServerError
  <1>6. \A m \in Message : m = Part \/ m = End \/ \E s \in Statuses : m = Start(s)
    BY DEF Message
  <1>7. End \in Message /\ Part \in Message
    BY DEF Message
  <1>8. \A s : Start(s) # End /\ Start(s) # Part
    BY <1>3, <1>4
  <1> QED BY <1>1, <1>2, <1>3, <1>4, <1>5, <1>6, <1>7, <1>8

\* A short sequence is what was appended to it.
LEMMA AppendShort ==
    ASSUME NEW S, NEW a \in S, NEW b \in S
    PROVE  Append(<<a>>, b) = <<a, b>> /\ Append(<<>>, b) = <<b>>
  <1>1. <<a>> \in Seq(S) /\ Len(<<a>>) = 1 /\ <<a>>[1] = a /\ <<>> \in Seq(S)
    OBVIOUS
  <1>2. /\ Append(<<a>>, b) \in Seq(S) /\ Len(Append(<<a>>, b)) = 2
        /\ Append(<<a>>, b)[1] = a /\ Append(<<a>>, b)[2] = b
    BY <1>1, AppendProperties
  <1>3. <<a, b>> \in Seq(S) /\ Len(<<a, b>>) = 2 /\ <<a, b>>[1] = a /\ <<a, b>>[2] = b
    OBVIOUS
  <1>4. \A i \in 1 .. 2 : i = 1 \/ i = 2
    OBVIOUS
  <1>5. Append(<<a>>, b) = <<a, b>>
    BY <1>2, <1>3, <1>4, SeqEqual
  <1>6. Append(<<>>, b) = <<>> \o <<b>>
    BY <1>1, AppendIsConcat
  <1> QED BY <1>5, <1>6

\* The refusals are well formed and begin with 413.
LEMMA RefusalFacts ==
    /\ Refusal413 \in Seq(Message) /\ WellFormed(Refusal413)
    /\ <<Start(TooLarge)>> \in Seq(Message) /\ WellFormed(<<Start(TooLarge)>>)
    /\ Append(<<Start(TooLarge)>>, End) = Refusal413
    /\ Append(<<>>, Start(TooLarge)) = <<Start(TooLarge)>>
    /\ <<Start(ServerError), End>> \in Seq(Message)
    /\ WellFormed(<<Start(ServerError), End>>)
    /\ WellFormed(<<>>)
    /\ \A i \in DOMAIN <<Start(ServerError), End>> :
            <<Start(ServerError), End>>[i] # Start(TooLarge)
  <1> HIDE DEF Start, End, Part, Message
  <1>1. Start(TooLarge).type = "start" /\ Start(ServerError).type = "start"
        /\ End.type = "body" /\ Start(TooLarge) # End /\ Start(ServerError) # End
        /\ Start(TooLarge) # Start(ServerError)
    BY MessageFacts DEF Statuses, TooLarge, ServerError
  <1>2. Start(TooLarge) \in Message /\ Start(ServerError) \in Message /\ End \in Message
    BY MessageFacts
  <1>3. Refusal413 \in Seq(Message) /\ <<Start(TooLarge)>> \in Seq(Message)
        /\ <<Start(ServerError), End>> \in Seq(Message)
    BY <1>2 DEF Refusal413
  <1>4. WellFormed(Refusal413)
    BY <1>1 DEF WellFormed, Refusal413, Begins
  <1>5. WellFormed(<<Start(TooLarge)>>) /\ WellFormed(<<>>)
    BY <1>1 DEF WellFormed, Begins
  <1>6. WellFormed(<<Start(ServerError), End>>)
    BY <1>1 DEF WellFormed, Begins
  <1>7. /\ Append(<<Start(TooLarge)>>, End) = Refusal413
        /\ Append(<<>>, Start(TooLarge)) = <<Start(TooLarge)>>
    BY <1>2, AppendShort DEF Refusal413
  <1>8. \A i \in DOMAIN <<Start(ServerError), End>> :
            <<Start(ServerError), End>>[i] # Start(TooLarge)
    BY <1>1
  <1> QED BY <1>3, <1>4, <1>5, <1>6, <1>7, <1>8

\* A message that the protocol allows keeps an answer well formed.
LEMMA AppendFacts ==
    ASSUME NEW w \in Seq(Message), NEW m \in Message, WellFormed(w),
           \/ w = <<>> /\ m.type = "start"
           \/ w # <<>> /\ m.type = "body" /\ w[Len(w)] # End
    PROVE  /\ Append(w, m) \in Seq(Message) /\ WellFormed(Append(w, m))
           /\ Begins(Append(w, m))
           /\ Append(w, m)[Len(Append(w, m))] = m
  <1> DEFINE v == Append(w, m)
  <1>1. v \in Seq(Message) /\ Len(v) = Len(w) + 1 /\ v[Len(w) + 1] = m
        /\ \A i \in 1 .. Len(w) : v[i] = w[i]
    BY AppendProperties
  <1>2. Len(w) \in Nat /\ (w = <<>> <=> Len(w) = 0)
    BY LenProperties, EmptySeq
  <1>3. v # <<>>
    BY <1>1, <1>2
  <1> HIDE DEF v
  <1>4. CASE w = <<>> /\ m.type = "start"
    BY <1>1, <1>2, <1>3, <1>4 DEF WellFormed, Begins, v
  <1>5. CASE w # <<>> /\ m.type = "body" /\ w[Len(w)] # End
    <2>1. Begins(v)
      BY <1>1, <1>2, <1>3, <1>5 DEF WellFormed, Begins
    <2>2. \A i \in 2 .. Len(v) : v[i].type = "body"
      BY <1>1, <1>2, <1>5 DEF WellFormed
    <2>3. \A i \in 1 .. (Len(v) - 1) : v[i] # End
      BY <1>1, <1>2, <1>5 DEF WellFormed
    <2> QED BY <1>1, <2>1, <2>2, <2>3 DEF WellFormed, v
  <1> QED BY <1>4, <1>5
-----------------------------------------------------------------------------
(* The records.                                                            *)

\* A field of a request may take any value of its type.
LEMMA FieldTypes ==
    ASSUME NEW k \in Conn
    PROVE  /\ \A x \in {"idle", "app", "refusing", "done"} : [k EXCEPT !.phase = x] \in Conn
           /\ \A x \in Nat : [k EXCEPT !.declared = x] \in Conn
           /\ \A x \in Nat : [k EXCEPT !.sent = x] \in Conn
           /\ \A x \in Nat : [k EXCEPT !.received = x] \in Conn
           /\ \A x \in {"nothing", "more", "end", "disconnect"} : [k EXCEPT !.told = x] \in Conn
           /\ \A x \in {"nothing", "started", "ended"} : [k EXCEPT !.said = x] \in Conn
           /\ \A x \in BOOLEAN : [k EXCEPT !.exceeded = x] \in Conn
           /\ \A x \in BOOLEAN : [k EXCEPT !.started = x] \in Conn
           /\ \A x \in BOOLEAN : [k EXCEPT !.rejected = x] \in Conn
           /\ \A x \in Seq(Message) : [k EXCEPT !.wire = x] \in Conn
  <1> USE DEF Conn
  <1>1. \A x \in {"idle", "app", "refusing", "done"} : [k EXCEPT !.phase = x] \in Conn
    OBVIOUS
  <1>2. \A x \in Nat : [k EXCEPT !.declared = x] \in Conn
    OBVIOUS
  <1>3. \A x \in Nat : [k EXCEPT !.sent = x] \in Conn
    OBVIOUS
  <1>4. \A x \in Nat : [k EXCEPT !.received = x] \in Conn
    OBVIOUS
  <1>5. \A x \in {"nothing", "more", "end", "disconnect"} : [k EXCEPT !.told = x] \in Conn
    OBVIOUS
  <1>6. \A x \in {"nothing", "started", "ended"} : [k EXCEPT !.said = x] \in Conn
    OBVIOUS
  <1>7. \A x \in BOOLEAN : [k EXCEPT !.exceeded = x] \in Conn
    OBVIOUS
  <1>8. \A x \in BOOLEAN : [k EXCEPT !.started = x] \in Conn
    OBVIOUS
  <1>9. \A x \in BOOLEAN : [k EXCEPT !.rejected = x] \in Conn
    OBVIOUS
  <1>10. \A x \in Seq(Message) : [k EXCEPT !.wire = x] \in Conn
    OBVIOUS
  <1> QED BY <1>1, <1>2, <1>3, <1>4, <1>5, <1>6, <1>7, <1>8, <1>9, <1>10

LEMMA IdleFields ==
    /\ Idle \in Conn
    /\ Idle.phase = "idle" /\ Idle.declared = 0 /\ Idle.sent = 0 /\ Idle.received = 0
    /\ Idle.told = "nothing" /\ Idle.said = "nothing" /\ ~Idle.exceeded
    /\ ~Idle.started /\ ~Idle.rejected /\ Idle.wire = <<>>
  <1>1. <<>> \in Seq(Message)
    BY EmptySeq
  <1> QED BY <1>1 DEF Idle, Conn

\* A request that is let in.
LEMMA EnteredFields ==
    ASSUME NEW k \in Conn, NEW n \in Nat
    PROVE  LET j == [k EXCEPT !.phase = "app", !.declared = n] IN
           /\ j \in Conn /\ j.phase = "app" /\ j.declared = n /\ j.sent = k.sent
           /\ j.received = k.received /\ j.told = k.told /\ j.said = k.said
           /\ j.exceeded = k.exceeded /\ j.started = k.started
           /\ j.rejected = k.rejected /\ j.wire = k.wire
  <1> DEFINE j == [k EXCEPT !.phase = "app", !.declared = n]
             i == [k EXCEPT !.phase = "app"]
  <1>1. i \in Conn
    BY FieldTypes
  <1>2. [i EXCEPT !.declared = n] \in Conn
    <2> HIDE DEF i
    <2> QED BY <1>1, FieldTypes
  <1>3. j \in Conn
    BY <1>2
  <1> QED BY <1>3 DEF Conn

\* A request that is refused.
LEMMA RefusingFields ==
    ASSUME NEW k \in Conn
    PROVE  LET j == Refusing(k) IN
           /\ j \in Conn /\ j.phase = "refusing" /\ j.declared = k.declared /\ j.sent = k.sent
           /\ j.received = k.received /\ j.told = k.told /\ j.said = k.said
           /\ j.exceeded = k.exceeded /\ j.started = k.started
           /\ j.rejected = k.rejected /\ j.wire = Append(k.wire, Start(TooLarge))
  <1> DEFINE w == Append(k.wire, Start(TooLarge))
             i == [k EXCEPT !.phase = "refusing"]
  <1>1. w \in Seq(Message)
    BY MessageFacts, AppendProperties DEF Conn
  <1>2. i \in Conn
    BY FieldTypes
  <1> HIDE DEF w
  <1>3. [i EXCEPT !.wire = w] \in Conn
    <2> HIDE DEF i
    <2> QED BY <1>1, <1>2, FieldTypes
  <1>4. Refusing(k) = [k EXCEPT !.phase = "refusing", !.wire = w]
    BY DEF Refusing, w
  <1>5. Refusing(k) \in Conn
    BY <1>3, <1>4
  <1> QED BY <1>4, <1>5 DEF Conn, w

-----------------------------------------------------------------------------
(* Each step of one request keeps it sound.                                *)

LEMMA InitSound == Sound(Idle)
  BY IdleFields, LimitAssumption DEF Sound, CountIsExact, Passing, Standing

\* __call__(): a declared length that is too large is refused, another is let in.
LEMMA ArriveSound ==
    ASSUME NEW n \in Nat
    PROVE  /\ n > MaxBytes => Sound(Refusing([Idle EXCEPT !.declared = n]))
           /\ n <= MaxBytes => Sound([Idle EXCEPT !.phase = "app", !.declared = n])
  <1>1. ASSUME n <= MaxBytes
        PROVE  Sound([Idle EXCEPT !.phase = "app", !.declared = n])
    <2> DEFINE j == [Idle EXCEPT !.phase = "app", !.declared = n]
    <2>1. /\ j \in Conn /\ j.phase = "app" /\ j.declared = n /\ j.sent = 0
          /\ j.received = 0 /\ ~j.exceeded /\ ~j.started /\ ~j.rejected
          /\ j.wire = <<>> /\ j.said = "nothing"
      BY IdleFields, EnteredFields
    <2> HIDE DEF j
    <2>2. Sound(j)
      BY <1>1, <2>1, LimitAssumption DEF Sound, CountIsExact, Passing, Standing
    <2> QED BY <2>2 DEF j
  <1>2. ASSUME n > MaxBytes
        PROVE  Sound(Refusing([Idle EXCEPT !.declared = n]))
    <2> DEFINE i == [Idle EXCEPT !.declared = n]
    <2>1. i \in Conn
      BY IdleFields, FieldTypes
    <2>2. /\ i.declared = n /\ i.sent = 0 /\ i.received = 0 /\ ~i.exceeded /\ i.told = "nothing"
          /\ ~i.started /\ ~i.rejected /\ i.wire = <<>>
      BY IdleFields DEF Conn
    <2> HIDE DEF i
    <2> DEFINE j == Refusing(i)
    <2>3. /\ j \in Conn /\ j.phase = "refusing" /\ j.declared = n /\ j.sent = 0
          /\ j.received = 0 /\ ~j.exceeded /\ ~j.started /\ ~j.rejected
          /\ j.wire = <<Start(TooLarge)>> /\ j.told = "nothing"
      BY <2>1, <2>2, RefusingFields, RefusalFacts
    <2> HIDE DEF j
    <2>4. Sound(j)
      BY <1>2, <2>3, LimitAssumption DEF Sound, CountIsExact, Passing, Standing, TooLong
    <2> QED BY <2>4 DEF i, j
  <1> QED BY <1>1, <1>2

\* counting_receive() and a client that leaves: what was answered stands.
LEMMA ReadSound ==
    ASSUME NEW k, Sound(k), k.phase = "app", k.told \in {"nothing", "more"},
           NEW n \in Nat, NEW t \in {"more", "end", "disconnect"}
    PROVE  /\ Counted(k, n) > MaxBytes =>
                  Sound([k EXCEPT !.sent = @ + n, !.received = Counted(k, n),
                                  !.exceeded = TRUE, !.told = "disconnect"])
           /\ ~(Counted(k, n) > MaxBytes) =>
                  Sound([k EXCEPT !.sent = @ + n, !.received = Counted(k, n),
                                  !.exceeded = FALSE, !.told = t])
  <1>1. k \in Conn /\ ~k.exceeded /\ k.received = k.sent /\ ~(k.sent > MaxBytes)
    BY DEF Sound, CountIsExact
  <1>2. k.sent \in Nat /\ MaxBytes \in Nat
    BY <1>1, LimitAssumption DEF Conn
  <1>3. ASSUME NEW s \in Nat, NEW x \in BOOLEAN, NEW d \in {"more", "end", "disconnect"},
               x <=> s > MaxBytes, x => d = "disconnect"
        PROVE  Sound([k EXCEPT !.sent = s, !.received = s, !.exceeded = x, !.told = d])
    <2> DEFINE j == [k EXCEPT !.sent = s, !.received = s, !.exceeded = x, !.told = d]
    <2> DEFINE k1 == [k EXCEPT !.sent = s]
               k2 == [k1 EXCEPT !.received = s]
               k3 == [k2 EXCEPT !.exceeded = x]
               k4 == [k3 EXCEPT !.told = d]
    <2>6. k1 \in Conn
      BY <1>1, FieldTypes
    <2>7. k2 \in Conn
      <3> HIDE DEF k1
      <3> QED BY <2>6, FieldTypes
    <2>8. k3 \in Conn
      <3> HIDE DEF k2
      <3> QED BY <2>7, FieldTypes
    <2>9. k4 \in Conn
      <3> HIDE DEF k3
      <3> QED BY <2>8, FieldTypes
    <2>10. j \in Conn
      BY <2>9
    <2>1. /\ j.phase = "app" /\ j.declared = k.declared
          /\ j.sent = s /\ j.received = s /\ (j.exceeded <=> x) /\ j.told = d
          /\ j.said = k.said /\ j.started = k.started
          /\ j.rejected = k.rejected /\ j.wire = k.wire
      BY <1>1, <2>10 DEF Conn
    <2> HIDE DEF j
    <2>2. CountIsExact(j)
      BY <1>3, <2>1 DEF Sound, CountIsExact
    <2>3. Passing(j)
      BY <2>1 DEF Sound, Passing
    <2>4. Standing(j)
      BY <1>1, <2>1 DEF Sound, Standing
    <2>5. Sound(j)
      BY <2>10, <2>2, <2>3, <2>4 DEF Sound
    <2> QED BY <2>5 DEF j
  <1>4. Counted(k, n) = k.sent + n /\ k.sent + n \in Nat
    BY <1>1, <1>2 DEF Counted
  <1>5. Counted(k, n) > MaxBytes =>
            Sound([k EXCEPT !.sent = @ + n, !.received = Counted(k, n),
                            !.exceeded = TRUE, !.told = "disconnect"])
    BY <1>3, <1>4
  <1>6. ~(Counted(k, n) > MaxBytes) =>
            Sound([k EXCEPT !.sent = @ + n, !.received = Counted(k, n),
                            !.exceeded = FALSE, !.told = t])
    <2>1. ~(Counted(k, n) > MaxBytes) => ~(k.sent + n > MaxBytes)
      BY <1>2, <1>4
    <2>2. t \in {"more", "end", "disconnect"} /\ FALSE \in BOOLEAN
      OBVIOUS
    <2> QED BY <1>3, <1>4, <2>1, <2>2, Zenon
  <1> QED BY <1>5, <1>6

LEMMA LeaveSound ==
    ASSUME NEW k, Sound(k), k.phase = "app", k.told \in {"nothing", "more"}
    PROVE  Sound([k EXCEPT !.told = "disconnect"])
  <1> DEFINE j == [k EXCEPT !.told = "disconnect"]
  <1>1. k \in Conn /\ ~k.exceeded /\ k.received = k.sent
    BY DEF Sound, CountIsExact
  <1>2. j \in Conn
    BY <1>1, FieldTypes
  <1>3. /\ j.phase = "app" /\ j.declared = k.declared
        /\ j.sent = k.sent /\ j.received = k.sent /\ ~j.exceeded
        /\ j.told = "disconnect" /\ j.said = k.said /\ j.started = k.started
        /\ j.rejected = k.rejected /\ j.wire = k.wire
    BY <1>1 DEF Conn
  <1> HIDE DEF j
  <1>4. Sound(j)
    BY <1>1, <1>2, <1>3 DEF Sound, CountIsExact, Passing, Standing
  <1> QED BY <1>4 DEF j

\* limiting_send(): the message passes, is replaced, or is dropped.
LEMMA SaySound ==
    ASSUME NEW k, Sound(k), k.phase = "app", NEW m \in Message, Protocol(k.said, m)
    PROVE  LET heard == [k EXCEPT !.said = Says(k.said, m)] IN
           /\ Passes(k) => Sound([heard EXCEPT !.started = TRUE, !.wire = Append(@, m)])
           /\ ~Passes(k) /\ ~k.rejected =>
                  Sound(Refusing([heard EXCEPT !.rejected = TRUE]))
           /\ ~Passes(k) /\ k.rejected => Sound(heard)
  <1> DEFINE h == [k EXCEPT !.said = Says(k.said, m)]
  <1>1. k \in Conn
    BY DEF Sound
  <1>2. Says(k.said, m) \in {"started", "ended"} /\ (Says(k.said, m) = "ended" <=> m = End)
    BY DEF Says
  <1>3. h \in Conn
    BY <1>1, <1>2, FieldTypes
  <1>4. /\ h.phase = "app" /\ h.declared = k.declared /\ h.sent = k.sent
        /\ h.received = k.received /\ h.told = k.told /\ h.said = Says(k.said, m)
        /\ h.exceeded = k.exceeded /\ h.started = k.started
        /\ h.rejected = k.rejected /\ h.wire = k.wire
    BY <1>1 DEF Conn
  <1> HIDE DEF h
  <1>5. ASSUME Passes(k)
        PROVE  Sound([h EXCEPT !.started = TRUE, !.wire = Append(@, m)])
    <2> DEFINE w == Append(h.wire, m)
               i == [h EXCEPT !.started = TRUE]
               j == [h EXCEPT !.started = TRUE, !.wire = w]
    <2>1. /\ k.wire \in Seq(Message) /\ WellFormed(k.wire)
          /\ \/ k.wire = <<>> /\ m.type = "start"
             \/ k.wire # <<>> /\ m.type = "body" /\ k.wire[Len(k.wire)] # End
      <3>1. k.wire \in Seq(Message)
        BY <1>1 DEF Conn
      <3>2. CASE k.started
        BY <1>1, <3>1, <3>2 DEF Sound, Passing, Protocol, Begins
      <3>3. CASE ~k.started
        <4>1. ~k.exceeded /\ ~k.rejected
          BY <1>5, <3>3 DEF Passes, Sound, Standing
        <4>2. k.wire = <<>> /\ k.said = "nothing"
          BY <3>3, <4>1 DEF Sound, Standing
        <4> QED BY <3>1, <4>2, RefusalFacts DEF Protocol
      <3> QED BY <3>2, <3>3
    <2>2. /\ w \in Seq(Message) /\ WellFormed(w) /\ Begins(w) /\ w[Len(w)] = m
      BY <1>4, <2>1, AppendFacts
    <2> HIDE DEF w
    <2>3. i \in Conn
      BY <1>3, FieldTypes
    <2>4. [i EXCEPT !.wire = w] \in Conn
      <3> HIDE DEF i
      <3> QED BY <2>2, <2>3, FieldTypes
    <2>5. j \in Conn
      BY <2>4
    <2>6. /\ j.phase = "app" /\ j.declared = k.declared /\ j.sent = k.sent
          /\ j.received = k.received /\ j.told = k.told /\ j.said = Says(k.said, m)
          /\ j.exceeded = k.exceeded /\ j.started
          /\ j.rejected = k.rejected /\ j.wire = w
      BY <1>3, <1>4 DEF Conn
    <2> HIDE DEF j
    <2>7. ~k.rejected
      BY <1>5 DEF Passes, Sound, Passing, Standing
    <2>8. Passing(j)
      BY <1>2, <2>2, <2>6, <2>7 DEF Passing
    <2>9. CountIsExact(j)
      BY <2>6 DEF Sound, CountIsExact
    <2>10. Standing(j)
      BY <2>6 DEF Standing
    <2>11. Sound(j)
      BY <2>5, <2>8, <2>9, <2>10 DEF Sound
    <2> QED BY <2>11 DEF j, w
  <1>6. ASSUME ~Passes(k), ~k.rejected
        PROVE  Sound(Refusing([h EXCEPT !.rejected = TRUE]))
    <2> DEFINE i == [h EXCEPT !.rejected = TRUE]
    <2>1. i \in Conn
      BY <1>3, FieldTypes
    <2>2. /\ i.declared = k.declared /\ i.sent = k.sent
          /\ i.received = k.received /\ i.told = k.told
          /\ i.exceeded = k.exceeded /\ i.started = k.started
          /\ i.rejected /\ i.wire = k.wire
      BY <1>3, <1>4 DEF Conn
    <2> HIDE DEF i
    <2> DEFINE j == Refusing(i)
    <2>3. k.exceeded /\ ~k.started /\ k.wire = <<>>
      BY <1>6 DEF Passes, Sound, Standing
    <2>4. /\ j \in Conn /\ j.phase = "refusing" /\ j.declared = i.declared
          /\ j.sent = i.sent /\ j.received = i.received /\ j.told = i.told
          /\ j.exceeded = i.exceeded /\ j.started = i.started
          /\ j.rejected = i.rejected /\ j.wire = Append(i.wire, Start(TooLarge))
      BY <2>1, RefusingFields
    <2>5. j.wire = <<Start(TooLarge)>>
      BY <2>2, <2>3, <2>4, RefusalFacts
    <2> HIDE DEF j
    <2>6. Sound(j)
      BY <2>2, <2>3, <2>4, <2>5 DEF Sound, CountIsExact, Passing, Standing, TooLong
    <2> QED BY <2>6 DEF i, j
  <1>7. ASSUME ~Passes(k), k.rejected
        PROVE  Sound(h)
    <2>1. k.exceeded /\ ~k.started /\ k.wire = Refusal413
      BY <1>7 DEF Passes, Sound, Standing
    <2> QED BY <1>3, <1>4, <1>7, <2>1 DEF Sound, CountIsExact, Passing, Standing
  <1> QED BY <1>5, <1>6, <1>7 DEF h

\* The end of the 413.
LEMMA FinishSound ==
    ASSUME NEW k, Sound(k), k.phase = "refusing"
    PROVE  Sound([k EXCEPT !.phase = IF k.rejected THEN "app" ELSE "done",
                           !.wire = Append(@, End)])
  <1> DEFINE p == IF k.rejected THEN "app" ELSE "done"
             w == Append(k.wire, End)
             i == [k EXCEPT !.phase = p]
             j == [k EXCEPT !.phase = p, !.wire = w]
  <1>1. k \in Conn /\ ~k.started /\ k.wire = <<Start(TooLarge)>> /\ TooLong(k)
    BY DEF Sound, Passing, Standing
  <1>2. w = Refusal413 /\ w \in Seq(Message)
    BY <1>1, RefusalFacts
  <1>3. p \in {"idle", "app", "refusing", "done"} /\ (p = "app" <=> k.rejected)
        /\ (p = "done" <=> ~k.rejected)
    OBVIOUS
  <1> HIDE DEF p, w
  <1>4. i \in Conn
    BY <1>1, <1>3, FieldTypes
  <1>5. [i EXCEPT !.wire = w] \in Conn
    <2> HIDE DEF i
    <2> QED BY <1>2, <1>4, FieldTypes
  <1>6. j \in Conn
    BY <1>5
  <1>7. /\ j.phase = p /\ j.declared = k.declared /\ j.sent = k.sent
        /\ j.received = k.received /\ j.told = k.told /\ j.said = k.said
        /\ j.exceeded = k.exceeded /\ j.started = k.started
        /\ j.rejected = k.rejected /\ j.wire = Refusal413
    BY <1>1, <1>2 DEF Conn
  <1> HIDE DEF j
  <1>8. k.rejected => k.exceeded
    BY <1>1 DEF Sound, Standing
  <1>9. CountIsExact(j)
    BY <1>1, <1>3, <1>7, <1>8, LimitAssumption DEF Sound, CountIsExact, Conn
  <1>10. Standing(j) /\ Passing(j)
    BY <1>1, <1>3, <1>7, <1>8 DEF Standing, Passing, TooLong
  <1>11. Sound(j)
    BY <1>6, <1>9, <1>10 DEF Sound
  <1> QED BY <1>11 DEF j, p, w

\* The application returns, or raises.
LEMMA EndSound ==
    ASSUME NEW k, Sound(k), k.phase = "app"
    PROVE  /\ Unanswered(k) => Sound(Refusing(k))
           /\ ~Unanswered(k) /\ (k.said = "ended" \/ k.told = "disconnect") =>
                  Sound(Closed(k))
           /\ k.told # "disconnect" => Sound(Closed(k))
  <1>1. k \in Conn /\ k.wire \in Seq(Message)
    BY DEF Sound, Conn
  <1>2. ASSUME Unanswered(k)
        PROVE  Sound(Refusing(k))
    <2> DEFINE j == Refusing(k)
    <2>1. k.exceeded /\ ~k.started /\ ~k.rejected /\ k.wire = <<>>
      BY <1>2 DEF Unanswered, Sound, Standing
    <2>2. /\ j \in Conn /\ j.phase = "refusing" /\ j.declared = k.declared
          /\ j.sent = k.sent /\ j.received = k.received /\ j.told = k.told
          /\ j.exceeded = k.exceeded /\ j.started = k.started
          /\ j.rejected = k.rejected /\ j.wire = Append(k.wire, Start(TooLarge))
      BY <1>1, RefusingFields
    <2>3. j.wire = <<Start(TooLarge)>>
      BY <2>1, <2>2, RefusalFacts
    <2> HIDE DEF j
    <2>4. Sound(j)
      BY <2>1, <2>2, <2>3 DEF Sound, CountIsExact, Passing, Standing, TooLong
    <2> QED BY <2>4 DEF j
  <1>3. ASSUME ~Unanswered(k)
        PROVE  Sound(Closed(k))
    <2> DEFINE w == IF k.wire = <<>> THEN <<Start(ServerError), End>> ELSE k.wire
               i == [k EXCEPT !.phase = "done"]
               j == Closed(k)
    <2>1. w \in Seq(Message)
      BY <1>1, RefusalFacts
    <2>2. j = [k EXCEPT !.phase = "done", !.wire = w]
      BY DEF Closed
    <2> HIDE DEF w
    <2>3. i \in Conn
      BY <1>1, FieldTypes
    <2>4. [i EXCEPT !.wire = w] \in Conn
      <3> HIDE DEF i
      <3> QED BY <2>1, <2>3, FieldTypes
    <2>5. j \in Conn
      BY <2>2, <2>4
    <2>6. /\ j.phase = "done" /\ j.declared = k.declared
          /\ j.sent = k.sent /\ j.received = k.received /\ j.told = k.told
          /\ j.exceeded = k.exceeded /\ j.started = k.started
          /\ j.rejected = k.rejected /\ j.said = k.said /\ j.wire = w
      BY <1>1, <2>2 DEF Conn
    <2> HIDE DEF j
    <2>7. CountIsExact(j)
      BY <2>6 DEF Sound, CountIsExact
    <2>8. CASE k.started
      <3>1. k.wire # <<>> /\ w = k.wire
        BY <2>8 DEF Sound, Passing, Begins, w
      <3>2. Passing(j)
        BY <2>6, <2>8, <3>1 DEF Sound, Passing
      <3>3. Standing(j)
        BY <2>6, <2>8 DEF Standing
      <3> QED BY <2>5, <2>7, <3>2, <3>3 DEF Sound, j
    <2>9. CASE ~k.started /\ k.rejected
      <3>1. k.wire = Refusal413 /\ k.exceeded
        BY <2>9 DEF Sound, Standing
      <3>2. w = Refusal413
        BY <3>1 DEF w, Refusal413
      <3>3. TooLong(j)
        BY <2>6, <3>1 DEF TooLong, Sound, CountIsExact
      <3>4. Standing(j) /\ Passing(j)
        BY <2>6, <2>9, <3>2, <3>3 DEF Standing, Passing
      <3> QED BY <2>5, <2>7, <3>4 DEF Sound, j
    <2>10. CASE ~k.started /\ ~k.rejected
      <3>1. k.wire = <<>> /\ ~k.exceeded
        BY <1>3, <2>10 DEF Sound, Standing, Unanswered
      <3>2. w = <<Start(ServerError), End>>
        BY <3>1 DEF w
      <3>3. ~TooLong(j)
        BY <2>6, <3>1 DEF TooLong, Sound, CountIsExact
      <3>4. Standing(j) /\ Passing(j)
        BY <2>6, <2>10, <3>2, <3>3 DEF Standing, Passing
      <3> QED BY <2>5, <2>7, <3>4 DEF Sound, j
    <2>11. Sound(j)
      BY <2>8, <2>9, <2>10 DEF j
    <2> QED BY <2>11 DEF j
  <1>4. k.told # "disconnect" => ~Unanswered(k)
    BY DEF Unanswered, Sound, CountIsExact
  <1> QED BY <1>2, <1>3, <1>4

-----------------------------------------------------------------------------
(* The invariant.                                                          *)

LEMMA LimitInvInit == LimitInit => LimitInv
  BY InitSound DEF LimitInit, LimitInv, Sound

\* A step of one request leaves the others as they were.
LEMMA OneMoves ==
    ASSUME LimitInv, NEW c \in Conns, NEW k, Sound(k), conn' = [conn EXCEPT ![c] = k]
    PROVE  LimitInv'
  <1>1. k \in Conn
    BY DEF Sound
  <1>2. conn' \in [Conns -> Conn]
    BY <1>1 DEF LimitInv
  <1>3. \A d \in Conns : conn'[d] = IF d = c THEN k ELSE conn[d]
    BY DEF LimitInv
  <1>4. \A d \in Conns : Sound(conn'[d])
    <2> SUFFICES ASSUME NEW d \in Conns PROVE Sound(conn'[d])
      OBVIOUS
    <2>1. CASE d = c
      <3>1. conn'[d] = k
        BY <1>3, <2>1
      <3> QED BY <3>1
    <2>2. CASE d # c
      <3>1. conn'[d] = conn[d]
        BY <1>3, <2>2
      <3> QED BY <3>1 DEF LimitInv
    <2> QED BY <2>1, <2>2
  <1> QED BY <1>2, <1>4 DEF LimitInv

\* Whatever an application says, and whatever comes from the client.
LEMMA MoveKeeps ==
    ASSUME LimitInv, NEW d \in Conns,
           \/ Client(d) \/ FinishRefusal(d) \/ Return(d) \/ Raise(d)
           \/ \E m \in Message : Say(d, m)
    PROVE  LimitInv'
  <1>2. ASSUME NEW c \in Conns, NEW n \in Lengths, Arrive(c, n)
        PROVE  LimitInv'
    <2>1. n \in Nat /\ MaxBytes \in Nat
      BY LimitAssumption
    <2>2. CASE n > MaxBytes
      BY <1>2, <2>1, <2>2, ArriveSound, OneMoves DEF Arrive
    <2>3. CASE n <= MaxBytes
      BY <1>2, <2>1, <2>3, ArriveSound, OneMoves DEF Arrive
    <2> QED BY <2>1, <2>2, <2>3
  <1>3. ASSUME NEW c \in Conns, NEW n \in Sizes, NEW more \in BOOLEAN, Receive(c, n, more)
        PROVE  LimitInv'
    <2> DEFINE k == conn[c]
               t == IF more THEN "more" ELSE "end"
    <2>1. Sound(k) /\ k.phase = "app" /\ k.told \in {"nothing", "more"} /\ n \in Nat
      BY <1>3, LimitAssumption DEF LimitInv, Receive
    <2>2. CASE Counted(k, n) > MaxBytes
      <3>1. conn' = [conn EXCEPT ![c] = [k EXCEPT !.sent = @ + n, !.received = Counted(k, n),
                                                  !.exceeded = TRUE, !.told = "disconnect"]]
        BY <1>3, <2>2 DEF Receive, Exceeds
      <3> QED BY <2>1, <2>2, <3>1, ReadSound, OneMoves
    <2>3. CASE ~(Counted(k, n) > MaxBytes)
      <3>1. conn' = [conn EXCEPT ![c] = [k EXCEPT !.sent = @ + n, !.received = Counted(k, n),
                                                  !.exceeded = FALSE, !.told = t]]
        <4>1. Exceeds(Counted(k, n)) = FALSE
          BY <2>3 DEF Exceeds
        <4> QED BY <1>3, <4>1 DEF Receive
      <3> QED BY <2>1, <2>3, <3>1, ReadSound, OneMoves
    <2> QED BY <2>2, <2>3
  <1>4. ASSUME NEW c \in Conns, ClientGone(c)
        PROVE  LimitInv'
    <2> DEFINE k == [conn[c] EXCEPT !.told = "disconnect"]
    <2>1. Sound(conn[c])
      BY <1>4 DEF LimitInv
    <2>2. Sound(k)
      BY <1>4, <2>1, LeaveSound DEF ClientGone
    <2>3. conn' = [conn EXCEPT ![c] = k]
      BY <1>4 DEF ClientGone
    <2> HIDE DEF k
    <2> QED BY <1>4, <2>2, <2>3, OneMoves
  <1>5. ASSUME NEW c \in Conns, FinishRefusal(c)
        PROVE  LimitInv'
    <2>1. Sound(conn[c]) /\ conn[c].phase = "refusing"
      BY <1>5 DEF LimitInv, FinishRefusal
    <2> DEFINE k == [conn[c] EXCEPT !.phase = IF conn[c].rejected THEN "app" ELSE "done",
                                    !.wire = Append(@, End)]
    <2>2. Sound(k)
      BY <1>5, <2>1, FinishSound
    <2>3. conn' = [conn EXCEPT ![c] = k]
      BY <1>5 DEF FinishRefusal
    <2> HIDE DEF k
    <2> QED BY <1>5, <2>2, <2>3, OneMoves
  <1>6. ASSUME NEW c \in Conns, NEW m \in Message, Say(c, m)
        PROVE  LimitInv'
    <2>1. Sound(conn[c]) /\ conn[c].phase = "app" /\ Protocol(conn[c].said, m)
      BY <1>6 DEF LimitInv, Say
    <2> DEFINE h == [conn[c] EXCEPT !.said = Says(conn[c].said, m)]
               k1 == [h EXCEPT !.started = TRUE, !.wire = Append(@, m)]
               k2 == Refusing([h EXCEPT !.rejected = TRUE])
    <2>2. /\ Passes(conn[c]) => Sound(k1)
          /\ ~Passes(conn[c]) /\ ~conn[c].rejected => Sound(k2)
          /\ ~Passes(conn[c]) /\ conn[c].rejected => Sound(h)
      BY <1>6, <2>1, SaySound
    <2>3. \/ Passes(conn[c]) /\ conn' = [conn EXCEPT ![c] = k1]
          \/ ~Passes(conn[c]) /\ ~conn[c].rejected /\ conn' = [conn EXCEPT ![c] = k2]
          \/ ~Passes(conn[c]) /\ conn[c].rejected /\ conn' = [conn EXCEPT ![c] = h]
      BY <1>6 DEF Say
    <2> HIDE DEF h, k1, k2
    <2> QED BY <1>6, <2>2, <2>3, OneMoves
  <1>7. ASSUME NEW c \in Conns, Return(c)
        PROVE  LimitInv'
    <2>1. Sound(conn[c]) /\ conn[c].phase = "app"
      BY <1>7 DEF LimitInv, Return
    <2> QED BY <1>7, <2>1, EndSound, OneMoves DEF Return
  <1>8. ASSUME NEW c \in Conns, Raise(c)
        PROVE  LimitInv'
    <2>1. Sound(conn[c]) /\ conn[c].phase = "app"
      BY <1>8 DEF LimitInv, Raise
    <2> QED BY <1>8, <2>1, EndSound, OneMoves DEF Raise
  <1>9. ASSUME Client(d)
        PROVE  LimitInv'
    BY <1>2, <1>3, <1>4, <1>9 DEF Client
  <1>10. (\E m \in Message : Say(d, m)) => LimitInv'
    BY <1>6
  <1> QED BY <1>5, <1>7, <1>8, <1>9, <1>10

LEMMA LimitInvStep == LimitInv /\ [LimitNext]_conn => LimitInv'
  <1>1. \A s \in Answers : Start(s) \in Message
    BY LimitAssumption DEF Message, Statuses, TooLarge, ServerError
  <1>2. LimitInv /\ UNCHANGED conn => LimitInv'
    BY DEF LimitInv
  <1>3. LimitInv /\ LimitNext => LimitInv'
    BY <1>1, MessageFacts, MoveKeeps DEF LimitNext, Application
  <1> QED BY <1>2, <1>3

\* A request with a sound record has its one answer, and 413 where it is due.
LEMMA SoundMeans ==
    ASSUME LimitInv
    PROVE  LimitTypeOK /\ OneAnswer /\ RefusedForLength /\ WholeBodiesFit
  <1>1. LimitTypeOK
    BY DEF LimitInv, LimitTypeOK
  <1>2. ASSUME NEW c \in Conns
        PROVE  LET k == conn[c]  w == k.wire IN
               /\ WellFormed(w)
               /\ k.phase = "done" /\ TooLong(k) /\ ~k.started => w = Refusal413
               /\ (\E i \in DOMAIN w : w[i] = Start(TooLarge)) /\ ~k.started => TooLong(k)
               /\ k.told = "end" => ~TooLong(k)
    <2> DEFINE k == conn[c]
               w == k.wire
    <2>1. Sound(k) /\ k \in Conn
      BY DEF LimitInv, Sound
    <2> HIDE DEF k
    <2>2. ASSUME k.started
          PROVE  WellFormed(w)
      BY <2>1, <2>2 DEF Sound, Passing
    <2>3. ASSUME ~k.started
          PROVE  \/ w = <<>>
                 \/ w = <<Start(TooLarge)>> /\ TooLong(k) /\ k.phase = "refusing"
                 \/ w = Refusal413 /\ TooLong(k)
                 \/ w = <<Start(ServerError), End>> /\ ~TooLong(k)
      BY <2>1, <2>3 DEF Sound, Standing, CountIsExact, TooLong, Conn
    <2>4. WellFormed(w)
      BY <2>2, <2>3, RefusalFacts
    <2>5. k.phase = "done" /\ TooLong(k) /\ ~k.started => w = Refusal413
      BY <2>1 DEF Sound, Standing
    <2>6. (\E i \in DOMAIN w : w[i] = Start(TooLarge)) /\ ~k.started => TooLong(k)
      <3>1. w = <<>> => ~\E i \in DOMAIN w : w[i] = Start(TooLarge)
        OBVIOUS
      <3> QED BY <2>3, <3>1, RefusalFacts
    <2>7. k.told = "end" => ~TooLong(k)
      BY <2>1 DEF Sound, CountIsExact, TooLong
    <2> QED BY <2>4, <2>5, <2>6, <2>7 DEF k
  <1>3. OneAnswer
    BY <1>2 DEF OneAnswer, WellFormed
  <1>4. RefusedForLength
    BY <1>2 DEF RefusedForLength, Refusal413
  <1>5. WholeBodiesFit
    BY <1>2 DEF WholeBodiesFit
  <1> QED BY <1>1, <1>3, <1>4, <1>5

THEOREM LimitInvariance == LimitSpec => []LimitInv
  BY LimitInvInit, LimitInvStep, PTL DEF LimitSpec

\* The state of a request is what the middleware keeps of it.
THEOREM LimitTypeCorrect == LimitSpec => []LimitTypeOK
  <1>1. LimitInv => LimitTypeOK
    BY SoundMeans
  <1> QED BY <1>1, LimitInvariance, PTL

\* A client gets one answer, from the middleware or from the application.
THEOREM LimitGivesOneAnswer == LimitSpec => []OneAnswer
  <1>1. LimitInv => OneAnswer
    BY SoundMeans
  <1> QED BY <1>1, LimitInvariance, PTL

\* 413 for a body beyond the limit whose answer had not begun, and for no other.
THEOREM LimitRefusesForLength == LimitSpec => []RefusedForLength
  <1>1. LimitInv => RefusedForLength
    BY SoundMeans
  <1> QED BY <1>1, LimitInvariance, PTL

\* A handler never runs on a body that is too large.
THEOREM LimitLetsWholeBodiesFit == LimitSpec => []WholeBodiesFit
  <1>1. LimitInv => WholeBodiesFit
    BY SoundMeans
  <1> QED BY <1>1, LimitInvariance, PTL
=============================================================================
