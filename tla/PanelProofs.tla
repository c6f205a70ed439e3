---------------------------- MODULE PanelProofs ----------------------------
(***************************************************************************)
(* Theorems about Panel, for any number of browsers, connections, changes  *)
(* and faults, and buffers of any size.                                    *)
(***************************************************************************)
EXTENDS Panel, FiniteSetTheorems, TLAPS

InTodo(s, k) == \E i \in DOMAIN todo[s] : todo[s][i] = k

\* Each kind of sender has its own way through the code.
Places ==
    /\ pc[Ticker] \in {"idle", "snapshot", "copy", "send"}
    /\ \A b \in Browsers : pc[b] \in {"idle", "apply", "snapshot", "copy", "send", "reply"}
    /\ \A k \in Conns : pc[k] \in {"idle", "upgrade", "snapshot", "first", "reading"}
    /\ \A s \in Senders : todo[s] # <<>> <=> pc[s] = "send"

Applying == {b \in Browsers : pc[b] = "apply"}

\* Every change of the hardware was counted, those that are to come too.
Counted == IsFiniteSet(Applying) /\ version + Cardinality(Applying) <= inputs

\* No state is one the hardware has not had yet.
Past ==
    /\ \A s \in Senders : payload[s] <= version
    /\ \A k \in Conns : \A i \in DOMAIN queue[k] : queue[k][i] <= version
    /\ \A b \in Browsers : answer[b] # None => answer[b] <= version
    /\ \A b \in Browsers : shown[b] <= version
    /\ floor <= version

\* Nobody writes to a connection before it is registered.
NewIsEmpty ==
    \A k \in Conns :
        pc[k] = "upgrade" => queue[k] = <<>> /\ \A s \in Senders : ~InTodo(s, k)

OneBrowserEach == \A b, c \in Browsers : sock[b] # None /\ sock[b] = sock[c] => b = c

Carries(s) == pc[s] \in {"copy", "send", "reply", "first"}

\* No state older than the bound is on its way to a page, and the connections
\* of a set have nothing older as what was written to them last.
Since(bound, done) ==
    /\ \A s \in Senders : Carries(s) => payload[s] >= bound
    /\ \A b \in Browsers : answer[b] # None => answer[b] >= bound
    /\ \A k \in clients \cap done :
         link[k] = "up" /\ queue[k] # <<>> => Last(queue[k]) >= bound
    /\ \A b \in Browsers :
         Attached(b) /\ sock[b] \in done /\ queue[sock[b]] = <<>> => shown[b] >= bound

Served == {k \in Conns : pc[Ticker] = "send" /\ ~InTodo(Ticker, k)}

\* What a clean tick is about to achieve.
TickUnderWay ==
    clean => pc[Ticker] \in {"copy", "send"} /\ Since(payload[Ticker], Served)

Base ==
    /\ TypeOK
    /\ Places
    /\ Counted
    /\ Past
    /\ EveryClientIsAttended
    /\ NewIsEmpty
    /\ OneBrowserEach

IndInv == Base /\ Since(floor, Conns) /\ TickUnderWay

-----------------------------------------------------------------------------
(* The order of a broadcast, and the sizes of things                       *)

\* SetToSeqs lists every client, and nothing else.
LEMMA OrderListsClients ==
  ASSUME clients \subseteq Conns, NEW order \in SetToSeqs(clients)
  PROVE  /\ order \in Seq(Conns)
         /\ \A i \in DOMAIN order : order[i] \in clients
         /\ \A k \in clients : \E i \in DOMAIN order : order[i] = k
<1> DEFINE D == 1..Cardinality(clients)
<1>1. IsFiniteSet(clients)
  BY PanelAssumption, FS_Subset DEF PanelAssumption
<1>2. /\ Cardinality(clients) \in Nat
      /\ D = DOMAIN order
      /\ order \in [D -> clients]
      /\ \A i, j \in D : i # j => order[i] # order[j]
  BY <1>1, FS_CardinalityType DEF SetToSeqs
<1>3. order \in Injection(D, clients)
  BY <1>2 DEF Injection, IsInjective
<1>4. IsFiniteSet(D) /\ Cardinality(D) = Cardinality(clients)
  BY <1>2, FS_Interval
<1>5. order \in Surjection(D, clients)
  BY <1>1, <1>3, <1>4, FS_Injection
<1>6. \A k \in clients : \E i \in DOMAIN order : order[i] = k
  BY <1>2, <1>5 DEF Surjection
<1> QED BY <1>2, <1>6

\* What each kind of sender is and is not.
LEMMA Kinds ==
  /\ Ticker \in Senders /\ Ticker \notin Browsers /\ Ticker \notin Conns
  /\ Browsers \subseteq Senders /\ Conns \subseteq Senders
  /\ \A s \in Senders : s = Ticker \/ s \in Browsers \/ s \in Conns
  /\ \A b \in Browsers : b \notin Conns
  /\ None \notin Conns /\ None \notin Nat
  /\ 0 \in States /\ States \subseteq Nat
  /\ Capacity \in Nat \ {0}
BY PanelAssumption DEF PanelAssumption, Senders, States

\* A step that begins no write and ends none keeps the count.
LEMMA CountedIfSame ==
  ASSUME Counted, Applying' = Applying, version' = version,
         inputs \in Nat, inputs' \in Nat, inputs' >= inputs, version \in Nat
  PROVE  Counted'
BY FS_CardinalityType DEF Counted

\* An input that is counted is within its bound.
LEMMA Counters ==
  ASSUME TypeOK
  PROVE  /\ inputs \in Nat /\ faults \in Nat /\ version \in Nat
         /\ Input => inputs' \in 0..MaxInputs /\ inputs' = inputs + 1 /\ faults' = faults
         /\ Fault => faults' \in 0..MaxFaults /\ inputs' = inputs
BY PanelAssumption DEF PanelAssumption, TypeOK, States, Input, Fault

-----------------------------------------------------------------------------
(* Every step keeps the base of the invariant                              *)

\* What the hardware has had it has had after the next change too.
LEMMA PastGrows ==
  ASSUME TypeOK, Past, version' = version + 1, floor' = floor, queue' = queue,
         answer' = answer, shown' = shown,
         \A s \in Senders : payload'[s] \in {payload[s], version + 1}
  PROVE  Past'
<1>1. /\ version \in Nat /\ floor \in Nat
      /\ \A s \in Senders : payload[s] \in Nat
      /\ \A b \in Browsers : shown[b] \in Nat /\ (answer[b] # None => answer[b] \in Nat)
      /\ \A k \in Conns : \A i \in DOMAIN queue[k] : queue[k][i] \in Nat
  <2>1. version \in Nat /\ floor \in Nat /\ \A s \in Senders : payload[s] \in Nat
    BY Kinds DEF TypeOK
  <2>2. ASSUME NEW b \in Browsers
        PROVE  shown[b] \in Nat /\ (answer[b] # None => answer[b] \in Nat)
    BY Kinds DEF TypeOK
  <2>3. ASSUME NEW k \in Conns, NEW i \in DOMAIN queue[k] PROVE queue[k][i] \in Nat
    <3>1. queue[k] \in Seq(States)
      BY DEF TypeOK
    <3>2. queue[k][i] \in States
      BY <3>1
    <3> QED BY <3>2, Kinds
  <2> QED BY <2>1, <2>2, <2>3
<1>2. \A s \in Senders : payload'[s] <= version'
  BY <1>1 DEF Past
<1>3. \A k \in Conns : \A i \in DOMAIN queue'[k] : queue'[k][i] <= version'
  BY <1>1 DEF Past
<1>4. \A b \in Browsers : shown'[b] <= version' /\ (answer'[b] # None => answer'[b] <= version')
  BY <1>1 DEF Past
<1> QED BY <1>1, <1>2, <1>3, <1>4 DEF Past

\* A snapshot is as new as anything.
LEMMA TakeSnapshotKeepsBase ==
  ASSUME Base, NEW s \in Senders, TakeSnapshot(s)
  PROVE  Base'
<1> USE Kinds DEF Base, TakeSnapshot, NothingOlder, events, network, pages, server, history
<1>1. TypeOK'
  BY DEF TypeOK
<1>2. Places'
  BY DEF TypeOK, Places
<1>3. Counted'
  <2>1. Applying' = Applying
    BY DEF TypeOK, Places, Applying
  <2> QED BY <2>1, Counters, CountedIfSame
<1>4. Past'
  BY DEF TypeOK, Past, States
<1>5. EveryClientIsAttended'
  BY DEF TypeOK, EveryClientIsAttended
<1>6. NewIsEmpty'
  BY DEF TypeOK, NewIsEmpty, InTodo
<1>7. OneBrowserEach'
  BY DEF TypeOK, OneBrowserEach
<1> QED BY <1>1, <1>2, <1>3, <1>4, <1>5, <1>6, <1>7

\* The ticker fires.
LEMMA TickKeepsBase ==
  ASSUME Base, Tick
  PROVE  Base'
<1> USE Kinds DEF Base, Tick, events, network, pages, server, history
<1>1. TypeOK'
  BY DEF TypeOK
<1>2. Places'
  BY DEF TypeOK, Places
<1>3. Counted'
  <2>1. Applying' = Applying
    BY DEF TypeOK, Places, Applying
  <2> QED BY <2>1, Counters, CountedIfSame
<1>4. Past'
  BY DEF TypeOK, Past, States
<1>5. EveryClientIsAttended'
  BY DEF TypeOK, EveryClientIsAttended
<1>6. NewIsEmpty'
  BY DEF TypeOK, NewIsEmpty, InTodo
<1>7. OneBrowserEach'
  BY DEF TypeOK, OneBrowserEach
<1> QED BY <1>1, <1>2, <1>3, <1>4, <1>5, <1>6, <1>7

\* A request is counted as the change it may bring.
LEMMA AskKeepsBase ==
  ASSUME Base, NEW b \in Browsers, Ask(b)
  PROVE  Base'
<1> USE Kinds DEF Base, Ask, events, network, pages, server, history
<1>1. TypeOK'
  BY Counters DEF TypeOK
<1>2. Places'
  BY DEF TypeOK, Places
<1>3. Counted'
  <2>1. Applying' = Applying \/ Applying' = Applying \cup {b}
    BY DEF TypeOK, Applying
  <2>2. IsFiniteSet(Applying) /\ Cardinality(Applying) \in Nat
    BY FS_CardinalityType DEF Counted
  <2>3. /\ IsFiniteSet(Applying \cup {b})
        /\ Cardinality(Applying \cup {b}) \in {Cardinality(Applying), Cardinality(Applying) + 1}
    BY <2>2, FS_AddElement
  <2>4. IsFiniteSet(Applying') /\ Cardinality(Applying') <= Cardinality(Applying) + 1
    BY <2>1, <2>2, <2>3
  <2> QED BY <2>2, <2>4, Counters, FS_CardinalityType DEF Counted
<1>4. Past'
  BY DEF TypeOK, Past, States
<1>5. EveryClientIsAttended'
  BY DEF TypeOK, EveryClientIsAttended
<1>6. NewIsEmpty'
  BY DEF TypeOK, NewIsEmpty, InTodo
<1>7. OneBrowserEach'
  BY DEF TypeOK, OneBrowserEach
<1> QED BY <1>1, <1>2, <1>3, <1>4, <1>5, <1>6, <1>7

\* A write is the change that was counted.
LEMMA ApplyKeepsBase ==
  ASSUME Base, NEW b \in Browsers, Apply(b)
  PROVE  Base'
<1> USE Kinds DEF Base, Apply, events, network, pages, server, history
<1>1. TypeOK'
  <2>1. b \in Applying /\ IsFiniteSet(Applying)
    BY DEF Applying, Counted
  <2>2. Cardinality(Applying) \in Nat /\ Cardinality(Applying) # 0
    BY <2>1, FS_EmptySet, FS_CardinalityType
  <2>3. version + 1 <= inputs /\ inputs <= MaxInputs /\ inputs \in Nat /\ version \in Nat
    BY <2>2, Counters DEF Counted, TypeOK
  <2>4. version + 1 \in States
    BY <2>3, PanelAssumption DEF PanelAssumption, States
  <2> QED BY <2>4 DEF TypeOK
<1>2. Places'
  BY DEF TypeOK, Places
<1>3. Counted'
  <2>1. Applying' = Applying \ {b} /\ b \in Applying
    BY DEF TypeOK, Applying
  <2>2. IsFiniteSet(Applying') /\ Cardinality(Applying') = Cardinality(Applying) - 1
    BY <2>1, FS_RemoveElement DEF Counted
  <2> QED BY <2>2, Counters, FS_CardinalityType DEF Counted
<1>4. Past'
  BY PastGrows DEF TypeOK
<1>5. EveryClientIsAttended'
  BY DEF TypeOK, EveryClientIsAttended
<1>6. NewIsEmpty'
  BY DEF TypeOK, NewIsEmpty, InTodo
<1>7. OneBrowserEach'
  BY DEF TypeOK, OneBrowserEach
<1> QED BY <1>1, <1>2, <1>3, <1>4, <1>5, <1>6, <1>7

\* An answer leaves with the state of its handler.
LEMMA ReplyKeepsBase ==
  ASSUME Base, NEW b \in Browsers, Reply(b)
  PROVE  Base'
<1> USE Kinds DEF Base, Reply, events, network, pages, server, history
<1>1. TypeOK'
  BY Counters DEF TypeOK
<1>2. Places'
  BY DEF TypeOK, Places
<1>3. Counted'
  <2>1. Applying' = Applying
    BY DEF TypeOK, Places, Applying
  <2> QED BY <2>1, Counters, CountedIfSame
<1>4. Past'
  BY DEF TypeOK, Past, States
<1>5. EveryClientIsAttended'
  BY DEF TypeOK, EveryClientIsAttended
<1>6. NewIsEmpty'
  BY DEF TypeOK, NewIsEmpty, InTodo
<1>7. OneBrowserEach'
  BY DEF TypeOK, OneBrowserEach
<1> QED BY <1>1, <1>2, <1>3, <1>4, <1>5, <1>6, <1>7

\* A client is registered, or its connection closed.
LEMMA UpgradeKeepsBase ==
  ASSUME Base, NEW k \in Conns, Upgrade(k)
  PROVE  Base'
<1> USE Kinds DEF Base, Upgrade, events, network, pages, server, history
<1>1. TypeOK'
  BY DEF TypeOK
<1>2. Places'
  BY DEF TypeOK, Places
<1>3. Counted'
  <2>1. Applying' = Applying
    BY DEF TypeOK, Places, Applying
  <2> QED BY <2>1, Counters, CountedIfSame
<1>4. Past'
  BY DEF TypeOK, Past, States
<1>5. EveryClientIsAttended'
  BY DEF TypeOK, EveryClientIsAttended
<1>6. NewIsEmpty'
  BY DEF TypeOK, NewIsEmpty, InTodo
<1>7. OneBrowserEach'
  BY DEF TypeOK, OneBrowserEach
<1> QED BY <1>1, <1>2, <1>3, <1>4, <1>5, <1>6, <1>7

\* The first frame is written, or not.
LEMMA FirstWriteKeepsBase ==
  ASSUME Base, NEW k \in Conns, FirstWrite(k)
  PROVE  Base'
<1> USE Kinds DEF Base, FirstWrite, Accepts, Fails, Full, events, network, pages, server, history
<1>1. TypeOK'
  <2>1. /\ queue' \in [Conns -> Seq(States)]
        /\ \A j \in Conns : Len(queue'[j]) <= Capacity
    <3>1. CASE queue' = queue
      BY <3>1 DEF TypeOK
    <3>2. CASE /\ Len(queue[k]) < Capacity
               /\ queue' = [queue EXCEPT ![k] = Append(@, payload[k])]
      <4>1. /\ Append(queue[k], payload[k]) \in Seq(States)
            /\ Len(Append(queue[k], payload[k])) <= Capacity
        BY <3>2 DEF TypeOK
      <4> QED BY <3>2, <4>1 DEF TypeOK
    <3> QED BY <3>1, <3>2 DEF TypeOK
  <2> QED BY <2>1, Counters DEF TypeOK
<1>2. Places'
  BY DEF TypeOK, Places
<1>3. Counted'
  <2>1. Applying' = Applying
    BY DEF TypeOK, Places, Applying
  <2> QED BY <2>1, Counters, CountedIfSame
<1>4. Past'
  <2>1. \A j \in Conns : \A i \in DOMAIN queue'[j] : queue'[j][i] <= version
    <3> SUFFICES ASSUME NEW j \in Conns, NEW i \in DOMAIN queue'[j] PROVE queue'[j][i] <= version
      OBVIOUS
    <3>1. CASE queue'[j] = queue[j]
      BY <3>1 DEF Past
    <3>2. CASE queue'[j] = Append(queue[j], payload[k])
      BY <3>2 DEF Past, TypeOK
    <3> QED BY <3>1, <3>2 DEF TypeOK
  <2> QED BY <2>1 DEF TypeOK, Past, States
<1>5. EveryClientIsAttended'
  BY DEF TypeOK, EveryClientIsAttended
<1>6. NewIsEmpty'
  BY DEF TypeOK, NewIsEmpty, InTodo
<1>7. OneBrowserEach'
  BY DEF TypeOK, OneBrowserEach
<1> QED BY <1>1, <1>2, <1>3, <1>4, <1>5, <1>6, <1>7

\* The end of a read loop.
LEMMA ReadLoopEndsKeepsBase ==
  ASSUME Base, NEW k \in Conns, ReadLoopEnds(k)
  PROVE  Base'
<1> USE Kinds DEF Base, ReadLoopEnds, Unregister, events, network, pages, server, history
<1>1. TypeOK'
  BY Counters DEF TypeOK
<1>2. Places'
  BY DEF TypeOK, Places
<1>3. Counted'
  <2>1. Applying' = Applying
    BY DEF TypeOK, Places, Applying
  <2> QED BY <2>1, Counters, CountedIfSame
<1>4. Past'
  BY DEF TypeOK, Past, States
<1>5. EveryClientIsAttended'
  <2> SUFFICES ASSUME NEW j \in Conns
               PROVE  /\ j \in clients' => pc'[j] \in {"snapshot", "first", "reading"}
                      /\ link'[j] = "up" => j \in clients' \/ pc'[j] = "upgrade"
    BY DEF EveryClientIsAttended
  <2> QED BY DEF TypeOK, EveryClientIsAttended
<1>6. NewIsEmpty'
  BY DEF TypeOK, NewIsEmpty, InTodo
<1>7. OneBrowserEach'
  BY DEF TypeOK, OneBrowserEach
<1> QED BY <1>1, <1>2, <1>3, <1>4, <1>5, <1>6, <1>7

\* The end of a read loop whose deadline passed.
LEMMA KeepaliveMissedKeepsBase ==
  ASSUME Base, NEW k \in Conns, KeepaliveMissed(k)
  PROVE  Base'
<1> USE Kinds DEF Base, KeepaliveMissed, Unregister, events, network, pages, server, history
<1>1. TypeOK'
  BY Counters DEF TypeOK
<1>2. Places'
  BY DEF TypeOK, Places
<1>3. Counted'
  <2>1. Applying' = Applying
    BY DEF TypeOK, Places, Applying
  <2> QED BY <2>1, Counters, CountedIfSame
<1>4. Past'
  BY DEF TypeOK, Past, States
<1>5. EveryClientIsAttended'
  <2> SUFFICES ASSUME NEW j \in Conns
               PROVE  /\ j \in clients' => pc'[j] \in {"snapshot", "first", "reading"}
                      /\ link'[j] = "up" => j \in clients' \/ pc'[j] = "upgrade"
    BY DEF EveryClientIsAttended
  <2> QED BY DEF TypeOK, EveryClientIsAttended
<1>6. NewIsEmpty'
  BY DEF TypeOK, NewIsEmpty, InTodo
<1>7. OneBrowserEach'
  BY DEF TypeOK, OneBrowserEach
<1> QED BY <1>1, <1>2, <1>3, <1>4, <1>5, <1>6, <1>7

\* A browser takes a connection nobody uses.
LEMMA ConnectKeepsBase ==
  ASSUME Base, NEW b \in Browsers, Connect(b)
  PROVE  Base'
<1> USE Kinds DEF Base, Free, events, network, pages, server, history
<1> PICK k \in Conns :
        /\ Free(k)
        /\ sock[b] = None
        /\ sock' = [sock EXCEPT ![b] = k]
        /\ link' = [link EXCEPT ![k] = "up"]
        /\ queue' = [queue EXCEPT ![k] = <<>>]
        /\ pc' = [pc EXCEPT ![k] = "upgrade"]
        /\ UNCHANGED <<version, events, proc, payload, todo, clients, answer, shown, history>>
  BY DEF Connect
<1>1. TypeOK'
  <2>1. queue' \in [Conns -> Seq(States)] /\ \A j \in Conns : Len(queue'[j]) <= Capacity
    BY DEF TypeOK
  <2> QED BY <2>1 DEF TypeOK
<1>2. Places'
  BY DEF TypeOK, Places
<1>3. Counted'
  <2>1. Applying' = Applying
    BY DEF TypeOK, Places, Applying
  <2> QED BY <2>1, Counters, CountedIfSame
<1>4. Past'
  BY DEF TypeOK, Past, States
<1>5. EveryClientIsAttended'
  <2> SUFFICES ASSUME NEW j \in Conns
               PROVE  /\ j \in clients' => pc'[j] \in {"snapshot", "first", "reading"}
                      /\ link'[j] = "up" => j \in clients' \/ pc'[j] = "upgrade"
    BY DEF EveryClientIsAttended
  <2> QED BY DEF TypeOK, EveryClientIsAttended
<1>6. NewIsEmpty'
  BY DEF TypeOK, NewIsEmpty, InTodo
<1>7. OneBrowserEach'
  BY DEF TypeOK, OneBrowserEach
<1> QED BY <1>1, <1>2, <1>3, <1>4, <1>5, <1>6, <1>7

\* A browser gives up a connection.
LEMMA NoticeKeepsBase ==
  ASSUME Base, NEW b \in Browsers, Notice(b)
  PROVE  Base'
<1> USE Kinds DEF Base, Notice, events, network, pages, server, history
<1>1. TypeOK'
  <2>1. sock[b] \in Conns /\ queue' = [queue EXCEPT ![sock[b]] = <<>>]
    BY DEF TypeOK
  <2>2. <<>> \in Seq(States) /\ Len(<<>>) <= Capacity
    BY <2>1 DEF TypeOK
  <2>3. queue' \in [Conns -> Seq(States)] /\ \A j \in Conns : Len(queue'[j]) <= Capacity
    BY <2>1, <2>2 DEF TypeOK
  <2> QED BY <2>3 DEF TypeOK
<1>2. Places'
  BY DEF TypeOK, Places
<1>3. Counted'
  <2>1. Applying' = Applying
    BY DEF TypeOK, Places, Applying
  <2> QED BY <2>1, Counters, CountedIfSame
<1>4. Past'
  BY DEF TypeOK, Past, States
<1>5. EveryClientIsAttended'
  BY DEF TypeOK, EveryClientIsAttended
<1>6. NewIsEmpty'
  BY DEF TypeOK, NewIsEmpty, InTodo
<1>7. OneBrowserEach'
  BY DEF TypeOK, OneBrowserEach
<1> QED BY <1>1, <1>2, <1>3, <1>4, <1>5, <1>6, <1>7

\* A frame is shown.
LEMMA ReadFrameKeepsBase ==
  ASSUME Base, NEW b \in Browsers, ReadFrame(b)
  PROVE  Base'
<1> USE Kinds DEF Base, ReadFrame, events, network, pages, server, history
<1>1. TypeOK'
  <2>1. sock[b] \in Conns /\ queue' = [queue EXCEPT ![sock[b]] = Tail(queue[sock[b]])]
    BY DEF TypeOK
  <2>2. Tail(queue[sock[b]]) \in Seq(States) /\ Len(Tail(queue[sock[b]])) <= Capacity
    BY <2>1 DEF TypeOK
  <2>3. queue' \in [Conns -> Seq(States)] /\ \A j \in Conns : Len(queue'[j]) <= Capacity
    BY <2>1, <2>2 DEF TypeOK
  <2>4. Head(queue[sock[b]]) \in States
    BY <2>1 DEF TypeOK
  <2> QED BY <2>3, <2>4 DEF TypeOK
<1>2. Places'
  BY DEF TypeOK, Places
<1>3. Counted'
  <2>1. Applying' = Applying
    BY DEF TypeOK, Places, Applying
  <2> QED BY <2>1, Counters, CountedIfSame
<1>4. Past'
  <2>1. sock[b] \in Conns /\ queue' = [queue EXCEPT ![sock[b]] = Tail(@)]
    BY DEF TypeOK
  <2>2. \A j \in Conns : \A i \in DOMAIN queue'[j] : queue'[j][i] <= version
    <3> SUFFICES ASSUME NEW j \in Conns, NEW i \in DOMAIN queue'[j] PROVE queue'[j][i] <= version
      OBVIOUS
    <3>1. CASE queue'[j] = queue[j]
      BY <3>1 DEF Past
    <3>2. CASE queue'[j] = Tail(queue[j]) /\ queue[j] # <<>>
      BY <3>2 DEF Past, TypeOK
    <3> QED BY <2>1, <3>1, <3>2 DEF TypeOK
  <2>3. Head(queue[sock[b]]) <= version
    BY <2>1 DEF Past, TypeOK
  <2> QED BY <2>2, <2>3 DEF TypeOK, Past
<1>5. EveryClientIsAttended'
  BY DEF TypeOK, EveryClientIsAttended
<1>6. NewIsEmpty'
  BY DEF TypeOK, NewIsEmpty, InTodo
<1>7. OneBrowserEach'
  BY DEF TypeOK, OneBrowserEach
<1> QED BY <1>1, <1>2, <1>3, <1>4, <1>5, <1>6, <1>7

\* An answer is shown.
LEMMA TakeAnswerKeepsBase ==
  ASSUME Base, NEW b \in Browsers, TakeAnswer(b)
  PROVE  Base'
<1> USE Kinds DEF Base, TakeAnswer, events, network, pages, server, history
<1>1. TypeOK'
  BY DEF TypeOK
<1>2. Places'
  BY DEF TypeOK, Places
<1>3. Counted'
  <2>1. Applying' = Applying
    BY DEF TypeOK, Places, Applying
  <2> QED BY <2>1, Counters, CountedIfSame
<1>4. Past'
  BY DEF TypeOK, Past, States
<1>5. EveryClientIsAttended'
  BY DEF TypeOK, EveryClientIsAttended
<1>6. NewIsEmpty'
  BY DEF TypeOK, NewIsEmpty, InTodo
<1>7. OneBrowserEach'
  BY DEF TypeOK, OneBrowserEach
<1> QED BY <1>1, <1>2, <1>3, <1>4, <1>5, <1>6, <1>7

\* The hardware moves.
LEMMA ChangeKeepsBase ==
  ASSUME Base, Change
  PROVE  Base'
<1> USE Kinds DEF Base, Change, events, network, pages, server, history
<1>1. TypeOK'
  <2>1. Cardinality(Applying) \in Nat
    BY FS_CardinalityType DEF Counted
  <2>2. version + 1 <= MaxInputs /\ version \in Nat /\ MaxInputs \in Nat
    BY <2>1, Counters, PanelAssumption DEF Counted, TypeOK, Input, PanelAssumption
  <2>3. version + 1 \in States
    BY <2>2 DEF States
  <2> QED BY <2>3, Counters DEF TypeOK
<1>2. Places'
  BY DEF TypeOK, Places
<1>3. Counted'
  <2>1. Applying' = Applying
    BY DEF Applying
  <2> QED BY <2>1, Counters, FS_CardinalityType DEF Counted
<1>4. Past'
  BY PastGrows DEF TypeOK
<1>5. EveryClientIsAttended'
  BY DEF TypeOK, EveryClientIsAttended
<1>6. NewIsEmpty'
  BY DEF TypeOK, NewIsEmpty, InTodo
<1>7. OneBrowserEach'
  BY DEF TypeOK, OneBrowserEach
<1> QED BY <1>1, <1>2, <1>3, <1>4, <1>5, <1>6, <1>7

\* A connection breaks, or the process is told to stop or started.
LEMMA WorldKeepsBase ==
  ASSUME Base, (\E k \in Conns : Break(k)) \/ Terminate \/ Restart
  PROVE  Base'
<1> USE Kinds DEF Base, Break, Terminate, Restart, events, network, pages, server, history
<1>1. TypeOK'
  <2>1. inputs' = inputs /\ faults' \in 0..MaxFaults
    BY Counters DEF TypeOK
  <2>2. link' \in [Conns -> {"up", "lost", "ended", "closed"}]
    BY DEF TypeOK
  <2>3. proc' \in {"up", "stopping", "down"}
    BY DEF TypeOK
  <2> QED BY <2>1, <2>2, <2>3 DEF TypeOK
<1>2. Places'
  BY DEF TypeOK, Places
<1>3. Counted'
  <2>1. Applying' = Applying
    BY DEF TypeOK, Places, Applying
  <2> QED BY <2>1, Counters, CountedIfSame
<1>4. Past'
  BY DEF TypeOK, Past, States
<1>5. EveryClientIsAttended'
  BY DEF TypeOK, EveryClientIsAttended
<1>6. NewIsEmpty'
  BY DEF TypeOK, NewIsEmpty, InTodo
<1>7. OneBrowserEach'
  BY DEF TypeOK, OneBrowserEach
<1> QED BY <1>1, <1>2, <1>3, <1>4, <1>5, <1>6, <1>7

\* The process ends, with all its senders.
LEMMA ExitKeepsBase ==
  ASSUME Base, Exit
  PROVE  Base'
<1> USE Kinds DEF Base, Exit, events, network, pages, server, history
<1>1. TypeOK'
  <2>1. inputs' = inputs /\ faults' \in 0..MaxFaults
    BY Counters DEF TypeOK
  <2>2. pc' \in [Senders -> {"idle"}] /\ payload' \in [Senders -> States]
    BY DEF TypeOK
  <2>3. todo' \in [Senders -> Seq(Conns)] /\ link' \in [Conns -> {"closed"}]
    OBVIOUS
  <2> QED BY <2>1, <2>2, <2>3 DEF TypeOK
<1>2. Places'
  BY DEF TypeOK, Places
<1>3. Counted'
  <2>1. Applying' = {}
    BY DEF Applying
  <2> QED BY <2>1, Counters, FS_EmptySet, FS_CardinalityType DEF Counted
<1>4. Past'
  BY DEF TypeOK, Past, States
<1>5. EveryClientIsAttended'
  BY DEF TypeOK, EveryClientIsAttended
<1>6. NewIsEmpty'
  BY DEF TypeOK, NewIsEmpty, InTodo
<1>7. OneBrowserEach'
  BY DEF TypeOK, OneBrowserEach
<1> QED BY <1>1, <1>2, <1>3, <1>4, <1>5, <1>6, <1>7

\* What any sender leaves behind when it goes on with its broadcast.
LEMMA ContinueKeepsBase ==
  ASSUME Base, NEW s \in Senders, pc[s] \in {"copy", "send"},
         NEW rest \in Seq(Conns), Continue(s, rest),
         UNCHANGED <<version, pages>>,
         events' \in (0..MaxInputs) \X (0..MaxFaults), inputs' = inputs,
         clients' \subseteq clients,
         link' \in [Conns -> {"up", "lost", "ended", "closed"}],
         \A k \in Conns : link'[k] = "up" => link[k] = "up" /\ (k \in clients => k \in clients'),
         queue' \in [Conns -> Seq(States)],
         \A k \in Conns : Len(queue'[k]) <= Capacity,
         \A k \in Conns : \A i \in DOMAIN queue'[k] : queue'[k][i] <= version,
         \A k \in Conns : pc[k] = "upgrade" => queue'[k] = queue[k],
         \A i \in DOMAIN rest : rest[i] \in clients \/ InTodo(s, rest[i])
  PROVE  Base'
<1> USE Kinds DEF Base, Continue
<1>1. s \notin Conns /\ pc'[s] \in {"send", "idle", "reply"} /\ (pc'[s] = "idle" => s = Ticker)
      /\ (pc'[s] = "reply" => s \in Browsers) /\ (rest # <<>> <=> pc'[s] = "send")
      /\ pc' = [pc EXCEPT ![s] = pc'[s]]
  BY DEF TypeOK, Places
<1>2. payload' \in [Senders -> States] /\ \A r \in Senders : payload'[r] \in {payload[r], 0}
  <2>1. CASE payload' = payload
    BY <2>1 DEF TypeOK
  <2>2. CASE payload' = [payload EXCEPT ![s] = 0]
    BY <2>2 DEF TypeOK
  <2> QED BY <2>1, <2>2
<1>3. floor' \in {floor, payload[s]} /\ clean' \in BOOLEAN
  BY DEF TypeOK
<1>4. TypeOK'
  <2>1. todo' \in [Senders -> Seq(Conns)]
    BY DEF TypeOK
  <2>2. /\ version' \in States /\ proc' \in {"up", "stopping", "down"}
        /\ clients' \subseteq Conns /\ floor' \in States
        /\ sock' \in [Browsers -> Conns \cup {None}]
        /\ answer' \in [Browsers -> States \cup {None}]
        /\ shown' \in [Browsers -> States]
    BY <1>3 DEF TypeOK, pages
  <2>3. pc' \in [Senders -> {"idle", "apply", "snapshot", "copy", "send", "reply",
                             "upgrade", "first", "reading"}]
    BY <1>1 DEF TypeOK
  <2>4. inputs' \in 0..MaxInputs /\ faults' \in 0..MaxFaults
    BY DEF events
  <2> QED BY <1>2, <1>3, <2>1, <2>2, <2>3, <2>4 DEF TypeOK
<1>5. Places'
  BY <1>1 DEF TypeOK, Places
<1>6. Counted'
  <2>1. Applying' = Applying
    BY <1>1 DEF Applying, TypeOK
  <2> QED BY <2>1, Counters, CountedIfSame
<1>7. Past'
  <2>1. \A r \in Senders : payload'[r] <= version'
    BY <1>2, Counters DEF Past
  <2>2. floor' <= version'
    BY <1>3 DEF Past
  <2> QED BY <2>1, <2>2 DEF Past, pages
<1>8. EveryClientIsAttended'
  <2> SUFFICES ASSUME NEW j \in Conns
               PROVE  /\ j \in clients' => pc'[j] \in {"snapshot", "first", "reading"}
                      /\ link'[j] = "up" => j \in clients' \/ pc'[j] = "upgrade"
    BY DEF EveryClientIsAttended
  <2>1. pc'[j] = pc[j]
    BY <1>1 DEF TypeOK
  <2> QED BY <2>1 DEF EveryClientIsAttended
<1>9. NewIsEmpty'
  <2> SUFFICES ASSUME NEW j \in Conns, pc'[j] = "upgrade"
               PROVE  queue'[j] = <<>> /\ \A r \in Senders : ~InTodo(r, j)'
    BY DEF NewIsEmpty
  <2>1. pc[j] = "upgrade" /\ j \notin clients /\ queue[j] = <<>> /\ \A r \in Senders : ~InTodo(r, j)
    BY <1>1 DEF TypeOK, NewIsEmpty, EveryClientIsAttended
  <2>2. \A i \in DOMAIN rest : rest[i] # j
    BY <2>1
  <2> QED BY <2>1, <2>2 DEF InTodo, TypeOK
<1>10. OneBrowserEach'
  BY DEF OneBrowserEach, pages
<1> QED BY <1>4, <1>5, <1>6, <1>7, <1>8, <1>9, <1>10

\* The clients are copied.
LEMMA CopyKeepsBase ==
  ASSUME Base, NEW s \in Senders, Copy(s)
  PROVE  Base'
<1>1. PICK order \in SetToSeqs(clients) : Continue(s, order)
  BY DEF Copy
<1>2. order \in Seq(Conns) /\ \A i \in DOMAIN order : order[i] \in clients
  BY OrderListsClients DEF Base, TypeOK
<1> QED
  BY <1>1, <1>2, ContinueKeepsBase DEF Copy, Base, TypeOK, Past, network, pages, events

\* A frame of a broadcast is written, or not.
LEMMA SendKeepsBase ==
  ASSUME Base, NEW s \in Senders, Send(s)
  PROVE  Base'
<1> DEFINE k == Head(todo[s])
<1>1. /\ pc[s] = "send" /\ todo[s] \in Seq(Conns) /\ todo[s] # <<>>
      /\ Continue(s, Tail(todo[s])) /\ UNCHANGED <<version, pages>>
  BY DEF Send, Base, Places, TypeOK
<1>2. k \in Conns /\ Tail(todo[s]) \in Seq(Conns) /\ InTodo(s, k)
      /\ \A i \in DOMAIN Tail(todo[s]) : InTodo(s, Tail(todo[s])[i])
  <2>1. k \in Conns /\ Tail(todo[s]) \in Seq(Conns) /\ InTodo(s, k)
    BY <1>1 DEF InTodo
  <2>2. ASSUME NEW i \in DOMAIN Tail(todo[s]) PROVE InTodo(s, Tail(todo[s])[i])
    <3>1. i + 1 \in DOMAIN todo[s] /\ todo[s][i + 1] = Tail(todo[s])[i]
      BY <1>1
    <3> QED BY <3>1 DEF InTodo
  <2> QED BY <2>1, <2>2
<1>3. pc[k] # "upgrade"
  BY <1>2 DEF Base, NewIsEmpty
<1>4. events' \in (0..MaxInputs) \X (0..MaxFaults) /\ inputs' = inputs
  BY Counters DEF Send, Accepts, Fails, events, Base, TypeOK
<1>5. CASE Accepts(k, payload[s]) /\ UNCHANGED clients
  <2>0. /\ queue[k] \in Seq(States) /\ payload[s] \in States /\ payload[s] <= version
        /\ \A i \in DOMAIN queue[k] : queue[k][i] <= version
        /\ ~Full(k)
    BY <1>2, <1>5 DEF Accepts, Base, TypeOK, Past
  <2>1. /\ Append(queue[k], payload[s]) \in Seq(States)
        /\ Len(Append(queue[k], payload[s])) <= Capacity
        /\ \A i \in DOMAIN Append(queue[k], payload[s]) : Append(queue[k], payload[s])[i] <= version
    BY <2>0, Kinds DEF Full
  <2>2. /\ queue' = [queue EXCEPT ![k] = Append(queue[k], payload[s])] /\ link' = link
        /\ queue \in [Conns -> Seq(States)] /\ \A j \in Conns : Len(queue[j]) <= Capacity
        /\ \A j \in Conns : \A i \in DOMAIN queue[j] : queue[j][i] <= version
        /\ link \in [Conns -> {"up", "lost", "ended", "closed"}]
    BY <1>5 DEF Accepts, Base, TypeOK, Past
  <2>3. /\ queue' \in [Conns -> Seq(States)] /\ \A j \in Conns : Len(queue'[j]) <= Capacity
        /\ \A j \in Conns : \A i \in DOMAIN queue'[j] : queue'[j][i] <= version
        /\ \A j \in Conns : pc[j] = "upgrade" => queue'[j] = queue[j]
    BY <1>2, <1>3, <2>1, <2>2
  <2> QED BY <1>1, <1>2, <1>4, <1>5, <2>2, <2>3, ContinueKeepsBase
<1>6. CASE Fails(k) /\ Unregister(k)
  <2>1. queue' = queue /\ clients' = clients \ {k}
        /\ link' = IF k \in clients THEN [link EXCEPT ![k] = "closed"] ELSE link
    BY <1>6 DEF Fails, Unregister
  <2>2. /\ queue \in [Conns -> Seq(States)] /\ \A j \in Conns : Len(queue[j]) <= Capacity
        /\ \A j \in Conns : \A i \in DOMAIN queue[j] : queue[j][i] <= version
        /\ link \in [Conns -> {"up", "lost", "ended", "closed"}]
    BY DEF Base, TypeOK, Past
  <2>3. /\ link' \in [Conns -> {"up", "lost", "ended", "closed"}]
        /\ \A j \in Conns : link'[j] = "up" => link[j] = "up" /\ (j \in clients => j \in clients')
    BY <1>2, <2>1, <2>2
  <2> QED BY <1>1, <1>2, <1>4, <2>1, <2>2, <2>3, ContinueKeepsBase
<1> QED BY <1>5, <1>6 DEF Send

-----------------------------------------------------------------------------
(* No step brings anything older than a bound it had                       *)

\* A snapshot is not older.
LEMMA TakeSnapshotKeepsSince ==
  ASSUME Base, NEW bound \in Nat, bound <= version, NEW done \in SUBSET Conns,
         Since(bound, done), NEW s \in Senders, TakeSnapshot(s)
  PROVE  Since(bound, done)'
<1> USE Kinds DEF Base, Carries, Since, TakeSnapshot, events, network, pages, server, history
<1>1. \A r \in Senders : Carries(r)' => payload'[r] >= bound
  BY DEF TypeOK, Places
<1>2. \A c \in Browsers : answer'[c] # None => answer'[c] >= bound
  BY DEF TypeOK
<1>3. \A j \in clients' \cap done :
        link'[j] = "up" /\ queue'[j] # <<>> => Last(queue'[j]) >= bound
  BY DEF TypeOK
<1>4. \A c \in Browsers :
        Attached(c)' /\ sock'[c] \in done /\ queue'[sock'[c]] = <<>> => shown'[c] >= bound
  BY DEF TypeOK, Attached
<1> QED BY <1>1, <1>2, <1>3, <1>4

\* Handlers begin, write the hardware, and answer.
LEMMA HandlersKeepSince ==
  ASSUME Base, NEW bound \in Nat, bound <= version, NEW done \in SUBSET Conns,
         Since(bound, done), NEW b \in Browsers, Ask(b) \/ Apply(b) \/ Reply(b)
  PROVE  Since(bound, done)'
<1> USE Kinds DEF Base, Carries, Since, Ask, Apply, Reply, Input, events, network, pages, server, history
<1>1. \A r \in Senders : Carries(r)' => payload'[r] >= bound
  BY DEF TypeOK, Places
<1>2. \A c \in Browsers : answer'[c] # None => answer'[c] >= bound
  BY DEF TypeOK
<1>3. \A j \in clients' \cap done :
        link'[j] = "up" /\ queue'[j] # <<>> => Last(queue'[j]) >= bound
  BY DEF TypeOK
<1>4. \A c \in Browsers :
        Attached(c)' /\ sock'[c] \in done /\ queue'[sock'[c]] = <<>> => shown'[c] >= bound
  BY DEF TypeOK, Attached
<1> QED BY <1>1, <1>2, <1>3, <1>4

\* The ticker fires.
LEMMA TickKeepsSince ==
  ASSUME Base, NEW bound \in Nat, bound <= version, NEW done \in SUBSET Conns,
         Since(bound, done), Tick
  PROVE  Since(bound, done)'
<1> USE Kinds DEF Base, Carries, Since, Tick, events, network, pages, server, history
<1>1. \A r \in Senders : Carries(r)' => payload'[r] >= bound
  BY DEF TypeOK, Places
<1>2. \A c \in Browsers : answer'[c] # None => answer'[c] >= bound
  BY DEF TypeOK
<1>3. \A j \in clients' \cap done :
        link'[j] = "up" /\ queue'[j] # <<>> => Last(queue'[j]) >= bound
  BY DEF TypeOK
<1>4. \A c \in Browsers :
        Attached(c)' /\ sock'[c] \in done /\ queue'[sock'[c]] = <<>> => shown'[c] >= bound
  BY DEF TypeOK, Attached
<1> QED BY <1>1, <1>2, <1>3, <1>4

\* A client that is registered has an empty queue.
LEMMA UpgradeKeepsSince ==
  ASSUME Base, NEW bound \in Nat, bound <= version, NEW done \in SUBSET Conns,
         Since(bound, done), NEW k \in Conns, Upgrade(k)
  PROVE  Since(bound, done)'
<1> USE Kinds DEF Base, Carries, Since, Upgrade, NewIsEmpty, events, network, pages, server, history
<1>1. \A r \in Senders : Carries(r)' => payload'[r] >= bound
  BY DEF TypeOK, Places
<1>2. \A c \in Browsers : answer'[c] # None => answer'[c] >= bound
  BY DEF TypeOK
<1>3. \A j \in clients' \cap done :
        link'[j] = "up" /\ queue'[j] # <<>> => Last(queue'[j]) >= bound
  BY DEF TypeOK
<1>4. \A c \in Browsers :
        Attached(c)' /\ sock'[c] \in done /\ queue'[sock'[c]] = <<>> => shown'[c] >= bound
  BY DEF TypeOK, Attached
<1> QED BY <1>1, <1>2, <1>3, <1>4

\* A client is removed.
LEMMA ReadLoopKeepsSince ==
  ASSUME Base, NEW bound \in Nat, bound <= version, NEW done \in SUBSET Conns,
         Since(bound, done), NEW k \in Conns, ReadLoopEnds(k) \/ KeepaliveMissed(k)
  PROVE  Since(bound, done)'
<1> USE Kinds DEF Base, Carries, Since, ReadLoopEnds, KeepaliveMissed, Unregister, Fault, events, network, pages, server, history
<1>1. \A r \in Senders : Carries(r)' => payload'[r] >= bound
  BY DEF TypeOK, Places
<1>2. \A c \in Browsers : answer'[c] # None => answer'[c] >= bound
  BY DEF TypeOK
<1>3. \A j \in clients' \cap done :
        link'[j] = "up" /\ queue'[j] # <<>> => Last(queue'[j]) >= bound
  BY DEF TypeOK
<1>4. \A c \in Browsers :
        Attached(c)' /\ sock'[c] \in done /\ queue'[sock'[c]] = <<>> => shown'[c] >= bound
  BY DEF TypeOK, Attached
<1> QED BY <1>1, <1>2, <1>3, <1>4

\* A browser gives up its connection.
LEMMA NoticeKeepsSince ==
  ASSUME Base, NEW bound \in Nat, bound <= version, NEW done \in SUBSET Conns,
         Since(bound, done), NEW b \in Browsers, Notice(b)
  PROVE  Since(bound, done)'
<1> USE Kinds DEF Base, Carries, Since, Notice, OneBrowserEach, events, network, pages, server, history
<1>1. \A r \in Senders : Carries(r)' => payload'[r] >= bound
  BY DEF TypeOK, Places
<1>2. \A c \in Browsers : answer'[c] # None => answer'[c] >= bound
  BY DEF TypeOK
<1>3. \A j \in clients' \cap done :
        link'[j] = "up" /\ queue'[j] # <<>> => Last(queue'[j]) >= bound
  BY DEF TypeOK
<1>4. \A c \in Browsers :
        Attached(c)' /\ sock'[c] \in done /\ queue'[sock'[c]] = <<>> => shown'[c] >= bound
  BY DEF TypeOK, Attached
<1> QED BY <1>1, <1>2, <1>3, <1>4

\* An answer is shown.
LEMMA TakeAnswerKeepsSince ==
  ASSUME Base, NEW bound \in Nat, bound <= version, NEW done \in SUBSET Conns,
         Since(bound, done), NEW b \in Browsers, TakeAnswer(b)
  PROVE  Since(bound, done)'
<1> USE Kinds DEF Base, Carries, Since, TakeAnswer, events, network, pages, server, history
<1>1. \A r \in Senders : Carries(r)' => payload'[r] >= bound
  BY DEF TypeOK, Places
<1>2. \A c \in Browsers : answer'[c] # None => answer'[c] >= bound
  BY DEF TypeOK
<1>3. \A j \in clients' \cap done :
        link'[j] = "up" /\ queue'[j] # <<>> => Last(queue'[j]) >= bound
  BY DEF TypeOK
<1>4. \A c \in Browsers :
        Attached(c)' /\ sock'[c] \in done /\ queue'[sock'[c]] = <<>> => shown'[c] >= bound
  BY DEF TypeOK, Attached
<1> QED BY <1>1, <1>2, <1>3, <1>4

\* The hardware moves, a connection breaks, the process ends or starts.
LEMMA WorldKeepsSince ==
  ASSUME Base, NEW bound \in Nat, bound <= version, NEW done \in SUBSET Conns,
         Since(bound, done), Change \/ (\E k \in Conns : Break(k)) \/ Terminate \/ Restart \/ Exit
  PROVE  Since(bound, done)'
<1> USE Kinds DEF Base, Carries, Since, Change, Break, Terminate, Restart, Exit, Input, Fault, events, network, pages, server, history
<1>1. \A r \in Senders : Carries(r)' => payload'[r] >= bound
  BY DEF TypeOK, Places
<1>2. \A c \in Browsers : answer'[c] # None => answer'[c] >= bound
  BY DEF TypeOK
<1>3. \A j \in clients' \cap done :
        link'[j] = "up" /\ queue'[j] # <<>> => Last(queue'[j]) >= bound
  BY DEF TypeOK
<1>4. \A c \in Browsers :
        Attached(c)' /\ sock'[c] \in done /\ queue'[sock'[c]] = <<>> => shown'[c] >= bound
  BY DEF TypeOK, Attached
<1> QED BY <1>1, <1>2, <1>3, <1>4

\* A browser takes a connection that is not registered.
LEMMA ConnectKeepsSince ==
  ASSUME Base, NEW bound \in Nat, bound <= version, NEW done \in SUBSET Conns,
         Since(bound, done), NEW b \in Browsers, Connect(b)
  PROVE  Since(bound, done)'
<1> PICK k \in Conns :
        /\ Free(k)
        /\ sock' = [sock EXCEPT ![b] = k]
        /\ link' = [link EXCEPT ![k] = "up"]
        /\ queue' = [queue EXCEPT ![k] = <<>>]
        /\ pc' = [pc EXCEPT ![k] = "upgrade"]
        /\ UNCHANGED <<version, events, proc, payload, todo, clients, answer, shown, history>>
  BY DEF Connect
<1> USE Kinds DEF Base, Carries, Since, Free, EveryClientIsAttended, events, network, pages, server, history
<1>1. \A r \in Senders : Carries(r)' => payload'[r] >= bound
  BY DEF TypeOK, Places
<1>2. \A c \in Browsers : answer'[c] # None => answer'[c] >= bound
  BY DEF TypeOK
<1>3. \A j \in clients' \cap done :
        link'[j] = "up" /\ queue'[j] # <<>> => Last(queue'[j]) >= bound
  BY DEF TypeOK
<1>4. \A c \in Browsers :
        Attached(c)' /\ sock'[c] \in done /\ queue'[sock'[c]] = <<>> => shown'[c] >= bound
  BY DEF TypeOK, Attached
<1> QED BY <1>1, <1>2, <1>3, <1>4

\* What is written last is last.
LEMMA LastOfAppend ==
  ASSUME NEW S, NEW q \in Seq(S), NEW e \in S
  PROVE  Append(q, e) # <<>> /\ Last(Append(q, e)) = e
BY DEF Last

\* What is read leaves what was written last.
LEMMA LastOfTail ==
  ASSUME NEW S, NEW q \in Seq(S), q # <<>>
  PROVE  /\ Tail(q) # <<>> => Last(Tail(q)) = Last(q)
         /\ Tail(q) = <<>> => Head(q) = Last(q)
<1>1. Len(q) \in Nat /\ Len(q) >= 1 /\ Len(Tail(q)) = Len(q) - 1 /\ Head(q) = q[1]
  OBVIOUS
<1>2. CASE Tail(q) = <<>>
  <2>1. Len(q) - 1 = 0
    BY <1>1, <1>2
  <2> QED BY <1>1, <1>2, <2>1 DEF Last
<1>3. CASE Tail(q) # <<>>
  <2>1. Len(Tail(q)) >= 1
    BY <1>1, <1>3
  <2>2. Tail(q)[Len(Tail(q))] = q[Len(q)]
    BY <1>1, <2>1
  <2> QED BY <1>3, <2>2 DEF Last
<1> QED BY <1>2, <1>3

\* A frame is shown, of which what follows it is not older.
LEMMA ReadFrameKeepsSince ==
  ASSUME Base, NEW bound \in Nat, bound <= version, NEW done \in SUBSET Conns,
         Since(bound, done), NEW b \in Browsers, ReadFrame(b)
  PROVE  Since(bound, done)'
<1> DEFINE k == sock[b]
<1>0. /\ k \in Conns /\ queue[k] \in Seq(States) /\ queue[k] # <<>>
      /\ queue' = [queue EXCEPT ![k] = Tail(queue[k])]
      /\ shown' = [shown EXCEPT ![b] = Head(queue[k])]
      /\ UNCHANGED <<version, events, server, link, sock, answer, history>>
  BY DEF ReadFrame, Base, TypeOK
<1>a. /\ Tail(queue[k]) # <<>> => Last(Tail(queue[k])) = Last(queue[k])
      /\ Tail(queue[k]) = <<>> => Head(queue[k]) = Last(queue[k])
  BY <1>0, LastOfTail
<1> HIDE DEF k
<1> USE Kinds DEF Base, Carries, Since, OneBrowserEach, events, network, pages, server, history
<1>1. \A r \in Senders : Carries(r)' => payload'[r] >= bound
  BY <1>0 DEF TypeOK, Places
<1>2. \A c \in Browsers : answer'[c] # None => answer'[c] >= bound
  BY <1>0 DEF TypeOK
<1>3. \A j \in clients' \cap done :
        link'[j] = "up" /\ queue'[j] # <<>> => Last(queue'[j]) >= bound
  BY <1>0, <1>a DEF TypeOK
<1>4. \A c \in Browsers :
        Attached(c)' /\ sock'[c] \in done /\ queue'[sock'[c]] = <<>> => shown'[c] >= bound
  <2> SUFFICES ASSUME NEW c \in Browsers, Attached(c)', sock'[c] \in done, queue'[sock'[c]] = <<>>
               PROVE  shown'[c] >= bound
    OBVIOUS
  <2>1. Attached(c) /\ sock[c] \in clients /\ link[sock[c]] = "up" /\ sock[c] \in Conns
    BY <1>0, Kinds DEF Attached, TypeOK
  <2>2. CASE sock[c] = k
    <3>1. c = b
      BY <1>0, <2>2, Kinds DEF k
    <3>2. Tail(queue[k]) = <<>> /\ shown'[c] = Last(queue[k]) /\ Last(queue[k]) >= bound
      BY <1>0, <1>a, <2>1, <2>2, <3>1 DEF TypeOK
    <3> QED BY <3>2
  <2>3. CASE sock[c] # k
    <3>1. c # b /\ queue[sock[c]] = <<>> /\ shown'[c] = shown[c]
      BY <1>0, <2>1, <2>3 DEF k, TypeOK
    <3> QED BY <1>0, <2>1, <3>1
  <2> QED BY <2>2, <2>3
<1> QED BY <1>1, <1>2, <1>3, <1>4

\* A client is attached with a frame to read, or not at all.
LEMMA FirstWriteKeepsSince ==
  ASSUME Base, NEW bound \in Nat, bound <= version, NEW done \in SUBSET Conns,
         Since(bound, done), NEW k \in Conns, FirstWrite(k)
  PROVE  Since(bound, done)'
<1>0. /\ pc[k] = "first" /\ pc' = [pc EXCEPT ![k] = "reading"]
      /\ payload' = [payload EXCEPT ![k] = 0]
      /\ UNCHANGED <<clients, pages>>
  BY DEF FirstWrite
<1>a. /\ queue[k] \in Seq(States) /\ payload[k] \in States /\ payload[k] >= bound
      /\ queue \in [Conns -> Seq(States)] /\ link \in [Conns -> {"up", "lost", "ended", "closed"}]
  BY <1>0, Kinds DEF Base, TypeOK, Since, Carries
<1>b. \/ queue' = [queue EXCEPT ![k] = Append(queue[k], payload[k])] /\ link' = link
      \/ /\ queue' = queue
         /\ \A j \in Conns : link'[j] = "up" => link[j] = "up"
         /\ link'[k] = "up" => queue[k] # <<>>
  BY <1>a, Kinds DEF FirstWrite, Accepts, Fails, Full
<1>c. Append(queue[k], payload[k]) # <<>> /\ Last(Append(queue[k], payload[k])) = payload[k]
  BY <1>a, LastOfAppend
<1> USE Kinds DEF Base, Carries, Since, events, network, pages, server, history
<1>1. \A r \in Senders : Carries(r)' => payload'[r] >= bound
  BY <1>0 DEF TypeOK, Places
<1>2. \A c \in Browsers : answer'[c] # None => answer'[c] >= bound
  BY <1>0 DEF TypeOK
<1>3. \A j \in clients' \cap done :
        link'[j] = "up" /\ queue'[j] # <<>> => Last(queue'[j]) >= bound
  BY <1>0, <1>a, <1>b, <1>c DEF TypeOK
<1>4. \A c \in Browsers :
        Attached(c)' /\ sock'[c] \in done /\ queue'[sock'[c]] = <<>> => shown'[c] >= bound
  <2> SUFFICES ASSUME NEW c \in Browsers, Attached(c)', sock'[c] \in done, queue'[sock'[c]] = <<>>
               PROVE  shown'[c] >= bound
    OBVIOUS
  <2>1. sock[c] \in clients /\ link'[sock[c]] = "up" /\ sock[c] \in Conns /\ pc'[sock[c]] = "reading"
    BY <1>0 DEF Attached, TypeOK
  <2>2. sock[c] # k
    BY <1>0, <1>a, <1>b, <1>c, <2>1
  <2>3. Attached(c) /\ queue[sock[c]] = <<>>
    BY <1>0, <1>a, <1>b, <2>1, <2>2, Kinds DEF Attached, TypeOK
  <2> QED BY <1>0, <2>3
<1> QED BY <1>1, <1>2, <1>3, <1>4

\* What a sender leaves behind when it goes on with its broadcast.
LEMMA ContinueKeepsSince ==
  ASSUME Base, NEW bound \in Nat, NEW done \in SUBSET Conns, Since(bound, done),
         NEW s \in Senders, pc[s] \in {"copy", "send"}, NEW rest \in Seq(Conns),
         Continue(s, rest), UNCHANGED pages
  PROVE  /\ \A r \in Senders : Carries(r)' => payload'[r] >= bound
         /\ \A c \in Browsers : answer'[c] # None => answer'[c] >= bound
         /\ \A j \in Conns : pc'[j] = pc[j]
<1> USE Kinds DEF Base, Since, Carries, Continue, pages
<1>1. \A j \in Conns : pc'[j] = pc[j]
  BY DEF TypeOK, Places
<1>2. CASE s = Ticker /\ rest = <<>>
  BY <1>2 DEF TypeOK
<1>3. CASE ~(s = Ticker /\ rest = <<>>)
  <2>1. payload' = payload /\ payload[s] >= bound /\ answer' = answer
    BY <1>3
  <2>2. ASSUME NEW r \in Senders, Carries(r)'
        PROVE  payload'[r] >= bound
    <3>1. CASE r = s
      BY <2>1, <3>1
    <3>2. CASE r # s
      <4>1. pc'[r] = pc[r]
        BY <3>2 DEF TypeOK
      <4> QED BY <2>1, <2>2, <4>1
    <3> QED BY <3>1, <3>2
  <2>3. \A c \in Browsers : answer'[c] # None => answer'[c] >= bound
    BY <2>1
  <2> HIDE DEF Carries
  <2> QED BY <1>1, <2>2, <2>3
<1> QED BY <1>1, <1>2, <1>3

\* The clients are copied.
LEMMA CopyKeepsSince ==
  ASSUME Base, NEW bound \in Nat, bound <= version, NEW done \in SUBSET Conns,
         Since(bound, done), NEW s \in Senders, Copy(s)
  PROVE  Since(bound, done)'
<1>1. PICK order \in SetToSeqs(clients) : Continue(s, order)
  BY DEF Copy
<1>2. order \in Seq(Conns)
  BY OrderListsClients DEF Base, TypeOK
<1>3. pc[s] = "copy" /\ UNCHANGED <<clients, network, pages>>
  BY DEF Copy
<1>4. /\ \A r \in Senders : Carries(r)' => payload'[r] >= bound
      /\ \A c \in Browsers : answer'[c] # None => answer'[c] >= bound
      /\ \A j \in Conns : pc'[j] = pc[j]
  BY <1>1, <1>2, <1>3, ContinueKeepsSince
<1>5. \A c \in Browsers : Attached(c)' => Attached(c)
  BY <1>3, <1>4 DEF Attached, network, pages, Base, TypeOK
<1> QED BY <1>3, <1>4, <1>5 DEF Since, network, pages

\* A frame of a broadcast is written, or its client removed.
LEMMA SendKeepsSince ==
  ASSUME Base, NEW bound \in Nat, bound <= version, NEW done \in SUBSET Conns,
         Since(bound, done), NEW s \in Senders, Send(s),
         NEW k \in Conns, k = Head(todo[s])
  PROVE  Since(bound, done)' /\ Since(bound, {k})'
<1>1. /\ pc[s] = "send" /\ todo[s] \in Seq(Conns) /\ todo[s] # <<>>
      /\ Continue(s, Tail(todo[s])) /\ UNCHANGED <<version, pages>>
  BY DEF Send, Base, Places, TypeOK
<1>2. k \in Conns /\ Tail(todo[s]) \in Seq(Conns)
  BY <1>1
<1>3. /\ \A r \in Senders : Carries(r)' => payload'[r] >= bound
      /\ \A c \in Browsers : answer'[c] # None => answer'[c] >= bound
      /\ \A j \in Conns : pc'[j] = pc[j]
  BY <1>1, <1>2, ContinueKeepsSince
<1>4. /\ queue[k] \in Seq(States) /\ payload[s] \in States /\ payload[s] >= bound
      /\ queue \in [Conns -> Seq(States)] /\ link \in [Conns -> {"up", "lost", "ended", "closed"}]
  BY <1>1, <1>2 DEF Base, TypeOK, Since, Carries
<1>5. Append(queue[k], payload[s]) # <<>> /\ Last(Append(queue[k], payload[s])) = payload[s]
  BY <1>4, LastOfAppend
<1>6. \/ /\ queue' = [queue EXCEPT ![k] = Append(queue[k], payload[s])]
         /\ link' = link /\ clients' = clients
      \/ /\ queue' = queue /\ clients' = clients \ {k}
         /\ \A j \in Conns : link'[j] = "up" => link[j] = "up"
  BY <1>2, <1>4 DEF Send, Accepts, Fails, Unregister
<1>7. \A j \in clients' \cap (done \cup {k}) :
        link'[j] = "up" /\ queue'[j] # <<>> => Last(queue'[j]) >= bound
  BY <1>2, <1>4, <1>5, <1>6 DEF Since
<1>8. ASSUME NEW c \in Browsers, Attached(c)', sock'[c] \in done \cup {k}, queue'[sock'[c]] = <<>>
      PROVE  shown'[c] >= bound
  <2>1. /\ sock[c] \in clients' /\ sock[c] \in Conns /\ link'[sock[c]] = "up"
        /\ pc[sock[c]] = "reading" /\ sock' = sock /\ shown' = shown
    BY <1>1, <1>3, <1>8, <1>6 DEF Attached, pages, Base, TypeOK
  <2>2. sock[c] # k /\ queue[sock[c]] = <<>>
    BY <1>2, <1>4, <1>5, <1>6, <1>8, <2>1
  <2>3. Attached(c)
    BY <1>6, <2>1 DEF Attached
  <2> QED BY <1>8, <2>1, <2>2, <2>3 DEF Since
<1> QED BY <1>3, <1>7, <1>8 DEF Since

-----------------------------------------------------------------------------
(* The invariant                                                           *)

\* The steps of the specification, one by one.
LEMMA NextKeepsBase == Base /\ [Next]_vars => Base'
<1> SUFFICES ASSUME Base, [Next]_vars PROVE Base'
  OBVIOUS
<1>1. CASE UNCHANGED vars
  BY <1>1 DEF vars, events, server, network, pages, history, Base, TypeOK, Places, Counted,
     Applying, Past, EveryClientIsAttended, NewIsEmpty, InTodo, OneBrowserEach
<1>2. ASSUME NEW s \in Senders, SenderStep(s) PROVE Base'
  BY <1>2, TakeSnapshotKeepsBase, CopyKeepsBase, SendKeepsBase, TickKeepsBase, ApplyKeepsBase,
     ReplyKeepsBase, UpgradeKeepsBase, FirstWriteKeepsBase, ReadLoopEndsKeepsBase
     DEF SenderStep
<1>3. ASSUME NEW b \in Browsers, PageStep(b) \/ Connect(b) \/ Ask(b) PROVE Base'
  BY <1>3, NoticeKeepsBase, ReadFrameKeepsBase, TakeAnswerKeepsBase, ConnectKeepsBase,
     AskKeepsBase DEF PageStep
<1>4. ASSUME NEW k \in Conns, KeepaliveMissed(k) PROVE Base'
  BY <1>4, KeepaliveMissedKeepsBase
<1> QED
  BY <1>1, <1>2, <1>3, <1>4, WorldKeepsBase, ChangeKeepsBase, ExitKeepsBase DEF Next

\* No step brings anything older than a bound it had.
LEMMA NextKeepsSince ==
  ASSUME Base, NEW bound \in Nat, bound <= version, NEW done \in SUBSET Conns,
         Since(bound, done), [Next]_vars
  PROVE  Since(bound, done)'
<1>1. CASE UNCHANGED vars
  BY <1>1 DEF vars, events, server, network, pages, history, Since, Carries, Attached
<1>2. ASSUME NEW s \in Senders, Send(s) PROVE Since(bound, done)'
  <2>1. Head(todo[s]) \in Conns
    BY <1>2 DEF Send, Base, Places, TypeOK
  <2>2. PICK k \in Conns : k = Head(todo[s])
    BY <2>1
  <2> QED BY <1>2, <2>2, SendKeepsSince
<1>3. ASSUME NEW s \in Senders, SenderStep(s) PROVE Since(bound, done)'
  BY <1>2, <1>3, TakeSnapshotKeepsSince, CopyKeepsSince, TickKeepsSince, HandlersKeepSince,
     UpgradeKeepsSince, FirstWriteKeepsSince, ReadLoopKeepsSince DEF SenderStep
<1>4. ASSUME NEW b \in Browsers, PageStep(b) \/ Connect(b) \/ Ask(b) PROVE Since(bound, done)'
  BY <1>4, NoticeKeepsSince, ReadFrameKeepsSince, TakeAnswerKeepsSince, ConnectKeepsSince,
     HandlersKeepSince DEF PageStep
<1>5. ASSUME NEW k \in Conns, KeepaliveMissed(k) PROVE Since(bound, done)'
  BY <1>5, ReadLoopKeepsSince
<1> QED BY <1>1, <1>3, <1>4, <1>5, WorldKeepsSince DEF Next

\* What was caught up with stays so.
LEMMA FloorKept ==
  ASSUME IndInv, [Next]_vars, floor' = floor
  PROVE  Since(floor, Conns)'
<1>1. floor \in Nat /\ floor <= version
  BY Kinds DEF IndInv, Base, TypeOK, Past
<1>2. PICK bound \in Nat : bound = floor
  BY <1>1
<1>3. Since(bound, Conns)
  BY <1>2 DEF IndInv
<1>4. Since(bound, Conns)'
  BY <1>1, <1>2, <1>3, NextKeepsSince DEF IndInv
<1> QED BY <1>2, <1>4 DEF Since

\* A clean tick goes on while other senders take their steps.
LEMMA TickKept ==
  ASSUME IndInv, [Next]_vars, clean' = clean, pc'[Ticker] = pc[Ticker],
         todo'[Ticker] = todo[Ticker], payload'[Ticker] = payload[Ticker]
  PROVE  TickUnderWay'
<1> SUFFICES ASSUME clean
             PROVE  pc[Ticker] \in {"copy", "send"} /\ Since(payload[Ticker], Served)'
  BY DEF TickUnderWay
<1>1. pc[Ticker] \in {"copy", "send"} /\ Since(payload[Ticker], Served)
  BY DEF IndInv, TickUnderWay
<1>2. payload[Ticker] \in Nat /\ payload[Ticker] <= version
  BY Kinds DEF IndInv, Base, TypeOK, Past
<1>3. PICK bound \in Nat, done \in SUBSET Conns : bound = payload[Ticker] /\ done = Served
  BY <1>2 DEF Served
<1>4. Since(bound, done)'
  BY <1>1, <1>2, <1>3, NextKeepsSince DEF IndInv
<1>5. Served' = done
  BY <1>3 DEF Served, InTodo
<1> QED BY <1>1, <1>3, <1>4, <1>5 DEF Since

\* A tick that reads while nothing older is under way.
LEMMA CleanTickBegins ==
  ASSUME IndInv, TakeSnapshot(Ticker)
  PROVE  TickUnderWay'
<1> SUFFICES ASSUME clean'
             PROVE  pc'[Ticker] \in {"copy", "send"} /\ Since(payload[Ticker], Served)'
  BY DEF TickUnderWay
<1> USE Kinds DEF IndInv, Base
<1>1. /\ NothingOlder /\ pc' = [pc EXCEPT ![Ticker] = "copy"]
      /\ payload' = [payload EXCEPT ![Ticker] = version]
      /\ UNCHANGED <<answer, clients>>
  BY DEF TakeSnapshot, pages
<1>2. pc'[Ticker] = "copy" /\ payload'[Ticker] = version /\ version \in Nat
  BY <1>1 DEF TypeOK
<1>3. \A r \in Senders : Carries(r)' => r = Ticker
  BY <1>1 DEF NothingOlder, Carries, Places, TypeOK
<1>4. Served' = {}
  BY <1>2 DEF Served
<1>5. \A c \in Browsers : answer'[c] = None
  BY <1>1 DEF NothingOlder
<1> QED BY <1>2, <1>3, <1>4, <1>5 DEF Since, Attached

\* A tick copies the clients, all of whom it has yet to write to.
LEMMA TickCopies ==
  ASSUME IndInv, [Next]_vars, Copy(Ticker)
  PROVE  Since(floor, Conns)' /\ TickUnderWay'
<1>1. PICK order \in SetToSeqs(clients) : Continue(Ticker, order)
  BY DEF Copy
<1>2. /\ order \in Seq(Conns)
      /\ \A k \in clients : \E i \in DOMAIN order : order[i] = k
  BY OrderListsClients DEF IndInv, Base, TypeOK
<1>3. /\ pc \in [Senders -> {"idle", "apply", "snapshot", "copy", "send", "reply",
                             "upgrade", "first", "reading"}]
      /\ payload \in [Senders -> States] /\ todo \in [Senders -> Seq(Conns)]
      /\ payload[Ticker] \in Nat /\ payload[Ticker] <= version /\ clients \subseteq Conns
  BY Kinds DEF IndInv, Base, TypeOK, Past
<1>4. CASE order = <<>>
  <2>1. clients = {} /\ clean' = FALSE /\ floor' = (IF clean THEN payload[Ticker] ELSE floor)
    BY <1>1, <1>2, <1>4 DEF Continue
  <2>2. CASE ~clean
    BY <2>1, <2>2, FloorKept DEF TickUnderWay
  <2>3. CASE clean
    <3>1. PICK bound \in Nat : bound = payload[Ticker]
      BY <1>3
    <3>2. Since(bound, Conns)
      BY <2>1, <2>3, <3>1 DEF IndInv, TickUnderWay, Since, Attached
    <3>3. Since(bound, Conns)'
      BY <1>3, <3>1, <3>2, NextKeepsSince DEF IndInv
    <3> QED BY <2>1, <2>3, <3>1, <3>3 DEF Since, TickUnderWay
  <2> QED BY <2>2, <2>3
<1>5. CASE order # <<>>
  <2>1. /\ floor' = floor /\ clean' = clean /\ payload' = payload
        /\ pc'[Ticker] = "send" /\ todo'[Ticker] = order
    BY <1>1, <1>3, <1>5, Kinds DEF Continue
  <2>2. ASSUME clean PROVE Since(payload[Ticker], Served)'
    <3>1. PICK bound \in Nat, done \in SUBSET Conns :
            bound = payload[Ticker] /\ done = {k \in Conns : ~\E i \in DOMAIN order : order[i] = k}
      BY <1>3
    <3>2. Since(bound, done)
      BY <1>2, <2>2, <3>1 DEF IndInv, TickUnderWay, Since, Attached
    <3>3. Since(bound, done)'
      BY <1>3, <3>1, <3>2, NextKeepsSince DEF IndInv
    <3>4. Served' = done
      BY <2>1, <3>1 DEF Served, InTodo
    <3> QED BY <2>1, <3>1, <3>3, <3>4 DEF Since
  <2> QED BY <2>1, <2>2, FloorKept DEF TickUnderWay
<1> QED BY <1>4, <1>5

\* A tick writes to a client, which then has its state last or is removed.
LEMMA TickSends ==
  ASSUME IndInv, [Next]_vars, Send(Ticker)
  PROVE  Since(floor, Conns)' /\ TickUnderWay'
<1> DEFINE rest == Tail(todo[Ticker])
<1>1. /\ pc[Ticker] = "send" /\ todo[Ticker] \in Seq(Conns) /\ todo[Ticker] # <<>>
      /\ Continue(Ticker, rest)
  BY Kinds DEF Send, IndInv, Base, Places, TypeOK
<1>2. /\ pc \in [Senders -> {"idle", "apply", "snapshot", "copy", "send", "reply",
                             "upgrade", "first", "reading"}]
      /\ payload \in [Senders -> States] /\ todo \in [Senders -> Seq(Conns)]
      /\ payload[Ticker] \in Nat /\ payload[Ticker] <= version
  BY Kinds DEF IndInv, Base, TypeOK, Past
<1>3. Head(todo[Ticker]) \in Conns /\ rest \in Seq(Conns)
      /\ \A i \in DOMAIN todo[Ticker] :
           todo[Ticker][i] = Head(todo[Ticker]) \/ \E n \in DOMAIN rest : rest[n] = todo[Ticker][i]
  <2>1. ASSUME NEW i \in DOMAIN todo[Ticker], i # 1 PROVE i - 1 \in DOMAIN rest /\ rest[i - 1] = todo[Ticker][i]
    BY <1>1, <2>1
  <2>2. todo[Ticker][1] = Head(todo[Ticker]) /\ Head(todo[Ticker]) \in Conns /\ rest \in Seq(Conns)
    BY <1>1
  <2> HIDE DEF rest
  <2>3. ASSUME NEW i \in DOMAIN todo[Ticker]
        PROVE  todo[Ticker][i] = Head(todo[Ticker]) \/ \E n \in DOMAIN rest : rest[n] = todo[Ticker][i]
    <3>1. CASE i = 1
      BY <2>2, <3>1
    <3>2. CASE i # 1
      BY <2>1, <3>2
    <3> QED BY <3>1, <3>2
  <2> QED BY <2>2, <2>3
<1>4. ASSUME clean
      PROVE  \E bound \in Nat, done \in SUBSET Conns :
               /\ bound = payload[Ticker] /\ Since(bound, done)'
               /\ \A j \in Conns : j \in done \/ \E n \in DOMAIN rest : rest[n] = j
  <2>1. PICK bound \in Nat, old \in SUBSET Conns, k \in Conns :
          bound = payload[Ticker] /\ old = Served /\ k = Head(todo[Ticker])
    BY <1>2, <1>3 DEF Served
  <2>2. Since(bound, old)
    BY <1>4, <2>1 DEF IndInv, TickUnderWay
  <2>3. Since(bound, old)' /\ Since(bound, {k})'
    BY <1>2, <2>1, <2>2, SendKeepsSince, Kinds DEF IndInv
  <2>4. Since(bound, old \cup {k})'
    BY <2>3 DEF Since
  <2>5. \A j \in Conns : j \in old \cup {k} \/ \E n \in DOMAIN rest : rest[n] = j
    BY <1>1, <1>3, <2>1 DEF Served, InTodo
  <2> QED BY <2>1, <2>4, <2>5
<1> HIDE DEF rest
<1>5. CASE rest = <<>>
  <2>1. clean' = FALSE /\ floor' = (IF clean THEN payload[Ticker] ELSE floor)
    BY <1>1, <1>5 DEF Continue
  <2>2. CASE ~clean
    BY <2>1, <2>2, FloorKept DEF TickUnderWay
  <2>3. CASE clean
    <3>1. PICK bound \in Nat, done \in SUBSET Conns :
            /\ bound = payload[Ticker] /\ Since(bound, done)'
            /\ \A j \in Conns : j \in done \/ \E n \in DOMAIN rest : rest[n] = j
      BY <1>4, <2>3
    <3>2. DOMAIN rest = {}
      BY <1>5
    <3>3. done = Conns
      BY <3>1, <3>2
    <3> QED BY <2>1, <2>3, <3>1, <3>3 DEF Since, TickUnderWay
  <2> QED BY <2>2, <2>3
<1>6. CASE rest # <<>>
  <2>1. /\ floor' = floor /\ clean' = clean /\ payload' = payload
        /\ pc'[Ticker] = "send" /\ todo'[Ticker] = rest
    BY <1>1, <1>2, <1>6, Kinds DEF Continue
  <2>2. ASSUME clean PROVE Since(payload[Ticker], Served)'
    <3>1. PICK bound \in Nat, done \in SUBSET Conns :
            /\ bound = payload[Ticker] /\ Since(bound, done)'
            /\ \A j \in Conns : j \in done \/ \E n \in DOMAIN rest : rest[n] = j
      BY <1>4, <2>2
    <3>2. Served' \subseteq done
      BY <2>1, <3>1 DEF Served, InTodo
    <3> QED BY <2>1, <3>1, <3>2 DEF Since
  <2> QED BY <2>1, <2>2, FloorKept DEF TickUnderWay
<1> QED BY <1>5, <1>6

\* The invariant holds at first.
LEMMA InitIndInv == Init => IndInv
<1> SUFFICES ASSUME Init PROVE IndInv
  OBVIOUS
<1> USE Kinds DEF Init
<1>1. TypeOK
  <2>1. <<>> \in Seq(States) /\ <<>> \in Seq(Conns) /\ Len(<<>>) = 0
    OBVIOUS
  <2>2. 0 \in 0..MaxInputs /\ 0 \in 0..MaxFaults /\ 0 \in States /\ 0 <= Capacity
    BY PanelAssumption DEF PanelAssumption
  <2>3. /\ todo \in [Senders -> Seq(Conns)] /\ queue \in [Conns -> Seq(States)]
        /\ \A k \in Conns : Len(queue[k]) <= Capacity
    BY <2>1, <2>2
  <2>4. /\ version \in States /\ floor \in States
        /\ inputs \in 0..MaxInputs /\ faults \in 0..MaxFaults
    BY <2>2
  <2> QED BY <2>3, <2>4 DEF TypeOK
<1>2. Places
  BY DEF Places
<1>3. Counted
  <2>1. Applying = {}
    BY DEF Applying
  <2> QED BY <2>1, FS_EmptySet DEF Counted
<1>4. Past /\ EveryClientIsAttended /\ NewIsEmpty /\ OneBrowserEach
  BY DEF Past, EveryClientIsAttended, NewIsEmpty, OneBrowserEach
<1>5. Since(floor, Conns) /\ TickUnderWay
  BY DEF Since, Carries, Attached, TickUnderWay
<1> QED BY <1>1, <1>2, <1>3, <1>4, <1>5 DEF IndInv, Base

\* Steps that neither begin a tick nor carry it on.
LEMMA OthersKeepHistory ==
  ASSUME IndInv, [Next]_vars,
         \/ UNCHANGED vars
         \/ \E s \in Senders \ {Ticker} : SenderStep(s)
         \/ \E b \in Browsers : PageStep(b) \/ Connect(b) \/ Ask(b)
         \/ \E k \in Conns : Break(k) \/ KeepaliveMissed(k)
         \/ Change \/ Terminate \/ Restart
  PROVE  Since(floor, Conns)' /\ TickUnderWay'
<1> SUFFICES /\ floor' = floor /\ clean' = clean /\ pc'[Ticker] = pc[Ticker]
             /\ todo'[Ticker] = todo[Ticker] /\ payload'[Ticker] = payload[Ticker]
  BY FloorKept, TickKept
<1> USE Kinds DEF IndInv, Base, TypeOK, vars, events, server, network, pages, history
<1>1. CASE UNCHANGED vars
  BY <1>1
<1>2. ASSUME NEW s \in Senders \ {Ticker}, SenderStep(s)
      PROVE  /\ floor' = floor /\ clean' = clean /\ pc'[Ticker] = pc[Ticker]
             /\ todo'[Ticker] = todo[Ticker] /\ payload'[Ticker] = payload[Ticker]
  <2>1. CASE TakeSnapshot(s)
    BY <1>2, <2>1 DEF TakeSnapshot
  <2>2. CASE Copy(s) \/ Send(s)
    <3>1. \E rest : Continue(s, rest)
      BY <2>2 DEF Copy, Send
    <3> QED BY <1>2, <3>1 DEF Continue
  <2>3. CASE s \in Browsers /\ (Apply(s) \/ Reply(s))
    BY <1>2, <2>3 DEF Apply, Reply
  <2>4. CASE s \in Conns /\ (Upgrade(s) \/ FirstWrite(s) \/ ReadLoopEnds(s))
    BY <1>2, <2>4 DEF Upgrade, FirstWrite, ReadLoopEnds
  <2> QED BY <1>2, <2>1, <2>2, <2>3, <2>4 DEF SenderStep
<1>3. ASSUME NEW b \in Browsers, PageStep(b) \/ Connect(b) \/ Ask(b)
      PROVE  /\ floor' = floor /\ clean' = clean /\ pc'[Ticker] = pc[Ticker]
             /\ todo'[Ticker] = todo[Ticker] /\ payload'[Ticker] = payload[Ticker]
  <2>1. CASE PageStep(b)
    BY <2>1 DEF PageStep, Notice, ReadFrame, TakeAnswer
  <2>2. CASE Connect(b)
    <3>1. (CHOOSE free \in Conns : Free(free)) \in Conns
      BY <2>2 DEF Connect
    <3>2. PICK k \in Conns : pc' = [pc EXCEPT ![k] = "upgrade"]
      BY <2>2, <3>1 DEF Connect
    <3>3. UNCHANGED <<payload, todo, history>>
      BY <2>2 DEF Connect
    <3> QED BY <3>2, <3>3
  <2>3. CASE Ask(b)
    BY <2>3 DEF Ask
  <2> QED BY <1>3, <2>1, <2>2, <2>3
<1>4. ASSUME NEW k \in Conns, Break(k) \/ KeepaliveMissed(k)
      PROVE  /\ floor' = floor /\ clean' = clean /\ pc'[Ticker] = pc[Ticker]
             /\ todo'[Ticker] = todo[Ticker] /\ payload'[Ticker] = payload[Ticker]
  BY <1>4 DEF Break, KeepaliveMissed
<1>5. CASE Change \/ Terminate \/ Restart
  BY <1>5 DEF Change, Terminate, Restart
<1> QED BY <1>1, <1>2, <1>3, <1>4, <1>5

\* The ticker's own steps, and the end of the process, which forgets the tick.
LEMMA TickerKeepsHistory ==
  ASSUME IndInv, [Next]_vars, SenderStep(Ticker) \/ Exit
  PROVE  Since(floor, Conns)' /\ TickUnderWay'
<1>1. CASE TakeSnapshot(Ticker)
  BY <1>1, CleanTickBegins, FloorKept DEF TakeSnapshot
<1>2. CASE Copy(Ticker)
  BY <1>2, TickCopies
<1>3. CASE Send(Ticker)
  BY <1>3, TickSends
<1>4. CASE Tick
  <2>1. ~clean
    BY <1>4 DEF Tick, IndInv, TickUnderWay
  <2>2. floor' = floor /\ clean' = clean
    BY <1>4 DEF Tick, history
  <2> QED BY <2>1, <2>2, FloorKept DEF TickUnderWay
<1>5. CASE Exit
  BY <1>5, FloorKept DEF Exit, TickUnderWay
<1> QED BY <1>1, <1>2, <1>3, <1>4, <1>5, Kinds DEF SenderStep

\* The invariant is inductive.
LEMMA NextIndInv == IndInv /\ [Next]_vars => IndInv'
<1> SUFFICES ASSUME IndInv, [Next]_vars PROVE IndInv'
  OBVIOUS
<1>1. Base'
  BY NextKeepsBase DEF IndInv
<1>2. Since(floor, Conns)' /\ TickUnderWay'
  <2>1. CASE SenderStep(Ticker) \/ Exit
    BY <2>1, TickerKeepsHistory
  <2>2. CASE ~(SenderStep(Ticker) \/ Exit)
    BY <2>2, OthersKeepHistory DEF Next
  <2> QED BY <2>1, <2>2
<1> QED BY <1>1, <1>2 DEF IndInv

\* Every reachable state satisfies the invariant.
LEMMA Invariance == Spec => []IndInv
BY InitIndInv, NextIndInv, PTL DEF Spec

-----------------------------------------------------------------------------
(* What follows                                                            *)

\* Every variable of the panel has its type, the queues of frames their bound.
THEOREM TypeCorrect == Spec => []TypeOK
<1>1. IndInv => TypeOK
  BY DEF IndInv, Base
<1> QED BY <1>1, Invariance, PTL

\* Every registered client has the goroutine that will remove it, and no
\* connection is kept open that nobody has registered.
THEOREM ClientsAttended == Spec => []EveryClientIsAttended
<1>1. IndInv => EveryClientIsAttended
  BY DEF IndInv, Base
<1> QED BY <1>1, Invariance, PTL

\* What a tick read while nothing older was under way, or something newer,
\* is on every attached page that has read what was sent to it.
THEOREM TicksCatchUp == Spec => []CleanTickCatchesUp
<1>1. IndInv => CleanTickCatchesUp
  <2> SUFFICES ASSUME IndInv, NEW b \in Browsers, Attached(b), queue[sock[b]] = <<>>
               PROVE  shown[b] >= floor
    BY DEF CleanTickCatchesUp
  <2>1. sock[b] \in Conns
    BY DEF Attached, IndInv, Base, TypeOK
  <2> QED BY <2>1 DEF IndInv, Since
<1> QED BY <1>1, Invariance, PTL

\* A page changes to one state, and to one the hardware has had.
LEMMA StepsShow == IndInv /\ [Next]_vars => [Shows!Next]_<<version, shown>>
<1> SUFFICES ASSUME IndInv, [Next]_vars, <<version, shown>>' # <<version, shown>>
             PROVE  Shows!Next
  OBVIOUS
<1> USE Kinds DEF events, server, network, pages, history
<1>1. ASSUME NEW b \in Browsers, NEW v \in 0..version,
             shown' = [shown EXCEPT ![b] = v], version' = version
      PROVE  Shows!Next
  BY <1>1 DEF Shows!Next, Shows!Show
<1>2. CASE version' = version + 1 /\ shown' = shown
  BY <1>2 DEF Shows!Next, Shows!Change
<1>3. ASSUME NEW s \in Senders, SenderStep(s) PROVE Shows!Next
  BY <1>2, <1>3 DEF SenderStep, TakeSnapshot, Copy, Send, Tick, Apply, Reply, Upgrade,
     FirstWrite, ReadLoopEnds
<1>4. ASSUME NEW b \in Browsers, PageStep(b) \/ Connect(b) \/ Ask(b) PROVE Shows!Next
  <2>1. CASE ReadFrame(b)
    <3>1. sock[b] \in Conns /\ queue[sock[b]] \in Seq(States) /\ queue[sock[b]] # <<>>
      BY <2>1 DEF ReadFrame, IndInv, Base, TypeOK
    <3>2. Head(queue[sock[b]]) = queue[sock[b]][1] /\ 1 \in DOMAIN queue[sock[b]]
          /\ Head(queue[sock[b]]) \in States
      BY <3>1
    <3>3. Head(queue[sock[b]]) <= version /\ version \in Nat
      BY <3>1, <3>2 DEF IndInv, Base, Past, TypeOK
    <3>4. Head(queue[sock[b]]) \in Nat
      BY <3>2
    <3>5. Head(queue[sock[b]]) \in 0..version
      BY <3>3, <3>4
    <3> QED BY <1>1, <2>1, <3>5 DEF ReadFrame
  <2>2. CASE TakeAnswer(b)
    <3>1. answer[b] \in States \cup {None} /\ answer[b] # None /\ version \in States
      BY <2>2 DEF TakeAnswer, IndInv, Base, TypeOK
    <3>2. answer[b] <= version
      BY <3>1 DEF IndInv, Base, Past
    <3>3. answer[b] \in Nat /\ version \in Nat
      BY <3>1
    <3>4. answer[b] \in 0..version
      BY <3>2, <3>3
    <3> QED BY <1>1, <2>2, <3>4 DEF TakeAnswer
  <2>3. CASE Notice(b) \/ Connect(b) \/ Ask(b)
    BY <2>3 DEF Notice, Connect, Ask
  <2> QED BY <1>4, <2>1, <2>2, <2>3 DEF PageStep
<1>5. CASE Change
  BY <1>2, <1>5 DEF Change
<1>6. CASE Terminate \/ Exit \/ Restart \/ \E k \in Conns : Break(k) \/ KeepaliveMissed(k)
  BY <1>6 DEF Terminate, Exit, Restart, Break, KeepaliveMissed
<1> QED BY <1>3, <1>4, <1>5, <1>6 DEF Next, vars

\* The panel implements the safety part of Display: no page ever shows a state
\* the hardware has not had, across reconnects and restarts.
THEOREM PagesShowRealStates == Spec => Shows!Safety
<1>1. Init => Shows!Init
  BY DEF Init, Shows!Init
<1>2. Spec => [][Shows!Next]_<<version, shown>>
  BY Invariance, StepsShow, PTL DEF Spec
<1> QED BY <1>1, <1>2, PTL DEF Spec, Shows!Safety, Shows!vars
=============================================================================
