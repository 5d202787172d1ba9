-------------------------- MODULE Dispatcher_proofs --------------------------
(***************************************************************************)
(* Proofs about the dispatcher's consumer queues, for any principals,      *)
(* reservers, capacity and cap on queues, and any amount of work: while    *)
(* nothing retires a key has one consumer, no event is lost to a closed    *)
(* queue, and the queues of one key deliver in publish order.              *)
(***************************************************************************)
EXTENDS Dispatcher, FiniteSetTheorems, SequenceTheorems, TLAPS

Item == [work : Work, by : Reservers \cup {"ordinary"}]
Invocation == [work : Work, key : Keys]
LoopRec == [at : {"idle", "send", "respawn", "resend"}, work : Work, sender : Nat]
ResRec == [at : {"idle", "reserve", "permit", "committed"}, principal : Keys, sender : Nat]

Chans == 1 .. Len(chan)
Busy == loop.at # "idle"

\* A consumer task that has not exited; a channel that refuses senders.
Live(c) == chan[c].task # "exit"
Shut(c) == chan[c].closed

\* Reserver t holds a permit, before or after its commit.
Sends(t) == res[t].at \in {"permit", "committed"}

\* The types the other parts rest on.
Types ==
  /\ map \in [Keys -> Nat] /\ chan \in Seq(Channel)
  /\ \A k \in Keys : map[k] \in 0 .. Len(chan)
  /\ inbox \in Seq(Item)
  /\ loop \in LoopRec /\ loop.sender \in 0 .. Len(chan)
  /\ res \in [Reservers -> ResRec] /\ \A t \in Reservers : res[t].sender \in 0 .. Len(chan)
  /\ published \in Nat
  /\ invoked \in Seq(Invocation)

\* Only its own queue is mapped under a key.
Mapped == \A k \in Keys : map[k] # NoChan => chan[map[k]].key = k

\* A consumer that exited closed its channel and left nothing in it; it drains
\* only a closed one.
Spent ==
  \A c \in Chans :
    /\ ~Live(c) => Shut(c) /\ chan[c].queue = <<>>
    /\ chan[c].draining => Shut(c)

\* While nothing retires, every consumer is the one its key maps to, and open.
Alive == ~retired => \A c \in Chans : Live(c) => ~Shut(c) /\ map[chan[c].key] = c

\* A key has one consumer, until the runtime's own gate retires.
OneTask ==
  gate # "retired" => \A c, d \in Chans : chan[c].key = chan[d].key /\ Live(c) /\ Live(d) => c = d

\* The consumer behind a permit has not exited.
PermitsLive == \A t \in Reservers : Sends(t) => res[t].sender \in Chans /\ Live(res[t].sender)

\* A reserved publication in the inbox is the one its reserver committed.
InboxOwned ==
  \A i \in 1 .. Len(inbox) : inbox[i].by \in Reservers =>
    /\ res[inbox[i].by].at = "committed"
    /\ \A j \in 1 .. Len(inbox) : inbox[j].by = inbox[i].by => i = j

\* The retry of the dispatch loop has an open queue.
ResendOpen == ~retired /\ loop.at = "resend" => loop.sender \in Chans /\ ~Shut(loop.sender)

\* Work handed over: it is in a queue, or was invoked.
Handed(m) ==
  \/ \E c \in Chans : \E i \in 1 .. Len(chan[c].queue) : m = chan[c].queue[i].id
  \/ \E i \in 1 .. Len(invoked) : m = invoked[i].work.id

Ids == {m \in Nat : Handed(m)}

\* All that was handed over was published before n.
Below(n) == \A m \in Ids : m < n

\* What waits for the loop follows what the loop holds, which follows all that
\* was handed over.
Order ==
  /\ Below(published + 1)
  /\ Busy => Below(loop.work.id) /\ loop.work.id <= published
  /\ \A i \in 1 .. Len(inbox) :
       /\ Below(inbox[i].work.id) /\ inbox[i].work.id <= published
       /\ Busy => loop.work.id < inbox[i].work.id
  /\ \A i, j \in 1 .. Len(inbox) : i < j => inbox[i].work.id < inbox[j].work.id

\* The loop returned only when it held nothing.
Halted == ~running => ~Busy

\* Every queue is in publish order.
Sorted ==
  \A c \in Chans : \A i, j \in 1 .. Len(chan[c].queue) :
    i < j => chan[c].queue[i].id < chan[c].queue[j].id

\* What the queues of a key still hold follows what they delivered.
QueuedLater ==
  gate # "retired" =>
    \A c \in Chans : \A i \in 1 .. Len(invoked) : \A j \in 1 .. Len(chan[c].queue) :
      invoked[i].key = chan[c].key => invoked[i].work.id < chan[c].queue[j].id

\* What OneConsumerPerKey and ClosedNeverDropped need.
Flags == Mapped /\ Spent /\ Alive /\ OneTask /\ PermitsLive /\ InboxOwned /\ ResendOpen
           /\ ClosedNeverDropped

\* What PublishOrder needs besides.
Behind == Sorted /\ QueuedLater /\ PublishOrder
Orders == Order /\ Halted /\ Behind

IInv == Types /\ Flags /\ Orders

\* The invariant holds before anything is published.
LEMMA IInvInit == Init => IInv
<1>. SUFFICES ASSUME Init PROVE IInv
  OBVIOUS
<1>1. /\ map = [k \in Keys |-> 0] /\ chan = <<>> /\ inbox = <<>> /\ invoked = <<>>
      /\ loop = [at |-> "idle", work |-> [id |-> 0, principal |-> Shared], sender |-> 0]
      /\ res = [t \in Reservers |-> [at |-> "idle", principal |-> Shared, sender |-> 0]]
      /\ published = 0 /\ lost = {}
  BY DEF Init, IdleLoop, IdleRes, NoWork, NoChan
<1>2. /\ Len(chan) = 0 /\ Len(inbox) = 0 /\ Len(invoked) = 0 /\ Chans = {}
  BY <1>1 DEF Chans
<1>3. Types
  BY <1>1, <1>2 DEF Types, LoopRec, ResRec, Work, Keys
<1>4. Flags
  BY <1>1, <1>2 DEF Flags, Mapped, Spent, Alive, OneTask, PermitsLive, InboxOwned, ResendOpen,
                    ClosedNeverDropped, Sends, NoChan
<1>5. Order /\ Halted
  <2>1. Ids = {}
    BY <1>2 DEF Ids, Handed
  <2>. QED  BY <1>1, <1>2, <2>1 DEF Order, Below, Busy, Halted
<1>6. Behind
  BY <1>1, <1>2 DEF Behind, Sorted, QueuedLater, PublishOrder
<1>. QED  BY <1>3, <1>4, <1>5, <1>6 DEF IInv, Orders

-----------------------------------------------------------------------------
(* Channels. *)

\* One channel changes.
LEMMA SetChan ==
  ASSUME chan \in Seq(Channel), NEW c \in 1 .. Len(chan), NEW r \in Channel,
         chan' = [chan EXCEPT ![c] = r]
  PROVE  /\ chan' \in Seq(Channel) /\ Len(chan') = Len(chan) /\ chan'[c] = r
         /\ \A d \in 1 .. Len(chan) : d # c => chan'[d] = chan[d]
OBVIOUS

\* A channel of key k and its consumer.
Fresh(k) == [key |-> k, queue |-> <<>>, closed |-> FALSE, draining |-> FALSE, task |-> "recv"]

\* One channel is added.
LEMMA AddChan ==
  ASSUME chan \in Seq(Channel), NEW k \in Keys, chan' = Append(chan, Fresh(k))
  PROVE  /\ chan' \in Seq(Channel) /\ Len(chan') = Len(chan) + 1
         /\ chan'[Len(chan) + 1] = Fresh(k)
         /\ \A d \in 1 .. Len(chan) : chan'[d] = chan[d]
         /\ \A d \in 1 .. Len(chan') : d \in 1 .. Len(chan) \/ d = Len(chan) + 1
<1>1. Fresh(k) \in Channel
  BY DEF Fresh, Channel
<1>2. Len(chan) \in Nat
  OBVIOUS
<1>3. /\ chan' \in Seq(Channel) /\ Len(chan') = Len(chan) + 1
      /\ chan'[Len(chan) + 1] = Fresh(k) /\ \A d \in 1 .. Len(chan) : chan'[d] = chan[d]
  BY <1>1
<1>. QED  BY <1>2, <1>3

\* Stale entries of the map are dropped, and no others.
Pruned(m) ==
  \A k \in Keys : m[k] = map[k] \/ (m[k] = NoChan /\ map[k] # NoChan /\ Shut(map[k]))

\* get_or_spawn_consumer refuses, finds an open queue, or creates one for a key
\* that has none.
Refused(g) == stopping = "retired" /\ g.map = map /\ g.chan = chan /\ g.sender = NoChan
Found(g) ==
  /\ stopping # "retired" /\ g.chan = chan /\ g.sender \in Chans /\ ~Shut(g.sender)
  /\ g.map \in [Keys -> Nat] /\ Pruned(g.map)
Created(g, k) ==
  /\ stopping # "retired" /\ g.chan = Append(chan, Fresh(k)) /\ g.sender = Len(chan) + 1
  /\ map[k] = NoChan \/ Shut(map[k])
  /\ \E m \in [Keys -> Nat] : Pruned(m) /\ g.map = [m EXCEPT ![k] = Len(chan) + 1]

\* The three outcomes of get_or_spawn_consumer.
LEMMA Spawned ==
  ASSUME Types, NEW p \in Keys, NEW g, g = get_or_spawn_consumer(p)
  PROVE  Refused(g) \/ Found(g) \/ \E k \in Keys : Created(g, k)
<1>. DEFINE m1 == IF reusable(map[p]) THEN map ELSE unstale(map, p)
            key == IF ~reusable(m1[p]) /\ degrades(m1, p) THEN Shared ELSE p
            m2 == IF reusable(m1[key]) THEN m1 ELSE unstale(m1, key)
<1>0. map \in [Keys -> Nat] /\ \A k \in Keys : map[k] \in 0 .. Len(chan)
  BY DEF Types
<1>1. m1 \in [Keys -> Nat] /\ Pruned(m1)
  BY <1>0 DEF unstale, Pruned, NoChan, Shut, reusable
<1>2. key \in Keys
  BY DEF Keys
<1>. HIDE DEF m1, key
<1>3. m2 \in [Keys -> Nat] /\ Pruned(m2)
  BY <1>0, <1>1, <1>2 DEF unstale, Pruned, NoChan, Shut
<1>. HIDE DEF m2
<1>4. g = CASE refuses -> [map |-> map, chan |-> chan, sender |-> NoChan]
            [] ~refuses /\ reusable(m2[key]) -> [map |-> m2, chan |-> chan, sender |-> m2[key]]
            [] OTHER -> [map |-> [m2 EXCEPT ![key] = Len(chan) + 1],
                         chan |-> Append(chan, Fresh(key)), sender |-> Len(chan) + 1]
  BY DEF get_or_spawn_consumer, m1, key, m2, Fresh
<1>5. CASE refuses
  BY <1>4, <1>5 DEF Refused, refuses
<1>6. CASE ~refuses /\ reusable(m2[key])
  <2>1. g = [map |-> m2, chan |-> chan, sender |-> m2[key]]
    BY <1>4, <1>6
  <2>2. m2[key] # NoChan /\ ~Shut(m2[key])
    BY <1>6 DEF reusable, Shut
  <2>3. m2[key] \in Chans
    BY <1>0, <1>2, <1>3, <2>2 DEF Pruned, Chans, NoChan
  <2>. QED  BY <1>3, <1>6, <2>1, <2>2, <2>3 DEF Found, refuses
<1>7. CASE ~refuses /\ ~reusable(m2[key])
  <2>1. g = [map |-> [m2 EXCEPT ![key] = Len(chan) + 1],
             chan |-> Append(chan, Fresh(key)), sender |-> Len(chan) + 1]
    BY <1>4, <1>7
  <2>2. map[key] = NoChan \/ Shut(map[key])
    BY <1>2, <1>3, <1>7 DEF reusable, Shut, Pruned
  <2>3. g.map = [m2 EXCEPT ![key] = Len(chan) + 1]
    BY <2>1
  <2>4. g.chan = Append(chan, Fresh(key)) /\ g.sender = Len(chan) + 1
    BY <2>1
  <2>5. \E m \in [Keys -> Nat] : Pruned(m) /\ g.map = [m EXCEPT ![key] = Len(chan) + 1]
    BY <1>3, <2>3
  <2>6. Created(g, key)
    BY <1>7, <2>2, <2>4, <2>5 DEF Created, refuses
  <2>. QED  BY <1>2, <2>6
<1>. QED  BY <1>5, <1>6, <1>7

\* A channel keeps its key, its flags and its consumer.
Kept(d) ==
  /\ chan'[d].key = chan[d].key /\ chan'[d].task = chan[d].task
  /\ chan'[d].closed = chan[d].closed /\ chan'[d].draining = chan[d].draining

\* Work enters a queue.
LEMMA Enqueued ==
  ASSUME chan \in Seq(Channel), NEW c \in 1 .. Len(chan), NEW w \in Work, chan' = enqueue(c, w)
  PROVE  /\ chan' \in Seq(Channel) /\ Len(chan') = Len(chan)
         /\ chan'[c].queue = Append(chan[c].queue, w)
         /\ \A d \in 1 .. Len(chan) : Kept(d)
         /\ \A d \in 1 .. Len(chan) : d # c => chan'[d].queue = chan[d].queue
<1>. DEFINE r == [chan[c] EXCEPT !.queue = Append(chan[c].queue, w)]
<1>1. chan[c] \in Channel
  OBVIOUS
<1>2. chan[c].queue \in Seq(Work)
  BY <1>1 DEF Channel
<1>3. r \in Channel /\ r.queue = Append(chan[c].queue, w)
  <2>1. PICK q : q = Append(chan[c].queue, w)
    OBVIOUS
  <2>2. q \in Seq(Work)
    BY <1>2, <2>1
  <2>. QED  BY <1>1, <2>1, <2>2 DEF Channel
<1>4. /\ r.key = chan[c].key /\ r.task = chan[c].task
      /\ r.closed = chan[c].closed /\ r.draining = chan[c].draining
  BY <1>1 DEF Channel
<1>5. chan' = [chan EXCEPT ![c] = r]
  BY DEF enqueue
<1>. HIDE DEF r
<1>6. /\ chan' \in Seq(Channel) /\ Len(chan') = Len(chan) /\ chan'[c] = r
      /\ \A d \in 1 .. Len(chan) : d # c => chan'[d] = chan[d]
  BY <1>3, <1>5, SetChan
<1>. QED  BY <1>3, <1>4, <1>6 DEF Kept

\* The step of a consumer changes its own channel only.
LEMMA Stepped ==
  ASSUME chan \in Seq(Channel), NEW c \in 1 .. Len(chan),
         NEW q \in Seq(Work), NEW cl \in BOOLEAN, NEW dr \in BOOLEAN,
         NEW ta \in {"recv", "invoke", "exit"},
         chan' = [chan EXCEPT ![c] = [key |-> chan[c].key, queue |-> q, closed |-> cl,
                                      draining |-> dr, task |-> ta]]
  PROVE  /\ chan' \in Seq(Channel) /\ Len(chan') = Len(chan)
         /\ chan'[c].key = chan[c].key /\ chan'[c].queue = q /\ chan'[c].closed = cl
         /\ chan'[c].draining = dr /\ chan'[c].task = ta
         /\ \A d \in 1 .. Len(chan) : d # c => chan'[d] = chan[d]
<1>. DEFINE r == [key |-> chan[c].key, queue |-> q, closed |-> cl, draining |-> dr, task |-> ta]
<1>1. chan[c] \in Channel
  OBVIOUS
<1>2. r \in Channel /\ r.key = chan[c].key /\ r.queue = q /\ r.closed = cl /\ r.draining = dr /\ r.task = ta
  BY <1>1 DEF Channel
<1>. HIDE DEF r
<1>3. chan' = [chan EXCEPT ![c] = r]
  BY DEF r
<1>. QED  BY <1>2, <1>3, SetChan

\* A channel is its fields.
LEMMA ChannelFields ==
  ASSUME NEW r \in Channel
  PROVE  /\ r = [key |-> r.key, queue |-> r.queue, closed |-> r.closed,
                 draining |-> r.draining, task |-> r.task]
         /\ r.key \in Keys /\ r.queue \in Seq(Work) /\ r.closed \in BOOLEAN
         /\ r.draining \in BOOLEAN /\ r.task \in {"recv", "invoke", "exit"}
BY DEF Channel

\* One field of a channel changes.
LEMMA OneField ==
  ASSUME NEW r \in Channel, NEW q \in Seq(Work), NEW b \in BOOLEAN, NEW ta \in {"recv", "invoke", "exit"}
  PROVE  /\ [r EXCEPT !.queue = q]
              = [key |-> r.key, queue |-> q, closed |-> r.closed, draining |-> r.draining, task |-> r.task]
         /\ [r EXCEPT !.closed = b]
              = [key |-> r.key, queue |-> r.queue, closed |-> b, draining |-> r.draining, task |-> r.task]
         /\ [r EXCEPT !.draining = b]
              = [key |-> r.key, queue |-> r.queue, closed |-> r.closed, draining |-> b, task |-> r.task]
         /\ [r EXCEPT !.task = ta]
              = [key |-> r.key, queue |-> r.queue, closed |-> r.closed, draining |-> r.draining, task |-> ta]
         /\ [r EXCEPT !.queue = q] \in Channel /\ [r EXCEPT !.closed = b] \in Channel
         /\ [r EXCEPT !.draining = b] \in Channel /\ [r EXCEPT !.task = ta] \in Channel
BY DEF Channel

\* Two fields of a channel change.
LEMMA TwoFields ==
  ASSUME NEW r \in Channel, NEW q \in Seq(Work), NEW cl \in BOOLEAN, NEW dr \in BOOLEAN,
         NEW ta \in {"recv", "invoke", "exit"}
  PROVE  /\ [[r EXCEPT !.queue = q] EXCEPT !.task = ta]
              = [key |-> r.key, queue |-> q, closed |-> r.closed, draining |-> r.draining, task |-> ta]
         /\ [[r EXCEPT !.closed = cl] EXCEPT !.draining = dr]
              = [key |-> r.key, queue |-> r.queue, closed |-> cl, draining |-> dr, task |-> r.task]
         /\ [[r EXCEPT !.task = ta] EXCEPT !.closed = cl]
              = [key |-> r.key, queue |-> r.queue, closed |-> cl, draining |-> r.draining, task |-> ta]
<1>1. PICK s : s = [r EXCEPT !.queue = q]
  OBVIOUS
<1>2. PICK t : t = [r EXCEPT !.closed = cl]
  OBVIOUS
<1>3. PICK u : u = [r EXCEPT !.task = ta]
  OBVIOUS
<1>a. s \in Channel /\ t \in Channel /\ u \in Channel
  BY <1>1, <1>2, <1>3, OneField
<1>4. /\ s = [key |-> r.key, queue |-> q, closed |-> r.closed, draining |-> r.draining, task |-> r.task]
      /\ t = [key |-> r.key, queue |-> r.queue, closed |-> cl, draining |-> r.draining, task |-> r.task]
      /\ u = [key |-> r.key, queue |-> r.queue, closed |-> r.closed, draining |-> r.draining, task |-> ta]
  BY <1>1, <1>2, <1>3, OneField
<1>5. [s EXCEPT !.task = ta]
        = [key |-> s.key, queue |-> s.queue, closed |-> s.closed, draining |-> s.draining, task |-> ta]
  BY <1>a, OneField
<1>6. [t EXCEPT !.draining = dr]
        = [key |-> t.key, queue |-> t.queue, closed |-> t.closed, draining |-> dr, task |-> t.task]
  BY <1>a, OneField
<1>7. [u EXCEPT !.closed = cl]
        = [key |-> u.key, queue |-> u.queue, closed |-> cl, draining |-> u.draining, task |-> u.task]
  BY <1>a, OneField
<1>8. s.key = r.key /\ s.queue = q /\ s.closed = r.closed /\ s.draining = r.draining
  BY <1>4
<1>9. t.key = r.key /\ t.queue = r.queue /\ t.closed = cl /\ t.task = r.task
  BY <1>4
<1>10. u.key = r.key /\ u.queue = r.queue /\ u.draining = r.draining /\ u.task = ta
  BY <1>4
<1>. QED  BY <1>1, <1>2, <1>3, <1>5, <1>6, <1>7, <1>8, <1>9, <1>10

\* The fields of a channel have their types.
LEMMA ChanFields ==
  ASSUME chan \in Seq(Channel), NEW c \in 1 .. Len(chan)
  PROVE  /\ chan[c] \in Channel /\ chan[c].key \in Keys /\ chan[c].queue \in Seq(Work)
         /\ chan[c].closed \in BOOLEAN /\ chan[c].draining \in BOOLEAN
         /\ chan[c].task \in {"recv", "invoke", "exit"}
<1>1. chan[c] \in Channel
  OBVIOUS
<1>. QED  BY <1>1, ChannelFields

-----------------------------------------------------------------------------
(* The map and the consumers. *)

Core == Mapped /\ Spent /\ Alive /\ OneTask

\* Nothing is published again.
OnlyRetire == (~retired' => ~retired) /\ (gate' # "retired" => gate # "retired")

\* No consumer and no entry of the map moves.
LEMMA CoreSame ==
  ASSUME Types, Core, OnlyRetire, map' = map, Len(chan') = Len(chan),
         \A d \in Chans : Kept(d),
         \A d \in Chans : ~Live(d) => chan'[d].queue = chan[d].queue
  PROVE  Core'
<1>0. Chans' = Chans /\ \A d \in Chans : (Live(d)' <=> Live(d)) /\ (Shut(d)' <=> Shut(d))
  BY DEF Chans, Kept, Live, Shut
<1>1. Mapped'
  <2>1. \A k \in Keys : map[k] # NoChan => map[k] \in Chans
    BY DEF Types, Chans, NoChan
  <2>. QED  BY <2>1 DEF Core, Mapped, Kept
<1>2. Spent'
  BY <1>0 DEF Core, Spent, Kept
<1>3. Alive'
  BY <1>0 DEF Core, Alive, Kept, OnlyRetire
<1>4. OneTask'
  BY <1>0 DEF Core, OneTask, Kept, OnlyRetire
<1>. QED  BY <1>1, <1>2, <1>3, <1>4 DEF Core

\* What get_or_spawn_consumer leaves alone: every channel stays, and a new one is
\* empty and open.
Grown ==
  /\ chan' \in Seq(Channel) /\ Len(chan') \in Nat /\ Len(chan') >= Len(chan)
  /\ \A d \in 1 .. Len(chan) : d \in 1 .. Len(chan') /\ chan'[d] = chan[d]
  /\ \A d \in 1 .. Len(chan') : d \in 1 .. Len(chan) \/ chan'[d].queue = <<>>

\* The call preserves the order of map and consumers, and unless it refuses it
\* hands out an open queue.
LEMMA SpawnCore ==
  ASSUME Types, Core, UNCHANGED <<gate, stopping>>,
         NEW g, Refused(g) \/ Found(g) \/ \E k \in Keys : Created(g, k),
         map' = g.map, chan' = g.chan
  PROVE  /\ Core' /\ Grown
         /\ map' \in [Keys -> Nat] /\ \A k \in Keys : map'[k] \in 0 .. Len(chan')
         /\ g.sender \in 0 .. Len(chan')
         /\ stopping # "retired" => g.sender \in 1 .. Len(chan') /\ ~chan'[g.sender].closed
<1>0. /\ map \in [Keys -> Nat] /\ chan \in Seq(Channel) /\ Len(chan) \in Nat
      /\ \A k \in Keys : map[k] \in 0 .. Len(chan)
  BY DEF Types
<1>1. retired' = retired /\ gate' = gate
  BY DEF retired
<1>2. CASE Refused(g)
  <2>1. map' = map /\ chan' = chan /\ g.sender = 0 /\ stopping = "retired"
    BY <1>2 DEF Refused, NoChan
  <2>2. Core'
    BY <1>1, <2>1 DEF Core, Mapped, Spent, Alive, OneTask, Chans, Live, Shut
  <2>. QED  BY <1>0, <2>1, <2>2 DEF Grown
<1>3. CASE Found(g)
  <2>1. /\ chan' = chan /\ g.sender \in Chans /\ ~Shut(g.sender) /\ map' \in [Keys -> Nat]
        /\ Pruned(map')
    BY <1>3 DEF Found
  <2>2. \A k \in Keys : map'[k] \in 0 .. Len(chan')
    BY <1>0, <2>1 DEF Pruned, NoChan
  <2>3. Mapped'
    BY <2>1 DEF Core, Mapped, Pruned
  <2>4. Spent' /\ OneTask'
    BY <1>1, <2>1 DEF Core, Spent, OneTask, Chans, Live, Shut
  <2>5. Alive'
    <3>. SUFFICES ASSUME ~retired, NEW c \in Chans, Live(c)
                  PROVE  ~Shut(c) /\ map'[chan[c].key] = c
      BY <1>1, <2>1 DEF Alive, Chans, Live, Shut
    <3>1. ~Shut(c) /\ map[chan[c].key] = c
      BY DEF Core, Alive
    <3>2. chan[c].key \in Keys
      BY <1>0, ChanFields DEF Chans
    <3>. QED  BY <2>1, <3>1, <3>2 DEF Pruned
  <2>. QED  BY <1>0, <2>1, <2>2, <2>3, <2>4, <2>5 DEF Core, Grown, Chans, Shut
<1>4. ASSUME NEW k \in Keys, Created(g, k)
      PROVE  /\ Core' /\ Grown
             /\ map' \in [Keys -> Nat] /\ \A q \in Keys : map'[q] \in 0 .. Len(chan')
             /\ g.sender \in 0 .. Len(chan')
             /\ stopping # "retired" => g.sender \in 1 .. Len(chan') /\ ~chan'[g.sender].closed
  <2>n. PICK n \in Nat : n = Len(chan) + 1
    BY <1>0
  <2>1. PICK m \in [Keys -> Nat] : Pruned(m) /\ map' = [m EXCEPT ![k] = n]
    BY <1>4, <2>n DEF Created
  <2>2. /\ chan' = Append(chan, Fresh(k)) /\ g.sender = n
        /\ map[k] = NoChan \/ Shut(map[k])
    BY <1>4, <2>n DEF Created
  <2>3. /\ chan' \in Seq(Channel) /\ Len(chan') = n /\ chan'[n] = Fresh(k)
        /\ \A d \in 1 .. Len(chan) : chan'[d] = chan[d]
        /\ \A d \in 1 .. Len(chan') : d \in 1 .. Len(chan) \/ d = n
    BY <1>0, <2>n, <2>2, AddChan
  <2>4. map' \in [Keys -> Nat] /\ map'[k] = n /\ \A q \in Keys : q # k => map'[q] = m[q]
    BY <2>1
  <2>5. \A q \in Keys : map'[q] \in 0 .. Len(chan')
    <3>1. \A q \in Keys : m[q] \in 0 .. Len(chan)
      BY <1>0, <2>1 DEF Pruned, NoChan
    <3>. QED  BY <1>0, <2>n, <2>3, <2>4, <3>1
  <2>6. Chans' = Chans \cup {n} /\ n \notin Chans
    BY <1>0, <2>n, <2>3 DEF Chans
  <2>7. \A d \in Chans : chan'[d] = chan[d]
    BY <2>3 DEF Chans
  <2>8. /\ chan'[n].key = k /\ chan'[n].queue = <<>> /\ ~chan'[n].closed /\ ~chan'[n].draining
        /\ chan'[n].task = "recv"
    BY <2>3 DEF Fresh
  <2>9. Grown
    BY <1>0, <2>n, <2>3, <2>8 DEF Grown
  <2>10. Mapped'
    <3>. SUFFICES ASSUME NEW q \in Keys, map'[q] # NoChan PROVE chan'[map'[q]].key = q
      BY DEF Mapped
    <3>1. CASE q = k
      BY <2>4, <2>8, <3>1
    <3>2. CASE q # k
      <4>1. map'[q] = map[q] /\ map[q] # NoChan
        BY <2>1, <2>4, <3>2 DEF Pruned
      <4>2. map[q] \in Chans /\ chan[map[q]].key = q
        BY <1>0, <4>1 DEF Core, Mapped, Chans, NoChan
      <4>. QED  BY <2>7, <4>1, <4>2
    <3>. QED  BY <3>1, <3>2
  <2>11. Spent'
    <3>. SUFFICES ASSUME NEW d \in Chans'
                  PROVE  /\ ~Live(d)' => Shut(d)' /\ chan'[d].queue = <<>>
                         /\ chan'[d].draining => Shut(d)'
      BY DEF Spent
    <3>1. CASE d = n
      BY <2>8, <3>1 DEF Live, Shut
    <3>2. CASE d \in Chans
      BY <2>7, <3>2 DEF Core, Spent, Live, Shut
    <3>. QED  BY <2>6, <3>1, <3>2
  <2>12. ~retired => \A c \in Chans : Live(c) => chan[c].key # k
    <3>. SUFFICES ASSUME ~retired, NEW c \in Chans, Live(c), chan[c].key = k PROVE FALSE
      OBVIOUS
    <3>1. ~Shut(c) /\ map[k] = c
      BY DEF Core, Alive
    <3>2. c # NoChan
      BY DEF Chans, NoChan
    <3>. QED  BY <2>2, <3>1, <3>2
  <2>13. Alive'
    <3>. SUFFICES ASSUME ~retired, NEW c \in Chans', Live(c)'
                  PROVE  ~Shut(c)' /\ map'[chan'[c].key] = c
      BY <1>1 DEF Alive
    <3>1. CASE c = n
      BY <2>4, <2>8, <3>1 DEF Shut
    <3>2. CASE c \in Chans
      <4>1. Live(c) /\ chan'[c] = chan[c]
        BY <2>7, <3>2 DEF Live
      <4>2. ~Shut(c) /\ map[chan[c].key] = c /\ chan[c].key # k
        BY <2>12, <3>2, <4>1 DEF Core, Alive
      <4>3. chan[c].key \in Keys
        BY <1>0, <3>2, ChanFields DEF Chans
      <4>4. map'[chan[c].key] = c
        BY <2>1, <2>4, <4>2, <4>3 DEF Pruned
      <4>. QED  BY <4>1, <4>2, <4>4 DEF Shut
    <3>. QED  BY <2>6, <3>1, <3>2
  <2>14. OneTask'
    <3>. SUFFICES ASSUME gate # "retired", NEW c \in Chans', NEW d \in Chans',
                         chan'[c].key = chan'[d].key, Live(c)', Live(d)'
                  PROVE  c = d
      BY <1>1 DEF OneTask
    <3>0. ~retired
      BY <1>4 DEF Created, retired
    <3>1. \A e \in Chans : (Live(e)' <=> Live(e)) /\ chan'[e].key = chan[e].key
      BY <2>7 DEF Live
    <3>2. CASE c \in Chans /\ d \in Chans
      BY <3>1, <3>2 DEF Core, OneTask
    <3>3. CASE c \in Chans /\ d = n
      BY <2>8, <2>12, <3>0, <3>1, <3>3
    <3>4. CASE c = n /\ d \in Chans
      BY <2>8, <2>12, <3>0, <3>1, <3>4
    <3>. QED  BY <2>6, <3>2, <3>3, <3>4
  <2>15. g.sender \in 1 .. Len(chan') /\ ~chan'[g.sender].closed /\ g.sender \in 0 .. Len(chan')
    <3>1. g.sender = n /\ n \in 1 .. Len(chan') /\ n \in 0 .. Len(chan')
      BY <1>0, <2>n, <2>2, <2>3
    <3>. QED  BY <2>8, <3>1
  <2>. QED  BY <2>4, <2>5, <2>9, <2>10, <2>11, <2>13, <2>14, <2>15 DEF Core
<1>. QED  BY <1>2, <1>3, <1>4

\* What one consumer does to its channel; the others keep theirs.
Acts(c) ==
  /\ chan' \in Seq(Channel) /\ Len(chan') = Len(chan) /\ chan'[c].key = chan[c].key
  /\ \A d \in 1 .. Len(chan) : d # c => chan'[d] = chan[d]

\* A consumer receives work or its invocation returns.
LEMMA CoreWork ==
  ASSUME Types, Core, NEW c \in Chans, Live(c), Acts(c), UNCHANGED <<map, gate, stopping>>,
         chan'[c].closed = chan[c].closed, chan'[c].draining = chan[c].draining,
         chan'[c].task # "exit"
  PROVE  Core'
<1>1. Chans' = Chans /\ retired' = retired
  BY DEF Acts, Chans, retired
<1>2. \A d \in Chans : /\ chan'[d].key = chan[d].key /\ (Live(d)' <=> Live(d)) /\ (Shut(d)' <=> Shut(d))
                       /\ chan'[d].draining = chan[d].draining
  BY DEF Acts, Chans, Live, Shut
<1>3. \A d \in Chans : ~Live(d) => chan'[d].queue = chan[d].queue
  BY DEF Acts, Chans
<1>4. \A k \in Keys : map[k] # NoChan => map[k] \in Chans
  BY DEF Types, Chans, NoChan
<1>5. Mapped'
  BY <1>2, <1>4 DEF Core, Mapped
<1>6. Spent'
  BY <1>1, <1>2, <1>3 DEF Core, Spent
<1>7. Alive'
  BY <1>1, <1>2 DEF Core, Alive
<1>8. OneTask'
  BY <1>1, <1>2 DEF Core, OneTask
<1>. QED  BY <1>5, <1>6, <1>7, <1>8 DEF Core

\* A consumer closes its channel, when something retired.
LEMMA CoreClose ==
  ASSUME Types, Core, NEW c \in Chans, Live(c), Acts(c), UNCHANGED <<map, gate, stopping>>, retired,
         chan'[c].closed, chan'[c].task # "exit"
  PROVE  Core'
<1>1. Chans' = Chans /\ retired' = retired
  BY DEF Acts, Chans, retired
<1>2. \A d \in Chans : /\ chan'[d].key = chan[d].key /\ (Live(d)' <=> Live(d))
                       /\ d # c => chan'[d] = chan[d]
  BY DEF Acts, Chans, Live
<1>4. \A k \in Keys : map[k] # NoChan => map[k] \in Chans
  BY DEF Types, Chans, NoChan
<1>5. Mapped'
  BY <1>2, <1>4 DEF Core, Mapped
<1>6. Spent'
  <2>. SUFFICES ASSUME NEW d \in Chans
                PROVE  /\ ~Live(d)' => Shut(d)' /\ chan'[d].queue = <<>>
                       /\ chan'[d].draining => Shut(d)'
    BY <1>1 DEF Spent
  <2>1. CASE d = c
    BY <2>1 DEF Live, Shut
  <2>2. CASE d # c
    BY <1>2, <2>2 DEF Core, Spent, Live, Shut
  <2>. QED  BY <2>1, <2>2
<1>7. Alive'
  BY <1>1 DEF Alive
<1>8. OneTask'
  BY <1>1, <1>2 DEF Core, OneTask
<1>. QED  BY <1>5, <1>6, <1>7, <1>8 DEF Core

\* A consumer exits with an empty queue and removes its own entry.
LEMMA CoreExit ==
  ASSUME Types, Core, NEW c \in Chans, Live(c), Acts(c), UNCHANGED <<gate, stopping>>,
         map' = IF map[chan[c].key] = c THEN [map EXCEPT ![chan[c].key] = NoChan] ELSE map,
         chan'[c].closed, chan'[c].task = "exit", chan'[c].queue = <<>>
  PROVE  Core'
<1>1. Chans' = Chans /\ retired' = retired
  BY DEF Acts, Chans, retired
<1>2. \A d \in Chans : chan'[d].key = chan[d].key /\ (d # c => chan'[d] = chan[d])
  BY DEF Acts, Chans
<1>3. \A d \in Chans : chan[d].key \in Keys
  BY ChanFields DEF Types, Chans
<1>4. map \in [Keys -> Nat] /\ \A k \in Keys : map[k] # NoChan => map[k] \in Chans
  BY DEF Types, Chans, NoChan
<1>5. \A k \in Keys : map'[k] = map[k] \/ (map'[k] = NoChan /\ map[k] = c)
  BY <1>3, <1>4
<1>6. Mapped'
  BY <1>2, <1>4, <1>5 DEF Core, Mapped
<1>7. Spent'
  <2>. SUFFICES ASSUME NEW d \in Chans
                PROVE  /\ ~Live(d)' => Shut(d)' /\ chan'[d].queue = <<>>
                       /\ chan'[d].draining => Shut(d)'
    BY <1>1 DEF Spent
  <2>1. CASE d = c
    BY <2>1 DEF Live, Shut
  <2>2. CASE d # c
    BY <1>2, <2>2 DEF Core, Spent, Live, Shut
  <2>. QED  BY <2>1, <2>2
<1>8. \A d \in Chans : Live(d)' => d # c /\ Live(d) /\ chan'[d] = chan[d]
  BY <1>2 DEF Live
<1>9. Alive'
  <2>. SUFFICES ASSUME ~retired, NEW d \in Chans, Live(d)'
                PROVE  ~Shut(d)' /\ map'[chan'[d].key] = d
    BY <1>1 DEF Alive
  <2>1. d # c /\ Live(d) /\ chan'[d] = chan[d]
    BY <1>8
  <2>2. ~Shut(d) /\ map[chan[d].key] = d
    BY <2>1 DEF Core, Alive
  <2>. QED  BY <1>3, <1>5, <2>1, <2>2 DEF Shut
<1>10. OneTask'
  BY <1>1, <1>2, <1>8 DEF Core, OneTask
<1>. QED  BY <1>6, <1>7, <1>9, <1>10 DEF Core

-----------------------------------------------------------------------------
(* Who may still send. *)

\* Permits stay on live consumers when no reserver moves and none of their
\* consumers exits.
LEMMA PermitsSame ==
  ASSUME PermitsLive, res' = res,
         \A t \in Reservers : Sends(t) /\ Live(res[t].sender) => Live(res[t].sender)',
         Len(chan) \in Nat, Len(chan') \in Nat, Len(chan') >= Len(chan)
  PROVE  PermitsLive'
<1>1. Chans \subseteq Chans'
  BY DEF Chans
<1>. QED  BY <1>1 DEF PermitsLive, Sends, Live

\* A consumer that exits leaves nobody with a permit, and the dispatch loop
\* without its sender when it evicts itself.
LEMMA NoPermit ==
  ASSUME NEW c, permits(c) = 0
  PROVE  \A t \in Reservers : Sends(t) => res[t].sender # c
<1>. DEFINE S == {t \in Reservers : res[t].sender = c /\ res[t].at \in {"permit", "committed"}}
<1>1. IsFiniteSet(S)
  BY ConstAssumption, FS_Subset
<1>2. S = {}
  BY <1>1, FS_EmptySet DEF permits
<1>. QED  BY <1>2 DEF Sends

\* With one strong sender, the map's, nobody else holds a clone.
LEMMA SoleSender ==
  ASSUME NEW c, strong(c) = 1, map[chan[c].key] = c
  PROVE  loop.sender # c /\ \A t \in Reservers : res[t].sender # c
<1>. DEFINE S == {t \in Reservers : res[t].sender = c}
<1>1. IsFiniteSet(S)
  BY ConstAssumption, FS_Subset
<1>2. Cardinality(S) \in Nat
  BY <1>1, FS_CardinalityType
<1>3. 1 = 1 + (IF loop.sender = c THEN 1 ELSE 0) + Cardinality(S)
  BY DEF strong
<1>4. Cardinality(S) = 0 /\ loop.sender # c
  BY <1>2, <1>3
<1>5. S = {}
  BY <1>1, <1>4, FS_EmptySet
<1>. QED  BY <1>4, <1>5

\* The map's own sender keeps a consumer from seeing all senders gone.
LEMMA MappedSender ==
  ASSUME NEW c, map[chan[c].key] = c
  PROVE  strong(c) # 0
<1>. DEFINE S == {t \in Reservers : res[t].sender = c}
<1>1. IsFiniteSet(S)
  BY ConstAssumption, FS_Subset
<1>2. Cardinality(S) \in Nat
  BY <1>1, FS_CardinalityType
<1>3. strong(c) = 1 + (IF loop.sender = c THEN 1 ELSE 0) + Cardinality(S)
  BY DEF strong
<1>. QED  BY <1>2, <1>3

-----------------------------------------------------------------------------
(* Types and flags: one lemma per operation. *)

\* The first publication of the inbox and the rest.
LEMMA HeadItem ==
  ASSUME inbox \in Seq(Item), inbox # <<>>
  PROVE  /\ Head(inbox) = inbox[1] /\ 1 \in 1 .. Len(inbox) /\ Head(inbox).work \in Work
         /\ Head(inbox).by \in Reservers \cup {"ordinary"}
         /\ Tail(inbox) \in Seq(Item) /\ Len(Tail(inbox)) = Len(inbox) - 1
         /\ \A i \in 1 .. Len(Tail(inbox)) : i + 1 \in 1 .. Len(inbox) /\ Tail(inbox)[i] = inbox[i + 1]
<1>1. Len(inbox) \in Nat /\ Len(inbox) > 0 /\ Head(inbox) = inbox[1]
  OBVIOUS
<1>2. /\ Tail(inbox) \in Seq(Item) /\ Len(Tail(inbox)) = Len(inbox) - 1
      /\ \A i \in 1 .. Len(Tail(inbox)) : Tail(inbox)[i] = inbox[i + 1]
  BY HeadTailProperties
<1>3. \A i \in 1 .. Len(Tail(inbox)) : i + 1 \in 1 .. Len(inbox)
  BY <1>1, <1>2
<1>4. inbox[1] \in Item /\ 1 \in 1 .. Len(inbox)
  BY <1>1
<1>. QED  BY <1>1, <1>2, <1>3, <1>4 DEF Item

\* Taking the first publication leaves the others with their owners, unless its
\* owner moves with it.
LEMMA InboxTaken ==
  ASSUME inbox \in Seq(Item), inbox # <<>>, InboxOwned, inbox' = Tail(inbox),
         \A t \in Reservers : t # Head(inbox).by => res'[t] = res[t]
  PROVE  InboxOwned'
<1>. SUFFICES ASSUME NEW i \in 1 .. Len(inbox'), inbox'[i].by \in Reservers
              PROVE  /\ res'[inbox'[i].by].at = "committed"
                     /\ \A j \in 1 .. Len(inbox') : inbox'[j].by = inbox'[i].by => i = j
  BY DEF InboxOwned
<1>1. /\ i + 1 \in 1 .. Len(inbox) /\ inbox'[i] = inbox[i + 1] /\ 1 \in 1 .. Len(inbox)
      /\ \A j \in 1 .. Len(inbox') : j + 1 \in 1 .. Len(inbox) /\ inbox'[j] = inbox[j + 1]
      /\ Head(inbox) = inbox[1]
  BY HeadItem
<1>2. /\ res[inbox[i + 1].by].at = "committed"
      /\ \A j \in 1 .. Len(inbox) : inbox[j].by = inbox[i + 1].by => i + 1 = j
  BY <1>1 DEF InboxOwned
<1>3. inbox[i + 1].by # inbox[1].by
  <2>1. i + 1 # 1
    OBVIOUS
  <2>. QED  BY <1>1, <1>2, <2>1
<1>4. \A j \in 1 .. Len(inbox') : inbox'[j].by = inbox'[i].by => i + 1 = j + 1
  BY <1>1, <1>2
<1>5. \A j \in 1 .. Len(inbox') : i + 1 = j + 1 => i = j
  OBVIOUS
<1>. QED  BY <1>1, <1>2, <1>3, <1>4, <1>5

\* A publication joins the inbox.
LEMMA InboxJoined ==
  ASSUME inbox \in Seq(Item), InboxOwned, NEW x \in Item, inbox' = Append(inbox, x),
         x.by \in Reservers => res[x.by].at # "committed" /\ res'[x.by].at = "committed",
         \A t \in Reservers : t # x.by => res'[t] = res[t]
  PROVE  InboxOwned' /\ inbox' \in Seq(Item)
<1>1. /\ Len(inbox) \in Nat /\ Len(inbox') = Len(inbox) + 1 /\ inbox' \in Seq(Item)
      /\ inbox'[Len(inbox) + 1] = x /\ \A i \in 1 .. Len(inbox) : inbox'[i] = inbox[i]
  OBVIOUS
<1>2. \A i \in 1 .. Len(inbox') : i \in 1 .. Len(inbox) \/ i = Len(inbox) + 1
  BY <1>1
<1>3. \A i \in 1 .. Len(inbox) : inbox[i].by \in Reservers => inbox[i].by # x.by
  BY DEF InboxOwned
<1>4. ASSUME NEW i \in 1 .. Len(inbox'), inbox'[i].by \in Reservers
      PROVE  /\ res'[inbox'[i].by].at = "committed"
             /\ \A j \in 1 .. Len(inbox') : inbox'[j].by = inbox'[i].by => i = j
  <2>1. CASE i \in 1 .. Len(inbox)
    <3>1. /\ inbox'[i] = inbox[i] /\ inbox[i].by # x.by /\ res[inbox[i].by].at = "committed"
          /\ \A j \in 1 .. Len(inbox) : inbox[j].by = inbox[i].by => i = j
      BY <1>1, <1>3, <1>4, <2>1 DEF InboxOwned
    <3>. QED  BY <1>1, <1>2, <1>4, <3>1
  <2>2. CASE i = Len(inbox) + 1
    BY <1>1, <1>2, <1>3, <1>4, <2>2
  <2>. QED  BY <1>2, <2>1, <2>2
<1>5. InboxOwned'
  BY <1>4 DEF InboxOwned
<1>. QED  BY <1>1, <1>5

\* Nothing is dropped on a closed queue.
LEMMA LostSame ==
  ASSUME ClosedNeverDropped, lost' = lost, gate' = gate
  PROVE  ClosedNeverDropped'
BY DEF ClosedNeverDropped

\* An ordinary event enters the inbox.
LEMMA PublishFlags ==
  ASSUME IInv, NEW p \in Keys, Publish(p)
  PROVE  Types' /\ Flags'
<1>. USE DEF IInv, Flags
<1>1. /\ published' = published + 1
      /\ inbox' = Append(inbox, [work |-> [id |-> published + 1, principal |-> p], by |-> "ordinary"])
      /\ UNCHANGED <<map, chan, gate, stopping, loop, res, invoked, lost>>
  BY DEF Publish, history
<1>x. PICK x : x = [work |-> [id |-> published + 1, principal |-> p], by |-> "ordinary"]
  OBVIOUS
<1>2. x \in Item /\ x.by = "ordinary" /\ published' \in Nat
  BY <1>1, <1>x DEF Types, Item, Work
<1>3. InboxOwned' /\ inbox' \in Seq(Item)
  BY <1>1, <1>2, <1>x, InboxJoined, ConstAssumption DEF Types
<1>4. Types'
  BY <1>1, <1>2, <1>3 DEF Types
<1>5. Core' /\ PermitsLive' /\ ResendOpen'
  BY <1>1 DEF Core, Mapped, Spent, Alive, OneTask, Chans, Live, Shut, retired, PermitsLive, Sends, ResendOpen
<1>6. ClosedNeverDropped'
  BY <1>1, LostSame
<1>. QED  BY <1>3, <1>4, <1>5, <1>6 DEF Core

\* The loop looks the consumer of the next ordinary event up.
LEMMA LoopTakeFlags ==
  ASSUME IInv, LoopTake
  PROVE  Types' /\ Flags'
<1>. USE DEF IInv, Flags
<1>1. /\ inbox # <<>> /\ inbox' = Tail(inbox)
      /\ UNCHANGED <<gate, stopping, res, published, invoked, lost>>
  BY DEF LoopTake, history
<1>w. PICK w : w = Head(inbox).work
  OBVIOUS
<1>g. PICK g : g = get_or_spawn_consumer(w.principal)
  OBVIOUS
<1>2. map' = g.map /\ chan' = g.chan /\ loop' = [at |-> "send", work |-> w, sender |-> g.sender]
  BY <1>w, <1>g DEF LoopTake
<1>3. w \in Work /\ w.principal \in Keys /\ inbox' \in Seq(Item)
  BY <1>1, <1>w, HeadItem DEF Types, Work
<1>4. Refused(g) \/ Found(g) \/ \E k \in Keys : Created(g, k)
  BY <1>3, <1>g, Spawned
<1>5. /\ Core' /\ Grown
      /\ map' \in [Keys -> Nat] /\ \A k \in Keys : map'[k] \in 0 .. Len(chan')
      /\ g.sender \in 0 .. Len(chan')
  BY <1>1, <1>2, <1>4, SpawnCore DEF Core
<1>6. Types'
  <2>1. loop' \in LoopRec /\ loop'.sender = g.sender
    BY <1>2, <1>3, <1>5 DEF LoopRec
  <2>. QED  BY <1>1, <1>3, <1>5, <2>1 DEF Types, Grown
<1>7. PermitsLive'
  BY <1>1, <1>5, PermitsSame DEF Grown, PermitsLive, Chans, Live, Types
<1>8. InboxOwned'
  BY <1>1, InboxTaken DEF Types
<1>9. ResendOpen'
  BY <1>2 DEF ResendOpen
<1>. QED  BY <1>1, <1>5, <1>6, <1>7, <1>8, <1>9, LostSame DEF Core

\* Work enters the queue of a live consumer.
LEMMA EnqueueFlags ==
  ASSUME Types, Core, NEW c \in Chans, Live(c), NEW w \in Work, chan' = enqueue(c, w),
         UNCHANGED <<map, gate, stopping>>
  PROVE  /\ Core' /\ chan' \in Seq(Channel) /\ Len(chan') = Len(chan)
         /\ \A d \in Chans : (Live(d)' <=> Live(d)) /\ (Shut(d)' <=> Shut(d))
<1>1. c \in 1 .. Len(chan) /\ chan \in Seq(Channel)
  BY DEF Chans, Types
<1>2. /\ chan' \in Seq(Channel) /\ Len(chan') = Len(chan)
      /\ \A d \in Chans : Kept(d)
      /\ \A d \in Chans : d # c => chan'[d].queue = chan[d].queue
  BY <1>1, Enqueued DEF Chans
<1>3. OnlyRetire
  BY DEF OnlyRetire, retired
<1>4. Core'
  BY <1>2, <1>3, CoreSame
<1>. QED  BY <1>2, <1>4 DEF Kept, Live, Shut

\* An open queue has a consumer.
LEMMA OpenIsLive ==
  ASSUME Types, Core, NEW c \in 0 .. Len(chan), ~is_closed(c)
  PROVE  c \in Chans /\ Live(c) /\ ~Shut(c)
<1>1. c \in Chans /\ ~Shut(c)
  BY DEF is_closed, NoChan, Chans, Types, Shut
<1>. QED  BY <1>1 DEF Core, Spent

\* The loop moves on with the same work.
LEMMA LoopMoves ==
  ASSUME loop \in LoopRec, NEW a \in {"idle", "send", "respawn", "resend"}, NEW s \in Nat
  PROVE  LET l == [loop EXCEPT !.at = a, !.sender = s]
         IN  l \in LoopRec /\ l.at = a /\ l.sender = s /\ l.work = loop.work
BY DEF LoopRec

\* The idle loop holds nothing.
LEMMA LoopIdles == IdleLoop \in LoopRec /\ IdleLoop.at = "idle" /\ IdleLoop.sender = 0
BY DEF LoopRec, IdleLoop, NoWork, NoChan, Work, Keys

\* The loop tries to send.
LEMMA LoopSendFlags ==
  ASSUME IInv, LoopSend
  PROVE  Types' /\ Flags'
<1>. USE DEF IInv, Flags
<1>c. PICK c : c = loop.sender
  OBVIOUS
<1>w. PICK w : w = loop.work
  OBVIOUS
<1>1. UNCHANGED <<map, gate, stopping, inbox, res, published, invoked, lost>>
  BY DEF LoopSend
<1>2. loop \in LoopRec /\ c \in 0 .. Len(chan) /\ w \in Work
  BY <1>c, <1>w DEF Types, LoopRec
<1>3. CASE is_closed(c) \/ ~has_room(c)
  <2>1. chan' = chan
    BY <1>3, <1>c DEF LoopSend
  <2>2. loop' = IdleLoop \/ loop' = [loop EXCEPT !.at = "respawn", !.sender = NoChan]
    BY DEF LoopSend
  <2>3. loop' \in LoopRec /\ loop'.sender = 0 /\ loop'.at # "resend"
    <3>1. CASE loop' = IdleLoop
      BY <3>1, LoopIdles
    <3>2. CASE loop' = [loop EXCEPT !.at = "respawn", !.sender = NoChan]
      <4>1. NoChan \in Nat /\ NoChan = 0
        BY DEF NoChan
      <4>. QED  BY <1>2, <3>2, <4>1, LoopMoves
    <3>. QED  BY <2>2, <3>1, <3>2
  <2>4. Types'
    BY <1>1, <2>1, <2>3 DEF Types
  <2>5. Core' /\ PermitsLive' /\ InboxOwned'
    BY <1>1, <2>1 DEF Core, Mapped, Spent, Alive, OneTask, Chans, Live, Shut, retired, PermitsLive, Sends, InboxOwned
  <2>6. ResendOpen'
    BY <2>3 DEF ResendOpen
  <2>. QED  BY <1>1, <2>4, <2>5, <2>6, LostSame DEF Core
<1>4. CASE ~is_closed(c) /\ has_room(c)
  <2>1. chan' = enqueue(c, w) /\ loop' = IdleLoop
    BY <1>4, <1>c, <1>w DEF LoopSend
  <2>2. c \in Chans /\ Live(c)
    BY <1>2, <1>4, OpenIsLive DEF Core
  <2>3. /\ Core' /\ chan' \in Seq(Channel) /\ Len(chan') = Len(chan)
        /\ \A d \in Chans : (Live(d)' <=> Live(d)) /\ (Shut(d)' <=> Shut(d))
    BY <1>1, <1>2, <2>1, <2>2, EnqueueFlags DEF Core
  <2>4. loop' \in LoopRec /\ loop'.sender = 0 /\ loop'.at # "resend"
    BY <2>1 DEF LoopRec, IdleLoop, NoWork, NoChan, Work, Keys
  <2>5. Types'
    BY <1>1, <2>3, <2>4 DEF Types
  <2>6. PermitsLive'
    BY <1>1, <2>3, PermitsSame DEF PermitsLive, Types
  <2>7. InboxOwned'
    BY <1>1 DEF InboxOwned
  <2>8. ResendOpen'
    BY <2>4 DEF ResendOpen
  <2>. QED  BY <1>1, <2>3, <2>5, <2>6, <2>7, <2>8, LostSame DEF Core
<1>. QED  BY <1>3, <1>4

\* The loop asks for a new consumer.
LEMMA LoopRespawnFlags ==
  ASSUME IInv, LoopRespawn
  PROVE  Types' /\ Flags'
<1>. USE DEF IInv, Flags
<1>g. PICK g : g = get_or_spawn_consumer(loop.work.principal)
  OBVIOUS
<1>1. /\ map' = g.map /\ chan' = g.chan /\ loop' = [loop EXCEPT !.at = "resend", !.sender = g.sender]
      /\ UNCHANGED <<gate, stopping, inbox, res, published, invoked, lost>>
  BY <1>g DEF LoopRespawn, history
<1>2. loop \in LoopRec /\ loop.work.principal \in Keys
  BY DEF Types, LoopRec, Work
<1>3. Refused(g) \/ Found(g) \/ \E k \in Keys : Created(g, k)
  BY <1>2, <1>g, Spawned
<1>4. /\ Core' /\ Grown
      /\ map' \in [Keys -> Nat] /\ \A k \in Keys : map'[k] \in 0 .. Len(chan')
      /\ g.sender \in 0 .. Len(chan')
      /\ stopping # "retired" => g.sender \in 1 .. Len(chan') /\ ~chan'[g.sender].closed
  BY <1>1, <1>3, SpawnCore DEF Core
<1>5. loop' \in LoopRec /\ loop'.sender = g.sender
  <2>1. g.sender \in Nat
    BY <1>4
  <2>. QED  BY <1>1, <1>2, <2>1, LoopMoves
<1>6. Types'
  BY <1>1, <1>4, <1>5 DEF Types, Grown
<1>7. PermitsLive'
  BY <1>1, <1>4, PermitsSame DEF Grown, PermitsLive, Chans, Live, Types
<1>8. InboxOwned'
  BY <1>1 DEF InboxOwned
<1>9. ResendOpen'
  BY <1>1, <1>4, <1>5 DEF ResendOpen, Chans, Shut, retired
<1>. QED  BY <1>1, <1>4, <1>6, <1>7, <1>8, <1>9, LostSame DEF Core

\* The retry never meets a closed queue while nothing retires.
LEMMA LoopResendFlags ==
  ASSUME IInv, LoopResend
  PROVE  Types' /\ Flags'
<1>. USE DEF IInv, Flags
<1>c. PICK c : c = loop.sender
  OBVIOUS
<1>w. PICK w : w = loop.work
  OBVIOUS
<1>1. loop.at = "resend" /\ loop' = IdleLoop /\ UNCHANGED <<map, gate, stopping, inbox, res, published, invoked>>
  BY DEF LoopResend
<1>2. loop \in LoopRec /\ c \in 0 .. Len(chan) /\ w \in Work
  BY <1>c, <1>w DEF Types, LoopRec
<1>3. loop' \in LoopRec /\ loop'.sender = 0 /\ loop'.at # "resend"
  BY <1>1 DEF LoopRec, IdleLoop, NoWork, NoChan, Work, Keys
<1>4. ResendOpen'
  BY <1>3 DEF ResendOpen
<1>5. InboxOwned'
  BY <1>1 DEF InboxOwned
<1>6. ClosedNeverDropped'
  <2>. SUFFICES ASSUME gate # "retired" PROVE lost' = {}
    BY <1>1 DEF ClosedNeverDropped
  <2>1. lost = {}
    BY DEF ClosedNeverDropped
  <2>2. CASE stopping = "retired" \/ ~is_closed(c)
    BY <1>c, <2>1, <2>2 DEF LoopResend
  <2>3. CASE stopping # "retired" /\ is_closed(c)
    <3>1. c \in Chans /\ ~Shut(c)
      BY <1>1, <1>c, <2>3 DEF ResendOpen, retired
    <3>. QED  BY <2>3, <3>1 DEF is_closed, Shut, Chans, NoChan
  <2>. QED  BY <2>2, <2>3
<1>7. CASE is_closed(c) \/ ~has_room(c)
  <2>1. chan' = chan
    BY <1>7, <1>c DEF LoopResend
  <2>4. Types'
    BY <1>1, <1>3, <2>1 DEF Types
  <2>5. Core' /\ PermitsLive'
    BY <1>1, <2>1 DEF Core, Mapped, Spent, Alive, OneTask, Chans, Live, Shut, retired, PermitsLive, Sends
  <2>. QED  BY <1>4, <1>5, <1>6, <2>4, <2>5 DEF Core
<1>8. CASE ~is_closed(c) /\ has_room(c)
  <2>1. chan' = enqueue(c, w)
    BY <1>8, <1>c, <1>w DEF LoopResend
  <2>2. c \in Chans /\ Live(c)
    BY <1>2, <1>8, OpenIsLive DEF Core
  <2>3. /\ Core' /\ chan' \in Seq(Channel) /\ Len(chan') = Len(chan)
        /\ \A d \in Chans : (Live(d)' <=> Live(d)) /\ (Shut(d)' <=> Shut(d))
    BY <1>1, <1>2, <2>1, <2>2, EnqueueFlags DEF Core
  <2>5. Types'
    BY <1>1, <1>3, <2>3 DEF Types
  <2>6. PermitsLive'
    BY <1>1, <2>3, PermitsSame DEF PermitsLive, Types
  <2>. QED  BY <1>4, <1>5, <1>6, <2>3, <2>5, <2>6 DEF Core
<1>. QED  BY <1>7, <1>8

\* The permit of a reserved publication, first in the inbox, sends its work.
LEMMA HandOver ==
  ASSUME IInv, inbox # <<>>, Head(inbox).by # "ordinary", NEW t, t = Head(inbox).by,
         chan' = enqueue(res[t].sender, Head(inbox).work),
         res' = [res EXCEPT ![t] = IdleRes], inbox' = Tail(inbox),
         UNCHANGED <<map, gate, stopping, loop, published, invoked, lost>>
  PROVE  Types' /\ Flags' /\ t \in Reservers /\ res[t].sender \in Chans /\ Live(res[t].sender)
<1>. USE DEF IInv, Flags
<1>1. /\ t \in Reservers /\ Head(inbox) = inbox[1] /\ 1 \in 1 .. Len(inbox)
      /\ Head(inbox).work \in Work /\ inbox' \in Seq(Item)
  BY HeadItem DEF Types
<1>2. res[t].at = "committed"
  BY <1>1 DEF InboxOwned
<1>c. PICK c : c = res[t].sender
  OBVIOUS
<1>w. PICK w : w = Head(inbox).work
  OBVIOUS
<1>3. c \in Chans /\ Live(c) /\ w \in Work
  BY <1>1, <1>2, <1>c, <1>w DEF PermitsLive, Sends
<1>4. /\ Core' /\ chan' \in Seq(Channel) /\ Len(chan') = Len(chan)
      /\ \A d \in Chans : (Live(d)' <=> Live(d)) /\ (Shut(d)' <=> Shut(d))
  BY <1>3, <1>c, <1>w, EnqueueFlags DEF Core
<1>5. /\ res' \in [Reservers -> ResRec] /\ res'[t].at = "idle" /\ res'[t].sender = 0
      /\ \A u \in Reservers : u # t => res'[u] = res[u]
  BY <1>1 DEF Types, ResRec, IdleRes, NoChan, Keys
<1>6. Types'
  <2>1. \A u \in Reservers : res'[u].sender \in 0 .. Len(chan')
    BY <1>4, <1>5 DEF Types
  <2>. QED  BY <1>1, <1>4, <1>5, <2>1 DEF Types
<1>7. PermitsLive'
  <2>1. Chans' = Chans
    BY <1>4 DEF Chans
  <2>. SUFFICES ASSUME NEW u \in Reservers, Sends(u)'
                PROVE  res'[u].sender \in Chans /\ chan'[res'[u].sender].task # "exit"
    BY <2>1 DEF PermitsLive, Live
  <2>2. u # t /\ res'[u] = res[u]
    BY <1>5 DEF Sends
  <2>3. res[u].sender \in Chans /\ Live(res[u].sender)
    BY <2>2 DEF PermitsLive, Sends
  <2>4. PICK d \in Chans : d = res[u].sender
    BY <2>3
  <2>5. Live(d)'
    BY <1>4, <2>3, <2>4
  <2>. QED  BY <2>2, <2>3, <2>4, <2>5 DEF Live
<1>8. InboxOwned'
  BY <1>5, InboxTaken DEF Types
<1>9. ResendOpen'
  BY <1>4 DEF ResendOpen, retired, Chans, Shut
<1>. QED  BY <1>1, <1>3, <1>4, <1>6, <1>7, <1>8, <1>9, <1>c, LostSame DEF Core

\* The loop hands a reserved publication over.
LEMMA LoopDeliverFlags ==
  ASSUME IInv, LoopDeliver
  PROVE  Types' /\ Flags'
<1>t. PICK t : t = Head(inbox).by
  OBVIOUS
<1>1. /\ inbox # <<>> /\ Head(inbox).by # "ordinary" /\ inbox' = Tail(inbox)
      /\ chan' = enqueue(res[t].sender, Head(inbox).work) /\ res' = [res EXCEPT ![t] = IdleRes]
      /\ UNCHANGED <<map, gate, stopping, loop, published, invoked, lost>>
  BY <1>t DEF LoopDeliver, history
<1>. QED  BY <1>t, <1>1, HandOver

\* The loop returns.
LEMMA LoopStopFlags ==
  ASSUME IInv, LoopStop
  PROVE  Types' /\ Flags'
<1>. USE DEF IInv, Flags
<1>1. UNCHANGED <<map, chan, gate, stopping, inbox, loop, res, published, invoked, lost>>
  BY DEF LoopStop, history
<1>2. Types'
  BY <1>1 DEF Types
<1>3. Core' /\ PermitsLive' /\ ResendOpen' /\ InboxOwned'
  BY <1>1 DEF Core, Mapped, Spent, Alive, OneTask, Chans, Live, Shut, retired, PermitsLive, Sends, ResendOpen, InboxOwned
<1>. QED  BY <1>1, <1>2, <1>3, LostSame DEF Core

\* The dropped receiver gives up one publication.
LEMMA LoopDrainFlags ==
  ASSUME IInv, LoopDrain
  PROVE  Types' /\ Flags'
<1>1. /\ inbox # <<>> /\ inbox' = Tail(inbox)
      /\ UNCHANGED <<map, gate, stopping, loop, published, invoked, lost>>
  BY DEF LoopDrain, history
<1>2. CASE Head(inbox).by = "ordinary"
  <2>. USE DEF IInv, Flags
  <2>1. UNCHANGED <<chan, res>>
    BY <1>2 DEF LoopDrain
  <2>2. inbox' \in Seq(Item) /\ InboxOwned'
    BY <1>1, <2>1, HeadItem, InboxTaken DEF Types
  <2>3. Types'
    BY <1>1, <2>1, <2>2 DEF Types
  <2>4. Core' /\ PermitsLive' /\ ResendOpen'
    BY <1>1, <2>1 DEF Core, Mapped, Spent, Alive, OneTask, Chans, Live, Shut, retired, PermitsLive, Sends, ResendOpen
  <2>. QED  BY <1>1, <2>2, <2>3, <2>4, LostSame DEF Core
<1>3. CASE Head(inbox).by # "ordinary"
  <2>t. PICK t : t = Head(inbox).by
    OBVIOUS
  <2>1. chan' = enqueue(res[t].sender, Head(inbox).work) /\ res' = [res EXCEPT ![t] = IdleRes]
    BY <1>3, <2>t DEF LoopDrain
  <2>. QED  BY <1>1, <1>3, <2>t, <2>1, HandOver
<1>. QED  BY <1>2, <1>3

\* A reserver that has not committed moves; its permit, if it has one, is on a
\* live consumer.
LEMMA ReserverMoves ==
  ASSUME IInv, NEW t \in Reservers, NEW r \in ResRec, res[t].at # "committed",
         res' = [res EXCEPT ![t] = r],
         r.sender \in 0 .. Len(chan),
         r.at \in {"permit", "committed"} => r.sender \in Chans /\ Live(r.sender),
         UNCHANGED <<map, chan, gate, stopping, loop, invoked, lost>>
  PROVE  /\ res' \in [Reservers -> ResRec] /\ res'[t] = r /\ \A u \in Reservers : u # t => res'[u] = res[u]
         /\ \A u \in Reservers : res'[u].sender \in 0 .. Len(chan')
         /\ Core' /\ PermitsLive' /\ ResendOpen' /\ ClosedNeverDropped'
         /\ inbox' = inbox => InboxOwned'
<1>. USE DEF IInv, Flags
<1>1. /\ res' \in [Reservers -> ResRec] /\ res'[t] = r /\ \A u \in Reservers : u # t => res'[u] = res[u]
  BY DEF Types
<1>2. Core' /\ ResendOpen'
  BY DEF Core, Mapped, Spent, Alive, OneTask, Chans, Live, Shut, retired, ResendOpen
<1>3. PermitsLive'
  <2>. SUFFICES ASSUME NEW u \in Reservers, res'[u].at \in {"permit", "committed"}
                PROVE  res'[u].sender \in Chans /\ chan[res'[u].sender].task # "exit"
    BY DEF PermitsLive, Sends, Live, Chans
  <2>1. CASE u = t
    BY <1>1, <2>1 DEF Live
  <2>2. CASE u # t
    BY <1>1, <2>2 DEF PermitsLive, Sends, Live
  <2>. QED  BY <2>1, <2>2
<1>4. ASSUME inbox' = inbox PROVE InboxOwned'
  BY <1>1, <1>4 DEF InboxOwned
<1>5. \A u \in Reservers : res'[u].sender \in 0 .. Len(chan')
  BY <1>1 DEF Types
<1>. QED  BY <1>1, <1>2, <1>3, <1>4, <1>5, LostSame

\* A reserver looks its consumer up.
LEMMA ReserveFlags ==
  ASSUME IInv, NEW t \in Reservers, NEW p \in Keys, Reserve(t, p)
  PROVE  Types' /\ Flags'
<1>. USE DEF IInv, Flags
<1>g. PICK g : g = get_or_spawn_consumer(p)
  OBVIOUS
<1>r. PICK r : r = [at |-> "reserve", principal |-> p, sender |-> g.sender]
  OBVIOUS
<1>1. /\ map' = g.map /\ chan' = g.chan /\ res' = [res EXCEPT ![t] = r] /\ res[t].at = "idle"
      /\ UNCHANGED <<gate, stopping, inbox, loop, published, invoked, lost>>
  BY <1>g, <1>r DEF Reserve, history
<1>2. Refused(g) \/ Found(g) \/ \E k \in Keys : Created(g, k)
  BY <1>g, Spawned
<1>3. /\ Core' /\ Grown
      /\ map' \in [Keys -> Nat] /\ \A k \in Keys : map'[k] \in 0 .. Len(chan')
      /\ g.sender \in 0 .. Len(chan')
  BY <1>1, <1>2, SpawnCore DEF Core
<1>4. r \in ResRec /\ r.at = "reserve"
  BY <1>3, <1>r DEF ResRec
<1>5. res' \in [Reservers -> ResRec] /\ res'[t] = r /\ \A u \in Reservers : u # t => res'[u] = res[u]
  BY <1>1, <1>4 DEF Types
<1>6. Types'
  <2>1. loop.sender \in 0 .. Len(chan')
    BY <1>3 DEF Types, Grown
  <2>2. \A u \in Reservers : res[u].sender \in 0 .. Len(chan')
    BY <1>3 DEF Types, Grown
  <2>3. \A u \in Reservers : res'[u].sender \in 0 .. Len(chan')
    BY <1>3, <1>5, <1>r, <2>2
  <2>. QED  BY <1>1, <1>3, <1>5, <2>1, <2>3 DEF Types, Grown
<1>7. PermitsLive'
  <2>. SUFFICES ASSUME NEW u \in Reservers, res'[u].at \in {"permit", "committed"}
                PROVE  res'[u].sender \in 1 .. Len(chan') /\ chan'[res'[u].sender].task # "exit"
    BY DEF PermitsLive, Sends, Live, Chans
  <2>1. u # t /\ res'[u] = res[u]
    BY <1>4, <1>5
  <2>2. res[u].sender \in 1 .. Len(chan) /\ chan[res[u].sender].task # "exit"
    BY <2>1 DEF PermitsLive, Sends, Live, Chans
  <2>. QED  BY <1>3, <2>1, <2>2 DEF Grown
<1>8. InboxOwned'
  BY <1>1, <1>5 DEF InboxOwned
<1>9. ResendOpen'
  <2>. SUFFICES ASSUME ~retired, loop.at = "resend"
                PROVE  loop.sender \in 1 .. Len(chan') /\ ~chan'[loop.sender].closed
    BY <1>1 DEF ResendOpen, retired, Chans, Shut
  <2>1. loop.sender \in 1 .. Len(chan) /\ ~chan[loop.sender].closed
    BY DEF ResendOpen, Chans, Shut
  <2>. QED  BY <1>3, <2>1 DEF Grown
<1>. QED  BY <1>1, <1>3, <1>6, <1>7, <1>8, <1>9, LostSame DEF Core

\* The idle reserver holds nothing.
LEMMA ResIdles == IdleRes \in ResRec /\ IdleRes.at = "idle" /\ IdleRes.sender = 0
BY DEF ResRec, IdleRes, NoChan, Keys

\* A reserver changes its place and keeps its sender.
LEMMA ResAt ==
  ASSUME res \in [Reservers -> ResRec], NEW t \in Reservers,
         NEW a \in {"idle", "reserve", "permit", "committed"}, NEW r, r = [res[t] EXCEPT !.at = a]
  PROVE  /\ r \in ResRec /\ r.at = a /\ r.sender = res[t].sender
         /\ [res EXCEPT ![t].at = a] = [res EXCEPT ![t] = r]
<1>1. res[t] \in ResRec
  OBVIOUS
<1>2. r \in ResRec /\ r.at = a /\ r.sender = res[t].sender
  BY <1>1 DEF ResRec
<1>. QED  BY <1>2

\* A reserver gets its permit, or finds the queue closed.
LEMMA ReservePermitFlags ==
  ASSUME IInv, NEW t \in Reservers, ReservePermit(t)
  PROVE  Types' /\ Flags'
<1>1. /\ res[t].at = "reserve" /\ UNCHANGED <<map, chan, gate, stopping, inbox, loop, published, invoked, lost>>
  BY DEF ReservePermit, history
<1>0. /\ res \in [Reservers -> ResRec] /\ Types /\ Core /\ res[t].sender \in 0 .. Len(chan)
      /\ 0 \in 0 .. Len(chan)
  BY DEF IInv, Flags, Core, Types
<1>r. PICK r : r = [res[t] EXCEPT !.at = "permit"]
  OBVIOUS
<1>2. /\ r \in ResRec /\ r.at = "permit" /\ r.sender = res[t].sender
      /\ [res EXCEPT ![t].at = "permit"] = [res EXCEPT ![t] = r]
  BY <1>0, <1>r, ResAt
<1>3. PICK s \in ResRec : /\ res' = [res EXCEPT ![t] = s] /\ s.sender \in 0 .. Len(chan)
                          /\ s.at \in {"permit", "committed"} => s.sender \in Chans /\ Live(s.sender)
  <2>1. CASE res' = [res EXCEPT ![t] = IdleRes]
    BY <1>0, <2>1, ResIdles
  <2>2. CASE ~is_closed(res[t].sender) /\ res' = [res EXCEPT ![t].at = "permit"]
    <3>1. PICK c : c = res[t].sender
      OBVIOUS
    <3>2. c \in Chans /\ Live(c)
      BY <1>0, <2>2, <3>1, OpenIsLive
    <3>. QED  BY <1>0, <1>2, <2>2, <3>1, <3>2
  <2>. QED  BY <2>1, <2>2 DEF ReservePermit
<1>4. /\ res' \in [Reservers -> ResRec] /\ \A u \in Reservers : res'[u].sender \in 0 .. Len(chan')
      /\ Core' /\ PermitsLive' /\ ResendOpen' /\ ClosedNeverDropped'
      /\ InboxOwned'
  BY <1>1, <1>3, ReserverMoves
<1>5. Types'
  BY <1>0, <1>1, <1>4 DEF Types
<1>. QED  BY <1>4, <1>5 DEF Flags, Core

\* A reservation is dropped before it commits.
LEMMA CancelFlags ==
  ASSUME IInv, NEW t \in Reservers, Cancel(t)
  PROVE  Types' /\ Flags'
<1>1. /\ res[t].at # "committed" /\ res' = [res EXCEPT ![t] = IdleRes]
      /\ UNCHANGED <<map, chan, gate, stopping, inbox, loop, published, invoked, lost>>
  BY DEF Cancel, history
<1>4. /\ res' \in [Reservers -> ResRec] /\ \A u \in Reservers : res'[u].sender \in 0 .. Len(chan')
      /\ Core' /\ PermitsLive' /\ ResendOpen' /\ ClosedNeverDropped'
      /\ InboxOwned'
  <2>1. IdleRes.sender \in 0 .. Len(chan)
    BY ResIdles DEF IInv, Types
  <2>. QED  BY <1>1, <2>1, ResIdles, ReserverMoves
<1>5. Types'
  BY <1>1, <1>4 DEF Types, IInv
<1>. QED  BY <1>4, <1>5 DEF Flags, Core

\* A reserver commits, or is refused.
LEMMA CommitFlags ==
  ASSUME IInv, NEW t \in Reservers, Commit(t)
  PROVE  Types' /\ Flags'
<1>1. /\ res[t].at = "permit" /\ UNCHANGED <<map, chan, gate, stopping, loop, invoked, lost>>
  BY DEF Commit
<1>0. Types /\ res \in [Reservers -> ResRec] /\ InboxOwned /\ inbox \in Seq(Item) /\ published \in Nat
  BY DEF IInv, Flags, Types
<1>2. CASE ~may_commit
  <2>1. res' = [res EXCEPT ![t] = IdleRes] /\ UNCHANGED <<inbox, published>>
    BY <1>2 DEF Commit
  <2>2. /\ res' \in [Reservers -> ResRec] /\ \A u \in Reservers : res'[u].sender \in 0 .. Len(chan')
        /\ Core' /\ PermitsLive' /\ ResendOpen' /\ ClosedNeverDropped'
        /\ InboxOwned'
    <3>1. IdleRes.sender \in 0 .. Len(chan)
      BY <1>0, ResIdles DEF Types
    <3>. QED  BY <1>1, <2>1, <3>1, ResIdles, ReserverMoves
  <2>3. Types'
    BY <1>0, <1>1, <2>1, <2>2 DEF Types
  <2>. QED  BY <2>2, <2>3 DEF Flags, Core
<1>3. CASE may_commit
  <2>x. PICK x : x = [work |-> [id |-> published + 1, principal |-> res[t].principal], by |-> t]
    OBVIOUS
  <2>r. PICK r : r = [res[t] EXCEPT !.at = "committed"]
    OBVIOUS
  <2>1. /\ inbox' = Append(inbox, x) /\ published' = published + 1
        /\ res' = [res EXCEPT ![t].at = "committed"]
    BY <1>3, <2>x DEF Commit
  <2>2. /\ r \in ResRec /\ r.at = "committed" /\ r.sender = res[t].sender
        /\ res' = [res EXCEPT ![t] = r]
    BY <1>0, <2>r, <2>1, ResAt
  <2>3. x \in Item /\ x.by = t
    <3>1. res[t].principal \in Keys
      BY <1>0 DEF ResRec
    <3>. QED  BY <1>0, <2>x, <3>1 DEF Item, Work
  <2>4. r.sender \in Chans /\ Live(r.sender) /\ r.sender \in 0 .. Len(chan)
    BY <1>0, <1>1, <2>2 DEF Types, IInv, Flags, PermitsLive, Sends
  <2>5. /\ res' \in [Reservers -> ResRec] /\ \A u \in Reservers : res'[u].sender \in 0 .. Len(chan')
        /\ Core' /\ PermitsLive' /\ ResendOpen' /\ ClosedNeverDropped'
        /\ res'[t] = r /\ \A u \in Reservers : u # t => res'[u] = res[u]
    BY <1>1, <2>2, <2>4, ReserverMoves
  <2>6. InboxOwned' /\ inbox' \in Seq(Item)
    BY <1>0, <1>1, <2>1, <2>2, <2>3, <2>5, InboxJoined
  <2>7. Types'
    BY <1>0, <1>1, <2>1, <2>5, <2>6 DEF Types
  <2>. QED  BY <2>5, <2>6, <2>7 DEF Flags, Core
<1>. QED  BY <1>2, <1>3

\* A consumer that goes on: permits and the retry of the loop are not affected.
LEMMA ConsumerGoesOn ==
  ASSUME IInv, NEW c \in Chans, Live(c), Acts(c), Core', chan'[c].task # "exit",
         ~retired => chan'[c].closed = chan[c].closed, invoked' \in Seq(Invocation),
         UNCHANGED <<map, gate, stopping, inbox, loop, res, published, lost>>
  PROVE  Types' /\ Flags'
<1>. USE DEF IInv, Flags
<1>1. /\ chan' \in Seq(Channel) /\ Len(chan') = Len(chan)
      /\ \A d \in Chans : Live(d) => Live(d)'
      /\ ~retired => \A d \in Chans : chan'[d].closed = chan[d].closed
  BY DEF Acts, Live, Chans
<1>2. Types'
  BY <1>1 DEF Types
<1>3. PermitsLive'
  <2>1. Len(chan) \in Nat
    BY DEF Types
  <2>. QED  BY <1>1, <2>1, PermitsSame DEF PermitsLive
<1>4. InboxOwned'
  BY DEF InboxOwned
<1>5. ResendOpen'
  BY <1>1 DEF ResendOpen, retired, Shut, Chans
<1>. QED  BY <1>2, <1>3, <1>4, <1>5, LostSame DEF Core

\* A consumer receives the first work of its queue.
LEMMA RecvFlags ==
  ASSUME IInv, NEW c \in Chans, Recv(c)
  PROVE  /\ Types' /\ Flags' /\ Acts(c) /\ chan'[c].queue = Tail(chan[c].queue)
         /\ Live(c) /\ chan[c].queue \in Seq(Work) /\ chan[c].queue # <<>> /\ chan[c].key \in Keys
         /\ invoked' = Append(invoked, [work |-> Head(chan[c].queue), key |-> chan[c].key])
         /\ UNCHANGED <<gate, loop, inbox, published>>
<1>1. /\ chan[c].task = "recv" /\ chan[c].queue # <<>>
      /\ chan' = [chan EXCEPT ![c].queue = Tail(@), ![c].task = "invoke"]
      /\ invoked' = Append(invoked, [work |-> Head(chan[c].queue), key |-> chan[c].key])
      /\ UNCHANGED <<map, gate, stopping, inbox, loop, res, published, lost>>
  BY DEF Recv
<1>2. chan \in Seq(Channel) /\ c \in 1 .. Len(chan) /\ invoked \in Seq(Invocation)
  BY DEF IInv, Types, Chans
<1>3. /\ chan[c] \in Channel /\ chan[c].key \in Keys /\ chan[c].queue \in Seq(Work)
      /\ chan[c].closed \in BOOLEAN /\ chan[c].draining \in BOOLEAN
  BY <1>2, ChanFields
<1>q. PICK q : q = Tail(chan[c].queue)
  OBVIOUS
<1>4. q \in Seq(Work) /\ Head(chan[c].queue) \in Work
  BY <1>1, <1>3, <1>q
<1>5. chan' = [chan EXCEPT ![c] = [key |-> chan[c].key, queue |-> q, closed |-> chan[c].closed,
                                   draining |-> chan[c].draining, task |-> "invoke"]]
  <2>1. [[chan[c] EXCEPT !.queue = q] EXCEPT !.task = "invoke"]
          = [key |-> chan[c].key, queue |-> q, closed |-> chan[c].closed,
             draining |-> chan[c].draining, task |-> "invoke"]
    BY <1>3, <1>4, TwoFields
  <2>2. chan' = [chan EXCEPT ![c] = [[chan[c] EXCEPT !.queue = q] EXCEPT !.task = "invoke"]]
    BY <1>1, <1>2, <1>q
  <2>. QED  BY <2>1, <2>2
<1>6. /\ Acts(c) /\ chan'[c].queue = q /\ chan'[c].closed = chan[c].closed
      /\ chan'[c].draining = chan[c].draining /\ chan'[c].task = "invoke"
  BY <1>2, <1>3, <1>4, <1>5, Stepped DEF Acts
<1>7. Core' /\ Live(c)
  <2>1. Core /\ Types /\ Live(c)
    BY <1>1 DEF IInv, Flags, Core, Live
  <2>. QED  BY <1>1, <1>6, <2>1, CoreWork
<1>8. invoked' \in Seq(Invocation)
  <2>1. [work |-> Head(chan[c].queue), key |-> chan[c].key] \in Invocation
    BY <1>3, <1>4 DEF Invocation
  <2>. QED  BY <1>1, <1>2, <2>1
<1>9. Types' /\ Flags'
  BY <1>1, <1>6, <1>7, <1>8, ConsumerGoesOn
<1>. QED  BY <1>1, <1>3, <1>6, <1>7, <1>9, <1>q

\* An invocation returns.
LEMMA ReturnFlags ==
  ASSUME IInv, NEW c \in Chans, Return(c)
  PROVE  Types' /\ Flags' /\ Acts(c) /\ chan'[c].queue = chan[c].queue
<1>1. /\ chan[c].task = "invoke" /\ chan' = [chan EXCEPT ![c].task = "recv"]
      /\ UNCHANGED <<map, gate, stopping, inbox, loop, res, published, invoked, lost>>
  BY DEF Return, history
<1>2. chan \in Seq(Channel) /\ c \in 1 .. Len(chan) /\ invoked \in Seq(Invocation)
  BY DEF IInv, Types, Chans
<1>3. /\ chan[c] \in Channel /\ chan[c].queue \in Seq(Work)
      /\ chan[c].closed \in BOOLEAN /\ chan[c].draining \in BOOLEAN
  BY <1>2, ChanFields
<1>4. chan' = [chan EXCEPT ![c] = [key |-> chan[c].key, queue |-> chan[c].queue, closed |-> chan[c].closed,
                                   draining |-> chan[c].draining, task |-> "recv"]]
  <2>1. [chan[c] EXCEPT !.task = "recv"]
          = [key |-> chan[c].key, queue |-> chan[c].queue, closed |-> chan[c].closed,
             draining |-> chan[c].draining, task |-> "recv"]
    BY <1>3 DEF Channel
  <2>2. chan' = [chan EXCEPT ![c] = [chan[c] EXCEPT !.task = "recv"]]
    BY <1>1, <1>2
  <2>. QED  BY <2>1, <2>2
<1>5. /\ Acts(c) /\ chan'[c].queue = chan[c].queue /\ chan'[c].closed = chan[c].closed
      /\ chan'[c].draining = chan[c].draining /\ chan'[c].task = "recv"
  BY <1>2, <1>3, <1>4, Stepped DEF Acts
<1>6. Core' /\ Live(c)
  <2>1. Core /\ Types /\ Live(c)
    BY <1>1 DEF IInv, Flags, Core, Live
  <2>. QED  BY <1>1, <1>5, <2>1, CoreWork
<1>. QED  BY <1>1, <1>2, <1>5, <1>6, ConsumerGoesOn

\* A consumer closes its queue and starts to drain.
LEMMA CloseFlags ==
  ASSUME IInv, NEW c \in Chans, Close(c)
  PROVE  Types' /\ Flags' /\ Acts(c) /\ chan'[c].queue = chan[c].queue
<1>1. /\ chan[c].task = "recv" /\ chan' = [chan EXCEPT ![c].closed = TRUE, ![c].draining = TRUE]
      /\ UNCHANGED <<map, gate, stopping, inbox, loop, res, published, invoked, lost>> /\ retired
  BY DEF Close, history
<1>2. chan \in Seq(Channel) /\ c \in 1 .. Len(chan) /\ invoked \in Seq(Invocation)
  BY DEF IInv, Types, Chans
<1>3. chan[c] \in Channel /\ chan[c].queue \in Seq(Work) /\ chan[c].task \in {"recv", "invoke", "exit"}
  BY <1>2, ChanFields
<1>4. chan' = [chan EXCEPT ![c] = [key |-> chan[c].key, queue |-> chan[c].queue, closed |-> TRUE,
                                   draining |-> TRUE, task |-> chan[c].task]]
  <2>1. [[chan[c] EXCEPT !.closed = TRUE] EXCEPT !.draining = TRUE]
          = [key |-> chan[c].key, queue |-> chan[c].queue, closed |-> TRUE,
             draining |-> TRUE, task |-> chan[c].task]
    BY <1>3, TwoFields
  <2>2. chan' = [chan EXCEPT ![c] = [[chan[c] EXCEPT !.closed = TRUE] EXCEPT !.draining = TRUE]]
    BY <1>1, <1>2
  <2>. QED  BY <2>1, <2>2
<1>5. /\ Acts(c) /\ chan'[c].queue = chan[c].queue /\ chan'[c].closed /\ chan'[c].task = "recv"
  <2>1. PICK r : r = [key |-> chan[c].key, queue |-> chan[c].queue, closed |-> TRUE,
                      draining |-> TRUE, task |-> chan[c].task]
    OBVIOUS
  <2>2. r \in Channel
    BY <1>3, <2>1 DEF Channel
  <2>3. r.key = chan[c].key /\ r.queue = chan[c].queue /\ r.closed /\ r.task = chan[c].task
    BY <2>1
  <2>4. /\ chan' \in Seq(Channel) /\ Len(chan') = Len(chan) /\ chan'[c] = r
        /\ \A d \in 1 .. Len(chan) : d # c => chan'[d] = chan[d]
    BY <1>2, <1>4, <2>1, <2>2, SetChan
  <2>. QED  BY <1>1, <2>3, <2>4 DEF Acts
<1>6. Core' /\ Live(c)
  <2>1. Core /\ Types /\ Live(c)
    BY <1>1 DEF IInv, Flags, Core, Live
  <2>. QED  BY <1>1, <1>5, <2>1, CoreClose
<1>. QED  BY <1>1, <1>2, <1>5, <1>6, ConsumerGoesOn

\* A consumer that exits: nobody holds a permit for it, and the retry of the loop
\* has another queue.
LEMMA ConsumerExits ==
  ASSUME IInv, NEW c \in Chans, chan[c].task = "recv", chan[c].queue = <<>>, chan' = exited(c),
         map' = unmapped(c), \A t \in Reservers : Sends(t) => res[t].sender # c,
         ~retired => loop.sender # c,
         UNCHANGED <<gate, stopping, inbox, loop, res, published, invoked, lost>>
  PROVE  Types' /\ Flags' /\ Acts(c) /\ chan'[c].queue = chan[c].queue
<1>2. chan \in Seq(Channel) /\ c \in 1 .. Len(chan) /\ Types /\ Core /\ Live(c)
  BY DEF IInv, Flags, Core, Types, Chans, Live
<1>3. chan[c] \in Channel /\ chan[c].queue \in Seq(Work) /\ chan[c].draining \in BOOLEAN /\ chan[c].key \in Keys
  BY <1>2, ChanFields
<1>4. chan' = [chan EXCEPT ![c] = [key |-> chan[c].key, queue |-> chan[c].queue, closed |-> TRUE,
                                   draining |-> chan[c].draining, task |-> "exit"]]
  <2>1. [[chan[c] EXCEPT !.task = "exit"] EXCEPT !.closed = TRUE]
          = [key |-> chan[c].key, queue |-> chan[c].queue, closed |-> TRUE,
             draining |-> chan[c].draining, task |-> "exit"]
    BY <1>3, TwoFields
  <2>2. chan' = [chan EXCEPT ![c] = [[chan[c] EXCEPT !.task = "exit"] EXCEPT !.closed = TRUE]]
    BY <1>2 DEF exited
  <2>. QED  BY <2>1, <2>2
<1>5. /\ Acts(c) /\ chan'[c].queue = chan[c].queue /\ chan'[c].closed /\ chan'[c].task = "exit"
  <2>1. PICK r : r = [key |-> chan[c].key, queue |-> chan[c].queue, closed |-> TRUE,
                      draining |-> chan[c].draining, task |-> "exit"]
    OBVIOUS
  <2>2. r \in Channel
    BY <1>3, <2>1 DEF Channel
  <2>3. r.key = chan[c].key /\ r.queue = chan[c].queue /\ r.closed /\ r.task = "exit"
    BY <2>1
  <2>4. /\ chan' \in Seq(Channel) /\ Len(chan') = Len(chan) /\ chan'[c] = r
        /\ \A d \in 1 .. Len(chan) : d # c => chan'[d] = chan[d]
    BY <1>2, <1>4, <2>1, <2>2, SetChan
  <2>. QED  BY <2>3, <2>4 DEF Acts
<1>6. Core'
  BY <1>2, <1>5, CoreExit DEF unmapped
<1>7. Chans' = Chans /\ \A d \in Chans : d # c => chan'[d] = chan[d]
  BY <1>5 DEF Acts, Chans
<1>8. Types'
  <2>1. map' \in [Keys -> Nat] /\ \A k \in Keys : map'[k] = map[k] \/ map'[k] = 0
    BY <1>3 DEF unmapped, NoChan, IInv, Types
  <2>2. \A k \in Keys : map'[k] \in 0 .. Len(chan')
    BY <1>5, <2>1 DEF Acts, IInv, Types
  <2>3. chan' \in Seq(Channel) /\ Len(chan') = Len(chan)
    BY <1>5 DEF Acts
  <2>. QED  BY <2>1, <2>2, <2>3 DEF IInv, Types
<1>9. PermitsLive'
  <2>. SUFFICES ASSUME NEW t \in Reservers, Sends(t)
                PROVE  res[t].sender \in Chans /\ chan'[res[t].sender].task # "exit"
    BY <1>7 DEF PermitsLive, Sends, Live
  <2>1. res[t].sender \in Chans /\ chan[res[t].sender].task # "exit" /\ res[t].sender # c
    BY DEF IInv, Flags, PermitsLive, Live
  <2>. QED  BY <1>7, <2>1
<1>10. InboxOwned'
  BY DEF IInv, Flags, InboxOwned
<1>11. ResendOpen'
  BY <1>7 DEF IInv, Flags, ResendOpen, retired, Shut
<1>12. ClosedNeverDropped'
  BY LostSame DEF IInv, Flags
<1>. QED  BY <1>5, <1>6, <1>8, <1>9, <1>10, <1>11, <1>12 DEF Core, Flags

\* An idle consumer evicts itself.
LEMMA EvictIdleFlags ==
  ASSUME IInv, NEW c \in Chans, EvictIdle(c)
  PROVE  Types' /\ Flags' /\ Acts(c) /\ chan'[c].queue = chan[c].queue
<1>1. /\ chan[c].task = "recv" /\ chan[c].queue = <<>> /\ strong(c) = 1 /\ map[chan[c].key] = c
      /\ chan' = exited(c) /\ map' = unmapped(c)
      /\ UNCHANGED <<gate, stopping, inbox, loop, res, published, invoked, lost>>
  BY DEF EvictIdle, idle, evicted_map, unmapped, history
<1>2. loop.sender # c /\ \A t \in Reservers : res[t].sender # c
  BY <1>1, SoleSender
<1>. QED  BY <1>1, <1>2, ConsumerExits

\* A consumer whose senders are gone, or that drained its queue, exits.
LEMMA ExitFlags ==
  ASSUME IInv, NEW c \in Chans, Exit(c)
  PROVE  Types' /\ Flags' /\ Acts(c) /\ chan'[c].queue = chan[c].queue
<1>1. /\ chan[c].task = "recv" /\ chan[c].queue = <<>> /\ permits(c) = 0
      /\ chan[c].draining \/ strong(c) = 0
      /\ chan' = exited(c) /\ map' = unmapped(c)
      /\ UNCHANGED <<gate, stopping, inbox, loop, res, published, invoked, lost>>
  BY DEF Exit, nothing_left, history
<1>2. \A t \in Reservers : Sends(t) => res[t].sender # c
  BY <1>1, NoPermit
<1>3. retired
  <2>. SUFFICES ASSUME ~retired PROVE FALSE
    OBVIOUS
  <2>1. ~Shut(c) /\ map[chan[c].key] = c
    BY <1>1 DEF IInv, Flags, Alive, Live
  <2>2. strong(c) # 0
    BY <2>1, MappedSender
  <2>. QED  BY <1>1, <2>1, <2>2 DEF IInv, Flags, Spent
<1>. QED  BY <1>1, <1>2, <1>3, ConsumerExits

\* Something retires, and the stopped dispatcher clears the map.
LEMMA RetireFlags ==
  ASSUME IInv, GateRetire \/ StopRetire \/ StopClear
  PROVE  Types' /\ Flags'
<1>. USE DEF IInv, Flags
<1>1. /\ UNCHANGED <<chan, inbox, loop, res, published, invoked, lost>> /\ retired'
      /\ gate' # "retired" => gate # "retired"
      /\ map' = map \/ map' = [k \in Keys |-> NoChan]
  BY DEF GateRetire, StopRetire, StopClear, history, retired
<1>2. Types'
  BY <1>1 DEF Types, NoChan
<1>3. Mapped'
  BY <1>1 DEF Mapped, NoChan
<1>4. Spent' /\ OneTask' /\ PermitsLive' /\ InboxOwned'
  BY <1>1 DEF Spent, OneTask, PermitsLive, InboxOwned, Chans, Live, Shut, Sends
<1>5. Alive' /\ ResendOpen'
  BY <1>1 DEF Alive, ResendOpen
<1>6. ClosedNeverDropped'
  BY <1>1 DEF ClosedNeverDropped
<1>. QED  BY <1>2, <1>3, <1>4, <1>5, <1>6

-----------------------------------------------------------------------------
(* The order of the queues. *)

\* No queue gains or gives work; a new one is empty.
Quiet ==
  /\ invoked' = invoked /\ (gate' # "retired" => gate # "retired")
  /\ \A d \in Chans' :
       \/ chan'[d].queue = <<>>
       \/ d \in Chans /\ chan'[d].queue = chan[d].queue /\ chan'[d].key = chan[d].key

\* PublishOrder over positions.
InvokedInOrder ==
  gate # "retired" => \A i, j \in 1 .. Len(invoked) :
    i < j /\ invoked[i].key = invoked[j].key => invoked[i].work.id < invoked[j].work.id

\* PublishOrder says so.
LEMMA OrderByPosition ==
  ASSUME invoked \in Seq(Invocation)
  PROVE  PublishOrder <=> InvokedInOrder
<1>1. DOMAIN invoked = 1 .. Len(invoked)
  OBVIOUS
<1>. QED  BY <1>1 DEF PublishOrder, InvokedInOrder

\* Nothing new is handed over, and the queues stay in order.
LEMMA QuietBehind ==
  ASSUME Behind, Quiet
  PROVE  Behind' /\ Ids' \subseteq Ids
<1>1. \A d \in Chans' : chan'[d].queue = <<>> => Len(chan'[d].queue) = 0
  OBVIOUS
<1>2. Ids' \subseteq Ids
  <2>. SUFFICES ASSUME NEW m \in Nat, Handed(m)' PROVE Handed(m)
    BY DEF Ids
  <2>1. CASE \E i \in 1 .. Len(invoked') : m = invoked'[i].work.id
    BY <2>1 DEF Quiet, Handed
  <2>2. CASE \E c \in Chans' : \E i \in 1 .. Len(chan'[c].queue) : m = chan'[c].queue[i].id
    <3>1. PICK c \in Chans' : \E i \in 1 .. Len(chan'[c].queue) : m = chan'[c].queue[i].id
      BY <2>2
    <3>2. chan'[c].queue # <<>>
      BY <3>1
    <3>. QED  BY <3>1, <3>2 DEF Quiet, Handed
  <2>. QED  BY <2>1, <2>2 DEF Handed
<1>3. Sorted'
  <2>. SUFFICES ASSUME NEW d \in Chans', NEW i \in 1 .. Len(chan'[d].queue), NEW j \in 1 .. Len(chan'[d].queue),
                       i < j
                PROVE  chan'[d].queue[i].id < chan'[d].queue[j].id
    BY DEF Sorted
  <2>1. chan'[d].queue # <<>>
    OBVIOUS
  <2>2. d \in Chans /\ chan'[d].queue = chan[d].queue
    BY <2>1 DEF Quiet
  <2>. QED  BY <2>2 DEF Behind, Sorted
<1>4. QueuedLater'
  <2>. SUFFICES ASSUME gate' # "retired", NEW d \in Chans', NEW i \in 1 .. Len(invoked'),
                       NEW j \in 1 .. Len(chan'[d].queue), invoked'[i].key = chan'[d].key
                PROVE  invoked'[i].work.id < chan'[d].queue[j].id
    BY DEF QueuedLater
  <2>1. chan'[d].queue # <<>>
    OBVIOUS
  <2>2. d \in Chans /\ chan'[d].queue = chan[d].queue /\ chan'[d].key = chan[d].key
    BY <2>1 DEF Quiet
  <2>3. gate # "retired" /\ invoked' = invoked
    BY DEF Quiet
  <2>. QED  BY <2>2, <2>3 DEF Behind, QueuedLater
<1>5. PublishOrder'
  BY DEF Behind, PublishOrder, Quiet
<1>. QED  BY <1>2, <1>3, <1>4, <1>5 DEF Behind

\* Work in the queues and work invoked counts as handed over.
LEMMA HandedIds ==
  ASSUME Types
  PROVE  /\ \A c \in Chans : \A i \in 1 .. Len(chan[c].queue) :
               chan[c].queue[i] \in Work /\ chan[c].queue[i].id \in Ids
         /\ \A i \in 1 .. Len(invoked) : invoked[i].work \in Work /\ invoked[i].work.id \in Ids
<1>1. ASSUME NEW c \in Chans, NEW i \in 1 .. Len(chan[c].queue)
      PROVE  chan[c].queue[i] \in Work /\ chan[c].queue[i].id \in Ids
  <2>1. chan[c].queue \in Seq(Work)
    BY ChanFields DEF Types, Chans
  <2>2. chan[c].queue[i] \in Work
    BY <2>1
  <2>3. chan[c].queue[i].id \in Nat
    BY <2>2 DEF Work
  <2>. QED  BY <2>2, <2>3 DEF Ids, Handed
<1>2. ASSUME NEW i \in 1 .. Len(invoked)
      PROVE  invoked[i].work \in Work /\ invoked[i].work.id \in Ids
  <2>1. invoked[i] \in Invocation
    BY DEF Types
  <2>2. invoked[i].work \in Work
    BY <2>1 DEF Invocation
  <2>3. invoked[i].work.id \in Nat
    BY <2>2 DEF Work
  <2>. QED  BY <2>2, <2>3 DEF Ids, Handed
<1>. QED  BY <1>1, <1>2

\* Work later than all that was handed over enters a queue.
LEMMA EnqueueBehind ==
  ASSUME Types, Behind, NEW c \in Chans, NEW w \in Work, chan' = enqueue(c, w), Below(w.id),
         UNCHANGED <<gate, invoked>>
  PROVE  Behind' /\ Ids' \subseteq Ids \cup {w.id}
<1>1. c \in 1 .. Len(chan) /\ chan \in Seq(Channel)
  BY DEF Chans, Types
<1>2. /\ Chans' = Chans /\ chan'[c].queue = Append(chan[c].queue, w)
      /\ \A d \in Chans : chan'[d].key = chan[d].key
      /\ \A d \in Chans : d # c => chan'[d].queue = chan[d].queue
  BY <1>1, Enqueued DEF Chans, Kept
<1>q. PICK q : q = chan[c].queue
  OBVIOUS
<1>3. q \in Seq(Work) /\ w.id \in Nat
  BY <1>1, <1>q, ChanFields DEF Work
<1>4. PICK q2 : q2 = Append(q, w)
  OBVIOUS
<1>5. /\ Len(q) \in Nat /\ Len(q2) = Len(q) + 1 /\ q2[Len(q) + 1] = w
      /\ \A i \in 1 .. Len(q) : q2[i] = q[i]
      /\ \A i \in 1 .. Len(q2) : i \in 1 .. Len(q) \/ i = Len(q) + 1
  BY <1>3, <1>4
<1>6. chan'[c].queue = q2
  BY <1>2, <1>q, <1>4
<1>7. \A i \in 1 .. Len(q) : q[i].id \in Nat /\ q[i].id < w.id
  BY <1>q, HandedIds DEF Below, Work
<1>8. \A i \in 1 .. Len(invoked) : invoked[i].work.id < w.id
  BY HandedIds DEF Below
<1>9. Sorted'
  <2>. SUFFICES ASSUME NEW d \in Chans, NEW i \in 1 .. Len(chan'[d].queue), NEW j \in 1 .. Len(chan'[d].queue),
                       i < j
                PROVE  chan'[d].queue[i].id < chan'[d].queue[j].id
    BY <1>2 DEF Sorted
  <2>1. CASE d # c
    BY <1>2, <2>1 DEF Behind, Sorted
  <2>2. CASE d = c
    <3>1. i \in 1 .. Len(q2) /\ j \in 1 .. Len(q2)
      BY <1>6, <2>2
    <3>2. i \in 1 .. Len(q)
      BY <1>5, <3>1
    <3>3. q2[i].id < q2[j].id
      <4>1. CASE j = Len(q) + 1
        BY <1>5, <1>7, <3>2, <4>1
      <4>2. CASE j \in 1 .. Len(q)
        BY <1>5, <1>q, <3>2, <4>2 DEF Behind, Sorted
      <4>. QED  BY <1>5, <3>1, <4>1, <4>2
    <3>. QED  BY <1>6, <2>2, <3>3
  <2>. QED  BY <2>1, <2>2
<1>10. QueuedLater'
  <2>. SUFFICES ASSUME gate # "retired", NEW d \in Chans, NEW i \in 1 .. Len(invoked),
                       NEW j \in 1 .. Len(chan'[d].queue), invoked[i].key = chan'[d].key
                PROVE  invoked[i].work.id < chan'[d].queue[j].id
    BY <1>2 DEF QueuedLater
  <2>0. invoked[i].key = chan[d].key
    BY <1>2
  <2>1. CASE d # c
    BY <1>2, <2>0, <2>1 DEF Behind, QueuedLater
  <2>2. CASE d = c
    <3>1. j \in 1 .. Len(q2)
      BY <1>6, <2>2
    <3>2. invoked[i].work.id < q2[j].id
      <4>1. CASE j = Len(q) + 1
        BY <1>5, <1>8, <4>1
      <4>2. CASE j \in 1 .. Len(q)
        BY <1>5, <1>q, <2>0, <2>2, <4>2 DEF Behind, QueuedLater
      <4>. QED  BY <1>5, <3>1, <4>1, <4>2
    <3>. QED  BY <1>6, <2>2, <3>2
  <2>. QED  BY <2>1, <2>2
<1>11. PublishOrder'
  BY DEF Behind, PublishOrder
<1>12. Ids' \subseteq Ids \cup {w.id}
  <2>. SUFFICES ASSUME NEW m \in Nat, Handed(m)' PROVE Handed(m) \/ m = w.id
    BY DEF Ids
  <2>1. CASE \E i \in 1 .. Len(invoked') : m = invoked'[i].work.id
    BY <2>1 DEF Handed
  <2>2. CASE \E d \in Chans' : \E i \in 1 .. Len(chan'[d].queue) : m = chan'[d].queue[i].id
    <3>1. PICK d \in Chans : \E i \in 1 .. Len(chan'[d].queue) : m = chan'[d].queue[i].id
      BY <1>2, <2>2
    <3>2. CASE d # c
      BY <1>2, <3>1, <3>2 DEF Handed
    <3>3. CASE d = c
      <4>1. PICK i \in 1 .. Len(q2) : m = q2[i].id
        BY <1>6, <3>1, <3>3
      <4>2. CASE i = Len(q) + 1
        BY <1>5, <4>1, <4>2
      <4>3. CASE i \in 1 .. Len(q)
        BY <1>5, <1>q, <4>1, <4>3 DEF Handed
      <4>. QED  BY <1>5, <4>1, <4>2, <4>3
    <3>. QED  BY <3>2, <3>3
  <2>. QED  BY <2>1, <2>2 DEF Handed
<1>. QED  BY <1>9, <1>10, <1>11, <1>12 DEF Behind

\* A consumer takes the first work of its queue: the other queues of its key are
\* those of consumers that exited, and empty.
LEMMA RecvBehind ==
  ASSUME IInv, NEW c \in Chans, Recv(c)
  PROVE  Behind' /\ Ids' \subseteq Ids
<1>q. PICK q : q = chan[c].queue
  OBVIOUS
<1>r. PICK r : r = Tail(q)
  OBVIOUS
<1>v. PICK v : v = [work |-> Head(q), key |-> chan[c].key]
  OBVIOUS
<1>0. Types /\ Behind /\ Spent /\ OneTask
  BY DEF IInv, Orders, Flags
<1>1. /\ Types' /\ Acts(c) /\ chan'[c].queue = r /\ Live(c) /\ q \in Seq(Work) /\ q # <<>>
      /\ invoked' = Append(invoked, v) /\ gate' = gate
  BY <1>q, <1>r, <1>v, RecvFlags
<1>2. /\ Chans' = Chans /\ \A d \in Chans : chan'[d].key = chan[d].key
      /\ \A d \in Chans : d # c => chan'[d] = chan[d]
  BY <1>1 DEF Acts, Chans
<1>3. /\ Len(q) \in Nat /\ 1 \in 1 .. Len(q) /\ Head(q) = q[1]
      /\ \A i \in 1 .. Len(r) : i + 1 \in 1 .. Len(q) /\ r[i] = q[i + 1] /\ 1 < i + 1
  <2>1. Len(q) \in Nat /\ Len(q) > 0 /\ Head(q) = q[1]
    BY <1>1
  <2>2. Len(r) = Len(q) - 1 /\ \A i \in 1 .. Len(r) : r[i] = q[i + 1]
    BY <1>1, <1>r, HeadTailProperties
  <2>3. \A i \in 1 .. Len(r) : i + 1 \in 1 .. Len(q) /\ 1 < i + 1
    BY <2>1, <2>2
  <2>. QED  BY <2>1, <2>2, <2>3
<1>4. v.work = q[1] /\ v.key = chan[c].key
  BY <1>3, <1>v
<1>5. /\ Len(invoked) \in Nat /\ Len(invoked') = Len(invoked) + 1 /\ invoked'[Len(invoked) + 1] = v
      /\ \A i \in 1 .. Len(invoked) : invoked'[i] = invoked[i]
      /\ \A i \in 1 .. Len(invoked') : i \in 1 .. Len(invoked) \/ i = Len(invoked) + 1
  <2>1. invoked \in Seq(Invocation) /\ invoked' \in Seq(Invocation)
    BY <1>0, <1>1 DEF Types
  <2>2. PICK s : s = invoked'
    OBVIOUS
  <2>3. s = Append(invoked, v) /\ s \in Seq(Invocation)
    BY <1>1, <2>1, <2>2
  <2>4. /\ Len(invoked) \in Nat /\ Len(s) = Len(invoked) + 1 /\ s[Len(invoked) + 1] = v
        /\ \A i \in 1 .. Len(invoked) : s[i] = invoked[i]
    BY <2>1, <2>3
  <2>5. \A i \in 1 .. Len(s) : i \in 1 .. Len(invoked) \/ i = Len(invoked) + 1
    BY <2>4
  <2>. QED  BY <2>2, <2>4, <2>5
<1>6. \A i, j \in 1 .. Len(q) : i < j => q[i].id < q[j].id
  BY <1>0, <1>q DEF Behind, Sorted
<1>7. Sorted'
  <2>. SUFFICES ASSUME NEW d \in Chans, NEW i \in 1 .. Len(chan'[d].queue), NEW j \in 1 .. Len(chan'[d].queue),
                       i < j
                PROVE  chan'[d].queue[i].id < chan'[d].queue[j].id
    BY <1>2 DEF Sorted
  <2>1. CASE d # c
    BY <1>0, <1>2, <2>1 DEF Behind, Sorted
  <2>2. CASE d = c
    <3>1. i \in 1 .. Len(r) /\ j \in 1 .. Len(r) /\ i + 1 < j + 1
      BY <1>1, <2>2
    <3>2. r[i].id < r[j].id
      BY <1>3, <1>6, <3>1
    <3>. QED  BY <1>1, <2>2, <3>2
  <2>. QED  BY <2>1, <2>2
<1>8. ASSUME gate # "retired", NEW d \in Chans, chan[d].key = chan[c].key, d # c
      PROVE  chan[d].queue = <<>>
  BY <1>0, <1>1, <1>8 DEF OneTask, Spent
<1>9. QueuedLater'
  <2>. SUFFICES ASSUME gate # "retired", NEW d \in Chans, NEW i \in 1 .. Len(invoked'),
                       NEW j \in 1 .. Len(chan'[d].queue), invoked'[i].key = chan[d].key
                PROVE  invoked'[i].work.id < chan'[d].queue[j].id
    BY <1>1, <1>2 DEF QueuedLater
  <2>1. CASE i \in 1 .. Len(invoked) /\ d # c
    BY <1>0, <1>2, <1>5, <2>1 DEF Behind, QueuedLater
  <2>2. CASE i \in 1 .. Len(invoked) /\ d = c
    <3>1. j \in 1 .. Len(r) /\ j + 1 \in 1 .. Len(q) /\ r[j] = q[j + 1]
      BY <1>1, <1>3, <2>2
    <3>2. invoked[i].work.id < q[j + 1].id
      BY <1>0, <1>5, <1>q, <2>2, <3>1 DEF Behind, QueuedLater
    <3>. QED  BY <1>1, <1>5, <2>2, <3>1, <3>2
  <2>3. CASE i = Len(invoked) + 1 /\ d = c
    <3>1. j \in 1 .. Len(r) /\ j + 1 \in 1 .. Len(q) /\ r[j] = q[j + 1] /\ 1 < j + 1
      BY <1>1, <1>3, <2>3
    <3>2. q[1].id < q[j + 1].id
      BY <1>3, <1>6, <3>1
    <3>. QED  BY <1>1, <1>4, <1>5, <2>3, <3>1, <3>2
  <2>4. CASE i = Len(invoked) + 1 /\ d # c
    <3>1. chan[d].key = chan[c].key
      BY <1>4, <1>5, <2>4
    <3>2. chan'[d].queue = <<>>
      BY <1>2, <1>8, <2>4, <3>1
    <3>. QED  BY <3>2
  <2>. QED  BY <1>5, <2>1, <2>2, <2>3, <2>4
<1>10. PublishOrder'
  <2>1. invoked \in Seq(Invocation) /\ invoked' \in Seq(Invocation)
    BY <1>0, <1>1 DEF Types
  <2>2. InvokedInOrder
    BY <1>0, <2>1, OrderByPosition DEF Behind
  <2>3. InvokedInOrder'
    <3>. SUFFICES ASSUME gate # "retired", NEW i \in 1 .. Len(invoked'), NEW j \in 1 .. Len(invoked'),
                         i < j, invoked'[i].key = invoked'[j].key
                  PROVE  invoked'[i].work.id < invoked'[j].work.id
      BY <1>1 DEF InvokedInOrder
    <3>1. i \in 1 .. Len(invoked)
      BY <1>5
    <3>2. CASE j \in 1 .. Len(invoked)
      BY <1>5, <2>2, <3>1, <3>2 DEF InvokedInOrder
    <3>3. CASE j = Len(invoked) + 1
      <4>1. invoked[i].key = chan[c].key
        BY <1>4, <1>5, <3>1, <3>3
      <4>2. invoked[i].work.id < q[1].id
        BY <1>0, <1>3, <1>q, <3>1, <4>1 DEF Behind, QueuedLater
      <4>. QED  BY <1>4, <1>5, <3>1, <3>3, <4>2
    <3>. QED  BY <1>5, <3>2, <3>3
  <2>4. PublishOrder' <=> InvokedInOrder'
    <3>1. DOMAIN invoked' = 1 .. Len(invoked')
      BY <2>1
    <3>. QED  BY <3>1 DEF PublishOrder, InvokedInOrder
  <2>. QED  BY <2>3, <2>4
<1>11. Ids' \subseteq Ids
  <2>. SUFFICES ASSUME NEW m \in Nat, Handed(m)' PROVE Handed(m)
    BY DEF Ids
  <2>1. CASE \E i \in 1 .. Len(invoked') : m = invoked'[i].work.id
    <3>1. PICK i \in 1 .. Len(invoked') : m = invoked'[i].work.id
      BY <2>1
    <3>2. CASE i \in 1 .. Len(invoked)
      BY <1>5, <3>1, <3>2 DEF Handed
    <3>3. CASE i = Len(invoked) + 1
      <4>1. m = q[1].id
        BY <1>4, <1>5, <3>1, <3>3
      <4>. QED  BY <1>3, <1>q, <4>1 DEF Handed
    <3>. QED  BY <1>5, <3>2, <3>3
  <2>2. CASE \E d \in Chans' : \E i \in 1 .. Len(chan'[d].queue) : m = chan'[d].queue[i].id
    <3>1. PICK d \in Chans : \E i \in 1 .. Len(chan'[d].queue) : m = chan'[d].queue[i].id
      BY <1>2, <2>2
    <3>2. CASE d # c
      BY <1>2, <3>1, <3>2 DEF Handed
    <3>3. CASE d = c
      <4>1. PICK i \in 1 .. Len(r) : m = r[i].id
        BY <1>1, <3>1, <3>3
      <4>2. i + 1 \in 1 .. Len(q) /\ m = q[i + 1].id
        BY <1>3, <4>1
      <4>. QED  BY <1>q, <4>2 DEF Handed
    <3>. QED  BY <3>2, <3>3
  <2>. QED  BY <2>1, <2>2 DEF Handed
<1>. QED  BY <1>7, <1>9, <1>10, <1>11 DEF Behind

-----------------------------------------------------------------------------
(* The order of what the loop and the inbox hold. *)

\* Identities are numbers.
LEMMA WorkIds ==
  ASSUME Types
  PROVE  /\ published \in Nat /\ loop.work.id \in Nat /\ inbox \in Seq(Item) /\ Ids \subseteq Nat
         /\ \A i \in 1 .. Len(inbox) : inbox[i].work.id \in Nat
<1>1. loop.work \in Work
  BY DEF Types, LoopRec
<1>2. ASSUME NEW i \in 1 .. Len(inbox) PROVE inbox[i].work.id \in Nat
  <2>1. inbox[i] \in Item
    BY DEF Types
  <2>2. inbox[i].work \in Work
    BY <2>1 DEF Item
  <2>. QED  BY <2>2 DEF Work
<1>. QED  BY <1>1, <1>2 DEF Types, Work, Ids

\* Nothing is handed over, and the loop keeps its work or lets it go.
LEMMA OrderKept ==
  ASSUME Types, Order, Ids' \subseteq Ids, UNCHANGED <<inbox, published>>,
         Busy' => Busy /\ loop'.work = loop.work
  PROVE  Order'
BY WorkIds DEF Order, Below

\* The next publication joins the inbox.
LEMMA OrderJoined ==
  ASSUME Types, Order, Ids' \subseteq Ids, NEW x \in Item, x.work.id = published + 1,
         inbox' = Append(inbox, x), published' = published + 1, loop' = loop
  PROVE  Order'
<1>n. PICK n \in Nat : n = published
  BY WorkIds
<1>0. /\ loop.work.id \in Nat /\ inbox \in Seq(Item) /\ Ids \subseteq Nat /\ (Busy' <=> Busy)
      /\ \A i \in 1 .. Len(inbox) : inbox[i].work.id \in Nat
  BY WorkIds DEF Busy
<1>1. /\ Len(inbox) \in Nat /\ Len(inbox') = Len(inbox) + 1
      /\ inbox'[Len(inbox) + 1] = x /\ \A i \in 1 .. Len(inbox) : inbox'[i] = inbox[i]
  BY <1>0
<1>2. \A i \in 1 .. Len(inbox') : i \in 1 .. Len(inbox) \/ i = Len(inbox) + 1
  BY <1>1
<1>3. /\ \A m \in Ids : m < n + 1
      /\ Busy => (\A m \in Ids : m < loop.work.id) /\ loop.work.id <= n
      /\ \A i \in 1 .. Len(inbox) :
           /\ \A m \in Ids : m < inbox[i].work.id
           /\ inbox[i].work.id <= n
           /\ Busy => loop.work.id < inbox[i].work.id
  BY <1>0, <1>n DEF Order, Below
<1>4. \A m \in Ids' : m < n + 1 + 1
  <2>1. \A m \in Nat : m < n + 1 => m < n + 1 + 1
    OBVIOUS
  <2>. QED  BY <1>0, <1>3, <2>1
<1>5. Busy' => (\A m \in Ids' : m < loop.work.id) /\ loop.work.id <= n + 1
  BY <1>0, <1>3
<1>6. ASSUME NEW i \in 1 .. Len(inbox')
      PROVE  /\ \A m \in Ids' : m < inbox'[i].work.id
             /\ inbox'[i].work.id <= n + 1
             /\ Busy' => loop.work.id < inbox'[i].work.id
  <2>1. CASE i \in 1 .. Len(inbox)
    BY <1>0, <1>1, <1>3, <2>1
  <2>2. CASE i = Len(inbox) + 1
    <3>1. inbox'[i].work.id = n + 1
      BY <1>1, <1>n, <2>2
    <3>. QED  BY <1>0, <1>3, <3>1
  <2>. QED  BY <1>2, <2>1, <2>2
<1>7. ASSUME NEW i \in 1 .. Len(inbox'), NEW j \in 1 .. Len(inbox'), i < j
      PROVE  inbox'[i].work.id < inbox'[j].work.id
  <2>1. i \in 1 .. Len(inbox)
    BY <1>1, <1>2, <1>7
  <2>2. CASE j \in 1 .. Len(inbox)
    BY <1>1, <1>7, <2>1, <2>2 DEF Order
  <2>3. CASE j = Len(inbox) + 1
    <3>1. inbox'[j].work.id = n + 1
      BY <1>1, <1>n, <2>3
    <3>2. inbox'[i].work.id = inbox[i].work.id /\ inbox[i].work.id <= n /\ inbox[i].work.id \in Nat
      BY <1>0, <1>1, <1>3, <2>1
    <3>. QED  BY <3>1, <3>2
  <2>. QED  BY <1>2, <2>2, <2>3
<1>. QED  BY <1>n, <1>4, <1>5, <1>6, <1>7 DEF Order, Below

\* The loop takes the first publication of the inbox.
LEMMA OrderTaken ==
  ASSUME Types, Order, Ids' \subseteq Ids, inbox # <<>>, inbox' = Tail(inbox), published' = published,
         ~Busy' \/ loop'.work = Head(inbox).work
  PROVE  Order'
<1>0. /\ published \in Nat /\ inbox \in Seq(Item) /\ Ids \subseteq Nat
      /\ \A i \in 1 .. Len(inbox) : inbox[i].work.id \in Nat
  BY WorkIds
<1>1. /\ 1 \in 1 .. Len(inbox) /\ Head(inbox) = inbox[1]
      /\ \A i \in 1 .. Len(inbox') : i + 1 \in 1 .. Len(inbox) /\ inbox'[i] = inbox[i + 1] /\ 1 < i + 1
  BY <1>0, HeadItem
<1>2. \A i \in 1 .. Len(inbox') : /\ \A m \in Ids' : m < inbox'[i].work.id
                                  /\ inbox'[i].work.id <= published
                                  /\ inbox[1].work.id < inbox'[i].work.id
  BY <1>0, <1>1 DEF Order, Below
<1>3. \A i, j \in 1 .. Len(inbox') : i < j => inbox'[i].work.id < inbox'[j].work.id
  <2>1. \A i, j \in 1 .. Len(inbox') : i < j => i + 1 < j + 1
    OBVIOUS
  <2>. QED  BY <1>1, <2>1 DEF Order
<1>4. /\ \A m \in Ids' : m < inbox[1].work.id /\ m < published + 1
      /\ inbox[1].work.id <= published
  BY <1>0, <1>1 DEF Order, Below
<1>. QED  BY <1>1, <1>2, <1>3, <1>4 DEF Order, Below

\* The loop hands its work over and holds nothing.
LEMMA OrderPut ==
  ASSUME Types, Order, Busy, ~Busy', Ids' \subseteq Ids \cup {loop.work.id}, UNCHANGED <<inbox, published>>
  PROVE  Order'
<1>0. /\ published \in Nat /\ loop.work.id \in Nat /\ Ids \subseteq Nat
      /\ \A i \in 1 .. Len(inbox) : inbox[i].work.id \in Nat
  BY WorkIds
<1>1. \A m \in Ids' : m < published + 1
  <2>1. loop.work.id <= published
    BY DEF Order
  <2>2. \A m \in Ids : m < published + 1
    BY DEF Order, Below
  <2>3. loop.work.id < published + 1
    BY <1>0, <2>1
  <2>. QED  BY <2>2, <2>3
<1>2. \A i \in 1 .. Len(inbox) : /\ \A m \in Ids' : m < inbox[i].work.id
                                 /\ inbox[i].work.id <= published
  BY <1>0 DEF Order, Below
<1>. QED  BY <1>1, <1>2 DEF Order, Below

\* The first publication of the inbox is handed over, while the loop holds nothing.
LEMMA OrderHandedOver ==
  ASSUME Types, Order, ~Busy', Ids' \subseteq Ids \cup {Head(inbox).work.id}, inbox # <<>>,
         inbox' = Tail(inbox), published' = published
  PROVE  Order'
<1>0. /\ published \in Nat /\ inbox \in Seq(Item) /\ Ids \subseteq Nat
      /\ \A i \in 1 .. Len(inbox) : inbox[i].work.id \in Nat
  BY WorkIds
<1>1. /\ 1 \in 1 .. Len(inbox) /\ Head(inbox) = inbox[1]
      /\ \A i \in 1 .. Len(inbox') : i + 1 \in 1 .. Len(inbox) /\ inbox'[i] = inbox[i + 1] /\ 1 < i + 1
  BY <1>0, HeadItem
<1>2. ASSUME NEW i \in 1 .. Len(inbox')
      PROVE  (\A m \in Ids' : m < inbox'[i].work.id) /\ inbox'[i].work.id <= published
  <2>1. i + 1 \in 1 .. Len(inbox) /\ inbox'[i] = inbox[i + 1] /\ inbox[1].work.id < inbox[i + 1].work.id
    BY <1>1 DEF Order
  <2>. QED  BY <1>0, <1>1, <2>1 DEF Order, Below
<1>3. \A i, j \in 1 .. Len(inbox') : i < j => inbox'[i].work.id < inbox'[j].work.id
  <2>1. \A i, j \in 1 .. Len(inbox') : i < j => i + 1 < j + 1
    OBVIOUS
  <2>. QED  BY <1>1, <2>1 DEF Order
<1>4. \A m \in Ids' : m < published + 1
  <2>1. inbox[1].work.id <= published
    BY <1>1 DEF Order
  <2>. QED  BY <1>0, <1>1, <2>1 DEF Order, Below
<1>. QED  BY <1>2, <1>3, <1>4 DEF Order, Below

-----------------------------------------------------------------------------
(* The order is preserved: one lemma per kind of step. *)

\* Steps that leave the channels alone.
LEMMA ChanSame ==
  ASSUME chan' = chan, invoked' = invoked, gate' # "retired" => gate # "retired"
  PROVE  Quiet
BY DEF Quiet, Chans

\* Steps that look a consumer up.
LEMMA GrownQuiet ==
  ASSUME Grown, invoked' = invoked, gate' = gate
  PROVE  Quiet
BY DEF Quiet, Grown, Chans

\* Steps of a consumer that leave its queue alone.
LEMMA ActsQuiet ==
  ASSUME NEW c \in Chans, Acts(c), chan'[c].queue = chan[c].queue, invoked' = invoked, gate' = gate
  PROVE  Quiet
BY DEF Quiet, Acts, Chans

\* Publications join the inbox.
LEMMA JoinOrders ==
  ASSUME IInv, (\E p \in Keys : Publish(p)) \/ \E t \in Reservers : Commit(t)
  PROVE  Orders'
<1>0. Types /\ Order /\ Halted /\ Behind
  BY DEF IInv, Orders
<1>1. UNCHANGED <<chan, gate, running, loop, invoked>>
  BY DEF Publish, Commit, history
<1>2. Behind' /\ Ids' \subseteq Ids
  BY <1>0, <1>1, ChanSame, QuietBehind
<1>3. Halted'
  BY <1>0, <1>1 DEF Halted, Busy
<1>4. CASE UNCHANGED <<inbox, published>>
  BY <1>0, <1>1, <1>2, <1>3, <1>4, OrderKept DEF Orders, Busy
<1>5. ASSUME NEW k \in Keys, NEW b \in Reservers \cup {"ordinary"}, published' = published + 1,
             inbox' = Append(inbox, [work |-> [id |-> published + 1, principal |-> k], by |-> b])
      PROVE  Orders'
  <2>1. PICK x : x = [work |-> [id |-> published + 1, principal |-> k], by |-> b]
    OBVIOUS
  <2>2. x \in Item /\ x.work.id = published + 1
    BY <1>0, <2>1 DEF Types, Item, Work
  <2>3. Order'
    BY <1>0, <1>1, <1>2, <1>5, <2>1, <2>2, OrderJoined
  <2>. QED  BY <1>2, <1>3, <2>3 DEF Orders
<1>6. CASE \E p \in Keys : Publish(p)
  BY <1>5, <1>6 DEF Publish
<1>7. ASSUME NEW t \in Reservers, Commit(t) PROVE Orders'
  <2>1. res[t].principal \in Keys
    BY <1>0 DEF Types, ResRec
  <2>2. CASE may_commit
    BY <1>5, <1>7, <2>1, <2>2 DEF Commit
  <2>3. CASE ~may_commit
    BY <1>4, <1>7, <2>3 DEF Commit
  <2>. QED  BY <2>2, <2>3
<1>. QED  BY <1>6, <1>7

\* Steps that hand nothing over and leave the loop and the inbox alone.
LEMMA QuietOrders ==
  ASSUME IInv, Quiet, UNCHANGED <<loop, inbox, published, running>>
  PROVE  Orders'
<1>0. Types /\ Order /\ Halted /\ Behind
  BY DEF IInv, Orders
<1>1. Behind' /\ Ids' \subseteq Ids
  BY <1>0, QuietBehind
<1>2. Order'
  BY <1>0, <1>1, OrderKept DEF Busy
<1>3. Halted'
  BY <1>0 DEF Halted, Busy
<1>. QED  BY <1>1, <1>2, <1>3 DEF Orders

\* Reservers look their consumer up, get permits and cancel.
LEMMA ReserverOrders ==
  ASSUME IInv, NEW t \in Reservers,
         (\E p \in Keys : Reserve(t, p)) \/ ReservePermit(t) \/ Cancel(t)
  PROVE  Orders'
<1>1. UNCHANGED <<loop, inbox, published, running, gate, stopping, invoked>>
  BY DEF Reserve, ReservePermit, Cancel, history
<1>2. CASE ReservePermit(t) \/ Cancel(t)
  <2>1. chan' = chan
    BY <1>2 DEF ReservePermit, Cancel
  <2>. QED  BY <1>1, <2>1, ChanSame, QuietOrders
<1>3. ASSUME NEW p \in Keys, Reserve(t, p) PROVE Orders'
  <2>1. PICK g : g = get_or_spawn_consumer(p)
    OBVIOUS
  <2>2. map' = g.map /\ chan' = g.chan
    BY <1>3, <2>1 DEF Reserve
  <2>3. Types /\ Core
    BY DEF IInv, Flags, Core
  <2>4. Refused(g) \/ Found(g) \/ \E k \in Keys : Created(g, k)
    BY <2>1, <2>3, Spawned
  <2>5. Grown
    BY <1>1, <2>2, <2>3, <2>4, SpawnCore
  <2>. QED  BY <1>1, <2>5, GrownQuiet, QuietOrders
<1>. QED  BY <1>2, <1>3

\* Consumers.
LEMMA ConsumerOrders ==
  ASSUME IInv, NEW c \in Chans, ConsumerStep(c) \/ EvictIdle(c)
  PROVE  Orders'
<1>0. Types /\ Order /\ Halted /\ Behind
  BY DEF IInv, Orders
<1>1. UNCHANGED <<loop, inbox, published, running, gate>>
  BY DEF ConsumerStep, Recv, Return, Close, Exit, EvictIdle, history
<1>2. CASE Recv(c)
  <2>1. Behind' /\ Ids' \subseteq Ids
    BY <1>2, RecvBehind
  <2>2. Order'
    BY <1>0, <1>1, <2>1, OrderKept DEF Busy
  <2>. QED  BY <1>0, <1>1, <2>1, <2>2 DEF Orders, Halted, Busy
<1>3. CASE Return(c) \/ Close(c) \/ Exit(c) \/ EvictIdle(c)
  <2>1. invoked' = invoked
    BY <1>3 DEF Return, Close, Exit, EvictIdle, history
  <2>2. Acts(c) /\ chan'[c].queue = chan[c].queue
    BY <1>3, ReturnFlags, CloseFlags, ExitFlags, EvictIdleFlags
  <2>. QED  BY <1>1, <2>1, <2>2, ActsQuiet, QuietOrders
<1>. QED  BY <1>2, <1>3 DEF ConsumerStep

\* Retirement.
LEMMA RetireOrders ==
  ASSUME IInv, GateRetire \/ StopRetire \/ StopClear
  PROVE  Orders'
<1>1. /\ UNCHANGED <<loop, inbox, published, running, chan, invoked>>
      /\ gate' # "retired" => gate # "retired"
  BY DEF GateRetire, StopRetire, StopClear, history
<1>. QED  BY <1>1, ChanSame, QuietOrders

\* The loop takes an event and looks its consumer up.
LEMMA LoopTakeOrders ==
  ASSUME IInv, LoopTake
  PROVE  Orders'
<1>0. Types /\ Core /\ Order /\ Halted /\ Behind
  BY DEF IInv, Orders, Flags, Core
<1>1. /\ running' = running /\ running /\ inbox # <<>> /\ inbox' = Tail(inbox)
      /\ UNCHANGED <<gate, stopping, published, invoked>>
  BY DEF LoopTake, history
<1>w. PICK w : w = Head(inbox).work
  OBVIOUS
<1>g. PICK g : g = get_or_spawn_consumer(w.principal)
  OBVIOUS
<1>2. map' = g.map /\ chan' = g.chan /\ loop' = [at |-> "send", work |-> w, sender |-> g.sender]
  BY <1>w, <1>g DEF LoopTake
<1>3. w.principal \in Keys
  BY <1>0, <1>1, <1>w, HeadItem DEF Types, Work
<1>4. Refused(g) \/ Found(g) \/ \E k \in Keys : Created(g, k)
  BY <1>0, <1>3, <1>g, Spawned
<1>5. Grown
  BY <1>0, <1>1, <1>2, <1>4, SpawnCore
<1>6. Behind' /\ Ids' \subseteq Ids
  BY <1>0, <1>1, <1>5, GrownQuiet, QuietBehind
<1>7. loop'.work = w
  BY <1>2
<1>8. Order'
  BY <1>0, <1>1, <1>6, <1>7, <1>w, OrderTaken
<1>9. Halted'
  BY <1>1 DEF Halted
<1>. QED  BY <1>6, <1>8, <1>9 DEF Orders

\* The loop asks for a new consumer.
LEMMA LoopRespawnOrders ==
  ASSUME IInv, LoopRespawn
  PROVE  Orders'
<1>0. Types /\ Core /\ Order /\ Halted /\ Behind
  BY DEF IInv, Orders, Flags, Core
<1>g. PICK g : g = get_or_spawn_consumer(loop.work.principal)
  OBVIOUS
<1>1. /\ map' = g.map /\ chan' = g.chan /\ loop' = [loop EXCEPT !.at = "resend", !.sender = g.sender]
      /\ UNCHANGED <<gate, stopping, inbox, published, invoked, running>> /\ Busy
  BY <1>g DEF LoopRespawn, history, Busy
<1>2. loop \in LoopRec /\ loop.work.principal \in Keys
  BY <1>0 DEF Types, LoopRec, Work
<1>3. Refused(g) \/ Found(g) \/ \E k \in Keys : Created(g, k)
  BY <1>0, <1>2, <1>g, Spawned
<1>4. Grown /\ g.sender \in 0 .. Len(chan')
  BY <1>0, <1>1, <1>3, SpawnCore
<1>5. loop'.work = loop.work
  <2>1. g.sender \in Nat
    BY <1>4
  <2>. QED  BY <1>1, <1>2, <2>1, LoopMoves
<1>6. Behind' /\ Ids' \subseteq Ids
  BY <1>0, <1>1, <1>4, GrownQuiet, QuietBehind
<1>7. Order'
  BY <1>0, <1>1, <1>5, <1>6, OrderKept
<1>8. Halted'
  BY <1>0, <1>1 DEF Halted
<1>. QED  BY <1>6, <1>7, <1>8 DEF Orders

\* The loop sends, or sends again.
LEMMA LoopSendOrders ==
  ASSUME IInv, LoopSend \/ LoopResend
  PROVE  Orders'
<1>0. Types /\ Core /\ Order /\ Halted /\ Behind
  BY DEF IInv, Orders, Flags, Core
<1>c. PICK c : c = loop.sender
  OBVIOUS
<1>w. PICK w : w = loop.work
  OBVIOUS
<1>1. UNCHANGED <<gate, inbox, published, invoked, running>> /\ Busy
  BY DEF LoopSend, LoopResend, Busy
<1>2. loop \in LoopRec /\ c \in 0 .. Len(chan) /\ w \in Work
  BY <1>0, <1>c, <1>w DEF Types, LoopRec
<1>3. Halted'
  BY <1>0, <1>1 DEF Halted
<1>4. CASE is_closed(c) \/ ~has_room(c)
  <2>1. chan' = chan
    BY <1>4, <1>c DEF LoopSend, LoopResend
  <2>2. Behind' /\ Ids' \subseteq Ids
    BY <1>0, <1>1, <2>1, ChanSame, QuietBehind
  <2>3. loop' = IdleLoop \/ loop' = [loop EXCEPT !.at = "respawn", !.sender = NoChan]
    BY DEF LoopSend, LoopResend
  <2>4. ~Busy' \/ loop'.work = loop.work
    <3>1. CASE loop' = IdleLoop
      BY <3>1, LoopIdles DEF Busy
    <3>2. CASE loop' = [loop EXCEPT !.at = "respawn", !.sender = NoChan]
      <4>1. NoChan \in Nat
        BY DEF NoChan
      <4>2. loop'.work = loop.work
        BY <1>2, <3>2, <4>1, LoopMoves
      <4>. QED  BY <4>2
    <3>. QED  BY <2>3, <3>1, <3>2
  <2>5. Order'
    BY <1>0, <1>1, <2>2, <2>4, OrderKept
  <2>. QED  BY <1>3, <2>2, <2>5 DEF Orders
<1>5. CASE ~is_closed(c) /\ has_room(c)
  <2>1. chan' = enqueue(c, w) /\ loop' = IdleLoop
    BY <1>5, <1>c, <1>w DEF LoopSend, LoopResend
  <2>2. c \in Chans
    BY <1>0, <1>2, <1>5, OpenIsLive
  <2>3. Below(w.id)
    BY <1>0, <1>1, <1>w DEF Order
  <2>4. Behind' /\ Ids' \subseteq Ids \cup {w.id}
    BY <1>0, <1>1, <1>2, <2>1, <2>2, <2>3, EnqueueBehind
  <2>5. ~Busy'
    BY <2>1, LoopIdles DEF Busy
  <2>6. Order'
    BY <1>0, <1>1, <1>w, <2>4, <2>5, OrderPut
  <2>. QED  BY <1>3, <2>4, <2>6 DEF Orders
<1>. QED  BY <1>4, <1>5

\* Reserved publications are handed over, by the loop or by its dropped receiver,
\* which drops ordinary ones.
LEMMA LoopDeliverOrders ==
  ASSUME IInv, LoopDeliver \/ LoopDrain
  PROVE  Orders'
<1>0. Types /\ Order /\ Halted /\ Behind
  BY DEF IInv, Orders
<1>1. /\ inbox # <<>> /\ inbox' = Tail(inbox)
      /\ UNCHANGED <<map, gate, stopping, loop, published, invoked, lost, running>>
  BY DEF LoopDeliver, LoopDrain, history
<1>2. ~Busy /\ ~Busy' /\ Halted'
  BY <1>0, <1>1 DEF LoopDeliver, LoopDrain, Halted, Busy
<1>3. CASE Head(inbox).by = "ordinary"
  <2>1. chan' = chan
    BY <1>3 DEF LoopDeliver, LoopDrain
  <2>2. Behind' /\ Ids' \subseteq Ids
    BY <1>0, <1>1, <2>1, ChanSame, QuietBehind
  <2>3. Order'
    BY <1>0, <1>1, <1>2, <2>2, OrderTaken
  <2>. QED  BY <1>2, <2>2, <2>3 DEF Orders
<1>4. CASE Head(inbox).by # "ordinary"
  <2>t. PICK t : t = Head(inbox).by
    OBVIOUS
  <2>1. chan' = enqueue(res[t].sender, Head(inbox).work) /\ res' = [res EXCEPT ![t] = IdleRes]
    BY <1>4, <2>t DEF LoopDeliver, LoopDrain
  <2>c. PICK c : c = res[t].sender
    OBVIOUS
  <2>w. PICK w : w = Head(inbox).work
    OBVIOUS
  <2>2. c \in Chans
    BY <1>1, <1>4, <2>1, <2>c, <2>t, HandOver
  <2>3. w \in Work /\ Head(inbox) = inbox[1] /\ 1 \in 1 .. Len(inbox)
    BY <1>0, <1>1, <2>w, HeadItem DEF Types
  <2>4. Below(w.id)
    BY <1>0, <2>3, <2>w DEF Order
  <2>5. Behind' /\ Ids' \subseteq Ids \cup {w.id}
    BY <1>0, <1>1, <2>1, <2>2, <2>3, <2>4, <2>c, <2>w, EnqueueBehind
  <2>6. Order'
    BY <1>0, <1>1, <1>2, <2>5, <2>w, OrderHandedOver
  <2>. QED  BY <1>2, <2>5, <2>6 DEF Orders
<1>. QED  BY <1>3, <1>4

\* The loop returns with nothing in hand.
LEMMA LoopStopOrders ==
  ASSUME IInv, LoopStop
  PROVE  Orders'
<1>0. Types /\ Order /\ Halted /\ Behind
  BY DEF IInv, Orders
<1>1. UNCHANGED <<chan, gate, inbox, loop, published, invoked>> /\ ~Busy
  BY DEF LoopStop, history, Busy
<1>2. Behind' /\ Ids' \subseteq Ids
  BY <1>0, <1>1, ChanSame, QuietBehind
<1>3. Order'
  BY <1>0, <1>1, <1>2, OrderKept DEF Busy
<1>. QED  BY <1>1, <1>2, <1>3 DEF Orders, Halted, Busy

-----------------------------------------------------------------------------
(* The theorems. *)

\* Every step of the dispatcher preserves the invariant.
LEMMA IInvStep ==
  ASSUME IInv, [Next]_vars
  PROVE  IInv'
<1>1. ASSUME NEW p \in Keys, Publish(p) PROVE IInv'
  BY <1>1, PublishFlags, JoinOrders DEF IInv
<1>2. ASSUME NEW p \in Keys, NEW t \in Reservers, Reserve(t, p) PROVE IInv'
  BY <1>2, ReserveFlags, ReserverOrders DEF IInv
<1>3. CASE LoopStep
  <2>1. CASE LoopTake
    BY <2>1, LoopTakeFlags, LoopTakeOrders DEF IInv
  <2>2. CASE LoopSend
    BY <2>2, LoopSendFlags, LoopSendOrders DEF IInv
  <2>3. CASE LoopRespawn
    BY <2>3, LoopRespawnFlags, LoopRespawnOrders DEF IInv
  <2>4. CASE LoopResend
    BY <2>4, LoopResendFlags, LoopSendOrders DEF IInv
  <2>5. CASE LoopDeliver
    BY <2>5, LoopDeliverFlags, LoopDeliverOrders DEF IInv
  <2>6. CASE LoopStop
    BY <2>6, LoopStopFlags, LoopStopOrders DEF IInv
  <2>7. CASE LoopDrain
    BY <2>7, LoopDrainFlags, LoopDeliverOrders DEF IInv
  <2>. QED  BY <1>3, <2>1, <2>2, <2>3, <2>4, <2>5, <2>6, <2>7 DEF LoopStep
<1>4. ASSUME NEW t \in Reservers, ReserverStep(t) \/ Cancel(t) PROVE IInv'
  <2>1. CASE ReservePermit(t)
    BY <2>1, ReservePermitFlags, ReserverOrders DEF IInv
  <2>2. CASE Commit(t)
    BY <2>2, CommitFlags, JoinOrders DEF IInv
  <2>3. CASE Cancel(t)
    BY <2>3, CancelFlags, ReserverOrders DEF IInv
  <2>. QED  BY <1>4, <2>1, <2>2, <2>3 DEF ReserverStep
<1>5. ASSUME NEW c \in DOMAIN chan, ConsumerStep(c) \/ EvictIdle(c) PROVE IInv'
  <2>0. c \in Chans
    <3>1. chan \in Seq(Channel)
      BY DEF IInv, Types
    <3>. QED  BY <3>1 DEF Chans
  <2>1. Types' /\ Flags'
    BY <1>5, <2>0, RecvFlags, ReturnFlags, CloseFlags, ExitFlags, EvictIdleFlags DEF ConsumerStep
  <2>2. Orders'
    BY <1>5, <2>0, ConsumerOrders
  <2>. QED  BY <2>1, <2>2 DEF IInv
<1>6. CASE GateRetire \/ StopRetire \/ StopClear
  BY <1>6, RetireFlags, RetireOrders DEF IInv
<1>7. CASE UNCHANGED vars
  <2>1. /\ UNCHANGED <<map, chan, gate, stopping, inbox, running, loop, res, started, published>>
        /\ UNCHANGED <<invoked, lost>>
    BY <1>7 DEF vars, history
  <2>2. Types'
    BY <2>1 DEF IInv, Types
  <2>3. Flags'
    BY <2>1 DEF IInv, Flags, Mapped, Spent, Alive, OneTask, PermitsLive, InboxOwned, ResendOpen,
                ClosedNeverDropped, Chans, Live, Shut, Sends, retired
  <2>4. Orders'
    BY <2>1, ChanSame, QuietOrders
  <2>. QED  BY <2>2, <2>3, <2>4 DEF IInv
<1>. QED  BY <1>1, <1>2, <1>3, <1>4, <1>5, <1>6, <1>7 DEF Next

\* The inductive invariant holds in every reachable state.
THEOREM DispatcherInv == Spec => []IInv
BY IInvInit, IInvStep, PTL DEF Spec

\* dispatcher/consumer.rs evict_idle and dispatcher/queues.rs
\* get_or_spawn_consumer: while nothing retires a key never has two consumer
\* tasks, whatever evictions, respawns and degradations came before.
THEOREM OneConsumerTheorem == Spec => []OneConsumerPerKey
<1>1. IInv => OneConsumerPerKey
  <2>. SUFFICES ASSUME IInv, ~retired PROVE OneConsumerPerKey
    BY DEF OneConsumerPerKey
  <2>1. DOMAIN chan = Chans
    <3>1. chan \in Seq(Channel)
      BY DEF IInv, Types
    <3>. QED  BY <3>1 DEF Chans
  <2>2. gate # "retired"
    BY DEF retired
  <2>. QED  BY <2>1, <2>2 DEF IInv, Flags, OneTask, OneConsumerPerKey, Live
<1>. QED  BY <1>1, DispatcherInv, PTL

\* dispatcher.rs "Closed is never dropped": until the runtime's own gate retires,
\* the one respawn after a closed queue always finds an open one.
THEOREM ClosedTheorem == Spec => []ClosedNeverDropped
<1>1. IInv => ClosedNeverDropped
  BY DEF IInv, Flags
<1>. QED  BY <1>1, DispatcherInv, PTL

\* dispatcher.rs "delivered in publish order": until the runtime's own gate
\* retires, the queues of a key, one after the other, invoke the capsule in the
\* order of publication, ordinary and reserved work alike.
THEOREM OrderTheorem == Spec => []PublishOrder
<1>1. IInv => PublishOrder
  BY DEF IInv, Orders, Behind
<1>. QED  BY <1>1, DispatcherInv, PTL
=============================================================================
