----------------------------- MODULE DemoFeedProofs -----------------------------
(***************************************************************************)
(* Theorems about DemoFeed, for any number of exchanges, polls, kept       *)
(* events and restarts.                                                    *)
(***************************************************************************)
EXTENDS DemoFeed, FiniteSetTheorems, TLAPS

LEMMA FiniteRange ==
  ASSUME NEW S, NEW s \in Seq(S)
  PROVE  IsFiniteSet(ToSet(s))
<1>1. IsFiniteSet(1..Len(s)) /\ DOMAIN s = 1..Len(s)
  BY FS_Interval
<1>2. s \in Surjection(1..Len(s), ToSet(s))
  BY DEF Surjection, ToSet
<1> QED
  BY <1>1, <1>2, FS_Surjection

(* SetToSeqs has the orders a set can be put into. *)
LEMMA OrdersOf ==
  ASSUME NEW S, IsFiniteSet(S), NEW o \in SetToSeqs(S)
  PROVE  /\ o \in Seq(S)
         /\ \A x \in S : \E i \in DOMAIN o : o[i] = x
<1> DEFINE n == Cardinality(S)
<1>1. n \in Nat
  BY FS_CardinalityType
<1>2. o \in [1..n -> S] /\ \A i, j \in 1..n : i # j => o[i] # o[j]
  BY DEF SetToSeqs
<1>3. o \in Injection(1..n, S)
  BY <1>2, Zenon DEF Injection, IsInjective
<1>4. Cardinality(1..n) = n
  BY <1>1, FS_Interval
<1>5. o \in Surjection(1..n, S)
  BY <1>3, <1>4, FS_Injection
<1> QED
  BY <1>1, <1>2, <1>5 DEF Surjection

-------------------------------------------------------------------------------
(* The inductive invariant. *)

(* No more events are on their way or numbered than were captured.         *)
Started == {x \in Exchanges : exchange[x] # "idle"}
Ended   == {x \in Exchanges : exchange[x] = "ended"}

Budget == posts + seq <= Cardinality(Started) + Cardinality(Ended)

(* renderedSeq is not below a card, and not above the server unless the    *)
(* log shows an earlier run.                                               *)
Rendered ==
  /\ log = <<>> => renderedSeq = 0
  /\ \A i \in DOMAIN log : log[i].seq <= renderedSeq /\ log[i].run <= run
  /\ LogIsOfThisRun => renderedSeq <= seq

(* An answer is in the order of seq.  One of this run holds everything of  *)
(* the buffer but what came after it: between its making and its drawing   *)
(* the buffer only loses events that the answer may still show.            *)
AnswerFits(a) ==
  /\ \A i, j \in DOMAIN a : i < j => a[i].seq < a[j].seq
  /\ \A i \in DOMAIN a : a[i].run <= run
  /\ a # <<>> /\ a[Len(a)].run = run =>
       /\ a[Len(a)].seq <= seq
       /\ \A e \in ToSet(events) : e.seq <= a[Len(a)].seq => e \in ToSet(a)

IInv == /\ TypeOK /\ LogInOrder /\ BufferedOrShown
        /\ Budget /\ Rendered
        /\ \A p \in Polls : AnswerFits(poll[p].answer)

-------------------------------------------------------------------------------
(* Types. *)

LEMMA Counted ==
  ASSUME NEW S \in SUBSET Exchanges
  PROVE  /\ IsFiniteSet(S) /\ Cardinality(S) \in Nat /\ Cardinality(Exchanges) \in Nat
         /\ Cardinality(S) <= Cardinality(Exchanges)
         /\ \A x \in Exchanges \ S : Cardinality(S \cup {x}) = Cardinality(S) + 1
<1>1. IsFiniteSet(S) /\ Cardinality(S) <= Cardinality(Exchanges)
  BY ExchangesAssumption, FS_Subset
<1> QED
  BY <1>1, ExchangesAssumption, FS_CardinalityType, FS_AddElement

LEMMA BudgetBounds ==
  ASSUME posts \in Nat, seq \in Nat, Budget
  PROVE  posts \in 0 .. MaxEvents /\ seq \in 0 .. MaxEvents
<1>1. Started \in SUBSET Exchanges /\ Ended \in SUBSET Exchanges
  BY DEF Started, Ended
<1>2. /\ Cardinality(Started) \in Nat /\ Cardinality(Ended) \in Nat /\ Cardinality(Exchanges) \in Nat
      /\ Cardinality(Started) <= Cardinality(Exchanges)
      /\ Cardinality(Ended) <= Cardinality(Exchanges)
  BY <1>1, Counted
<1> QED
  BY <1>2 DEF Budget, MaxEvents

LEMMA Captured ==
  ASSUME exchange \in [Exchanges -> {"idle", "forwarded", "ended"}], NEW x \in Exchanges
  PROVE  /\ Move(x, "idle", "forwarded") =>
              Cardinality(Started') = Cardinality(Started) + 1 /\ Ended' = Ended
         /\ Move(x, "forwarded", "ended") =>
              Started' = Started /\ Cardinality(Ended') = Cardinality(Ended) + 1
         /\ \A from, to \in {"idle", "forwarded", "ended"} : Move(x, from, to) =>
              exchange' \in [Exchanges -> {"idle", "forwarded", "ended"}]
         /\ Cardinality(Started) \in Nat /\ Cardinality(Ended) \in Nat
<1>1. Started \in SUBSET Exchanges /\ Ended \in SUBSET Exchanges
  BY DEF Started, Ended
<1>2. ASSUME Move(x, "idle", "forwarded")
      PROVE  x \notin Started /\ Started' = Started \cup {x} /\ Ended' = Ended
  BY <1>2 DEF Move, Started, Ended
<1>3. ASSUME Move(x, "forwarded", "ended")
      PROVE  x \notin Ended /\ Ended' = Ended \cup {x} /\ Started' = Started
  BY <1>3 DEF Move, Started, Ended
<1>4. \A from, to \in {"idle", "forwarded", "ended"} : Move(x, from, to) =>
        exchange' \in [Exchanges -> {"idle", "forwarded", "ended"}]
  BY DEF Move
<1> QED
  BY <1>1, <1>2, <1>3, <1>4, Counted

(* What is kept of a list with one more event.                             *)
Kept(c, s, e) ==
  /\ c \in Seq(Event) /\ Len(c) <= Cap /\ Len(c) \in Nat \ {0} /\ DOMAIN c = 1 .. Len(c)
  /\ Len(c) <= Len(s) + 1
  /\ c[Len(c)] = e
  /\ \A i \in 1 .. Len(c) - 1 :
       /\ i + Len(s) + 1 - Len(c) \in DOMAIN s
       /\ c[i] = s[i + Len(s) + 1 - Len(c)]

LEMMA CappedSeq ==
  ASSUME NEW s \in Seq(Event), NEW e \in Event
  PROVE  Kept(Capped(Append(s, e)), s, e)
<1> PICK c : c = Capped(Append(s, e))
  OBVIOUS
<1> DEFINE a == Append(s, e)
           from == IF Len(a) > Cap THEN Len(a) - Cap + 1 ELSE 1
<1>1. /\ a \in Seq(Event) /\ Len(a) = Len(s) + 1 /\ Len(s) \in Nat /\ DOMAIN s = 1 .. Len(s)
      /\ a[Len(s) + 1] = e /\ \A i \in DOMAIN s : a[i] = s[i]
  OBVIOUS
<1>2. from \in 1 .. Len(a) /\ Len(a) - from + 1 <= Cap
  BY <1>1, CapAssumption
<1>3. c = SubSeq(a, from, Len(a))
  BY DEF Capped
<1> HIDE DEF a, from
<1>4. /\ c \in Seq(Event) /\ Len(c) = Len(a) - from + 1 /\ DOMAIN c = 1 .. Len(c)
      /\ \A i \in 1 .. Len(c) : c[i] = a[i + from - 1]
  BY <1>1, <1>2, <1>3
<1>5. Len(c) \in Nat \ {0} /\ Len(c) <= Cap /\ Len(c) <= Len(s) + 1
  BY <1>1, <1>2, <1>4
<1>6. c[Len(c)] = e
  BY <1>1, <1>2, <1>4, <1>5
<1>7. \A i \in 1 .. Len(c) - 1 :
        i + Len(s) + 1 - Len(c) \in DOMAIN s /\ c[i] = s[i + Len(s) + 1 - Len(c)]
  <2> SUFFICES ASSUME NEW i \in 1 .. Len(c) - 1
               PROVE  /\ i + Len(s) + 1 - Len(c) \in DOMAIN s
                      /\ c[i] = s[i + Len(s) + 1 - Len(c)]
    OBVIOUS
  <2>1. i + from - 1 = i + Len(s) + 1 - Len(c) /\ i + from - 1 \in 1 .. Len(s)
    BY <1>1, <1>2, <1>4
  <2>2. c[i] = a[i + from - 1]
    BY <1>4, <1>5
  <2> QED
    BY <1>1, <2>1, <2>2
<1> QED
  BY <1>4, <1>5, <1>6, <1>7 DEF Kept

-------------------------------------------------------------------------------
(* The proxy, and the posts on their way. *)

ProxyTyped == exchange \in [Exchanges -> {"idle", "forwarded", "ended"}] /\ posts \in Nat
Buffered   == /\ seq \in Nat
              /\ events \in Seq(Event) /\ Len(events) <= Cap
              /\ \A i \in DOMAIN events : events[i] = [run |-> run, seq |-> seq - Len(events) + i]

LEMMA NaturalTypes ==
  TypeOK => /\ ProxyTyped /\ Buffered /\ run \in 0 .. MaxRestarts /\ run \in Nat
            /\ \A e \in Event : e.run \in Nat /\ e.seq \in Nat \ {0}
            /\ \A i \in DOMAIN events : events[i].run = run /\ events[i].seq = seq - Len(events) + i
BY DEF TypeOK, ProxyTyped, Buffered, Event

LEMMA ProxySteps ==
  ASSUME TypeOK, Budget,
         \/ \E x \in Exchanges : CaptureRequest(x) \/ CaptureResponse(x) \/ UpstreamError(x)
         \/ PostError
  PROVE  ProxyTyped' /\ Budget' /\ UNCHANGED <<server, page>>
<1>1. ProxyTyped /\ seq \in Nat
  BY NaturalTypes DEF Buffered
<1>2. ASSUME NEW x \in Exchanges, CaptureRequest(x)
      PROVE  ProxyTyped' /\ Budget' /\ UNCHANGED <<server, page>>
  <2>1. Move(x, "idle", "forwarded") /\ posts' = posts + 1 /\ UNCHANGED <<server, page>>
    BY <1>2 DEF CaptureRequest, emit
  <2> QED
    BY <1>1, <2>1, Captured DEF ProxyTyped, Budget, server
<1>3. ASSUME NEW x \in Exchanges, CaptureResponse(x)
      PROVE  ProxyTyped' /\ Budget' /\ UNCHANGED <<server, page>>
  <2>1. Move(x, "forwarded", "ended") /\ posts' = posts + 1 /\ UNCHANGED <<server, page>>
    BY <1>3 DEF CaptureResponse, emit
  <2> QED
    BY <1>1, <2>1, Captured DEF ProxyTyped, Budget, server
<1>4. ASSUME NEW x \in Exchanges, UpstreamError(x)
      PROVE  ProxyTyped' /\ Budget' /\ UNCHANGED <<server, page>>
  <2>1. Move(x, "forwarded", "ended") /\ posts' = posts /\ UNCHANGED <<server, page>>
    BY <1>4 DEF UpstreamError
  <2> QED
    BY <1>1, <2>1, Captured DEF ProxyTyped, Budget, server
<1>5. CASE PostError
  <2>1. posts > 0 /\ posts' = posts - 1 /\ exchange' = exchange /\ UNCHANGED <<server, page>>
    BY <1>5 DEF PostError
  <2>2. Cardinality(Started) \in Nat /\ Cardinality(Ended) \in Nat
    <3>1. Started \in SUBSET Exchanges /\ Ended \in SUBSET Exchanges
      BY DEF Started, Ended
    <3> QED
      BY <3>1, Counted
  <2>3. Started' = Started /\ Ended' = Ended
    BY <2>1 DEF Started, Ended
  <2> QED
    BY <1>1, <2>1, <2>2, <2>3 DEF ProxyTyped, Budget, server
<1> QED
  BY <1>2, <1>3, <1>4, <1>5

-------------------------------------------------------------------------------
(* The buffer. *)

(* One event more: the last of the buffer, which is as before otherwise,   *)
(* or has lost its oldest.                                                 *)
LEMMA Added ==
  ASSUME TypeOK, Budget, posts > 0, posts' = posts - 1, exchange' = exchange, run' = run, add
  PROVE  /\ ProxyTyped' /\ Budget' /\ Buffered'
         /\ seq' = seq + 1
         /\ \A e \in ToSet(events') : e \in ToSet(events) \/ e.seq = seq'
<1> PICK e : e = [run |-> run, seq |-> seq + 1]
  OBVIOUS
<1> PICK c : c = Capped(Append(events, e))
  OBVIOUS
<1>1. /\ ProxyTyped /\ Buffered /\ run \in 0 .. MaxRestarts
  BY NaturalTypes
<1>2. seq' = seq + 1 /\ events' = c
  BY DEF add
<1>3. Started' = Started /\ Ended' = Ended
  BY DEF Started, Ended
<1>4. Started \in SUBSET Exchanges /\ Ended \in SUBSET Exchanges
  BY DEF Started, Ended
<1>5. Budget' /\ ProxyTyped' /\ seq + 1 \in 1 .. MaxEvents
  <2>1. /\ Cardinality(Started) \in Nat /\ Cardinality(Ended) \in Nat /\ Cardinality(Exchanges) \in Nat
        /\ Cardinality(Started) <= Cardinality(Exchanges)
        /\ Cardinality(Ended) <= Cardinality(Exchanges)
    BY <1>4, Counted
  <2> QED
    BY <1>1, <1>2, <1>3, <2>1 DEF Budget, ProxyTyped, Buffered, MaxEvents
<1>6. e \in Event
  BY <1>1, <1>5 DEF Event
<1>7. /\ events \in Seq(Event) /\ Len(events) \in Nat /\ DOMAIN events = 1 .. Len(events) /\ seq \in Nat
      /\ \A i \in DOMAIN events : events[i] = [run |-> run, seq |-> seq - Len(events) + i]
  BY <1>1 DEF Buffered
<1>8. /\ c \in Seq(Event) /\ Len(c) <= Cap /\ Len(c) \in Nat \ {0} /\ DOMAIN c = 1 .. Len(c)
      /\ Len(c) <= Len(events) + 1
      /\ c[Len(c)] = e
      /\ \A i \in 1 .. Len(c) - 1 :
           /\ i + Len(events) + 1 - Len(c) \in DOMAIN events
           /\ c[i] = events[i + Len(events) + 1 - Len(c)]
    <2>1. Kept(Capped(Append(events, e)), events, e)
    BY <1>6, <1>7, CappedSeq
  <2> QED
    BY <2>1 DEF Kept
<1>9. \A i \in DOMAIN c : c[i] = [run |-> run, seq |-> seq + 1 - Len(c) + i]
  <2> SUFFICES ASSUME NEW i \in DOMAIN c PROVE c[i] = [run |-> run, seq |-> seq + 1 - Len(c) + i]
    OBVIOUS
  <2>1. CASE i = Len(c)
    <3>1. seq + 1 - Len(c) + i = seq + 1
      BY <1>7, <1>8, <2>1
    <3> QED
      BY <1>8, <2>1, <3>1
  <2>2. CASE i # Len(c)
    <3> DEFINE k == i + Len(events) + 1 - Len(c)
    <3>1. i \in 1 .. Len(c) - 1
      BY <1>8, <2>2
    <3>2. k \in DOMAIN events /\ c[i] = events[k]
      BY <1>8, <3>1
    <3>3. seq - Len(events) + k = seq + 1 - Len(c) + i
      BY <1>7, <1>8
    <3> HIDE DEF k
    <3> QED
      BY <1>7, <3>2, <3>3
  <2> QED
    BY <2>1, <2>2
<1>10. Buffered'
  BY <1>2, <1>7, <1>8, <1>9 DEF Buffered
<1>11. ASSUME NEW i \in DOMAIN c PROVE c[i] \in ToSet(events) \/ c[i].seq = seq + 1
  <2>1. CASE i = Len(c)
    BY <1>8, <2>1
  <2>2. CASE i # Len(c)
    <3>1. i \in 1 .. Len(c) - 1
      BY <1>8, <2>2
    <3> QED
      BY <1>8, <3>1 DEF ToSet
  <2> QED
    BY <2>1, <2>2
<1> QED
  BY <1>2, <1>5, <1>10, <1>11 DEF ToSet

(* What a step of another part does to the buffer, as the page sees it.    *)
BufferMoves ==
  \/ /\ run' = run /\ seq <= seq'
     /\ \A e \in ToSet(events') : e \in ToSet(events) \/ e.seq > seq
  \/ run < run' /\ events' = <<>>

LEMMA ServerSteps ==
  ASSUME TypeOK, Budget, ingest \/ clearEvents \/ ClearElsewhere \/ Restart
  PROVE  /\ ProxyTyped' /\ Budget' /\ Buffered' /\ run' \in 0 .. MaxRestarts
         /\ BufferMoves /\ UNCHANGED <<poll, log, renderedSeq>>
         /\ clearing' \in {"idle", "sent", "done"}
<1>1. /\ ProxyTyped /\ Buffered /\ run \in 0 .. MaxRestarts /\ clearing \in {"idle", "sent", "done"}
  BY NaturalTypes DEF TypeOK
<1>2. CASE ingest
  <2>1. /\ posts > 0 /\ posts' = posts - 1 /\ exchange' = exchange /\ run' = run /\ add
        /\ UNCHANGED page
    BY <1>2 DEF ingest
  <2>2. /\ ProxyTyped' /\ Budget' /\ Buffered' /\ seq' = seq + 1
        /\ \A e \in ToSet(events') : e \in ToSet(events) \/ e.seq = seq'
    BY <2>1, Added
  <2>3. seq \in Nat
    BY <1>1 DEF Buffered
  <2> QED
    BY <1>1, <2>1, <2>2, <2>3 DEF BufferMoves, page
<1>3. ASSUME UNCHANGED <<exchange, posts>>, events' = <<>>, seq' \in Nat, seq' <= seq
      PROVE  ProxyTyped' /\ Budget' /\ Buffered'
  <2>1. Started' = Started /\ Ended' = Ended
    BY <1>3 DEF Started, Ended
  <2>2. Cardinality(Started) \in Nat /\ Cardinality(Ended) \in Nat
    <3>1. Started \in SUBSET Exchanges /\ Ended \in SUBSET Exchanges
      BY DEF Started, Ended
    <3> QED
      BY <3>1, Counted
  <2>3. Len(events') = 0 /\ events' \in Seq(Event) /\ DOMAIN events' = {}
    BY <1>3
  <2> QED
    BY <1>1, <1>3, <2>1, <2>2, <2>3, CapAssumption DEF ProxyTyped, Budget, Buffered
<1>4. events' = <<>> => ToSet(events') = {}
  BY DEF ToSet
<1>5. CASE clearEvents \/ ClearElsewhere
  <2>1. /\ UNCHANGED <<exchange, posts>> /\ events' = <<>> /\ seq' = seq /\ run' = run
        /\ UNCHANGED <<poll, log, renderedSeq>>
        /\ clearing' \in {clearing, "done"}
    BY <1>5 DEF clearEvents, ClearElsewhere, clear, proxy, page
  <2>2. seq \in Nat
    BY <1>1 DEF Buffered
  <2> QED
    BY <1>1, <1>3, <1>4, <2>1, <2>2 DEF BufferMoves
<1>6. CASE Restart
  <2>1. /\ UNCHANGED <<exchange, posts>> /\ events' = <<>> /\ seq' = 0 /\ run' = run + 1
        /\ UNCHANGED page /\ run < MaxRestarts
    BY <1>6 DEF Restart, proxy
  <2>2. seq \in Nat
    BY <1>1 DEF Buffered
  <2>3. run' \in 0 .. MaxRestarts /\ run < run'
    BY <1>1, <2>1, MaxRestartsAssumption
  <2> QED
    BY <1>1, <1>3, <2>1, <2>2, <2>3 DEF BufferMoves, page
<1> QED
  BY <1>2, <1>5, <1>6

-------------------------------------------------------------------------------
(* What the page shows, and what is on its way to it. *)

PageFits == /\ LogInOrder /\ BufferedOrShown /\ Rendered
            /\ \A p \in Polls : AnswerFits(poll[p].answer)

(* Only the buffer moves: what the page knows stays true.                  *)
LEMMA BufferStep ==
  ASSUME TypeOK, PageFits, BufferMoves, UNCHANGED <<poll, log, renderedSeq>>,
         seq' \in Nat, run' \in Nat, events' \in Seq(Event)
  PROVE  PageFits'
<1>1. /\ run \in Nat /\ seq \in Nat /\ renderedSeq \in Nat /\ log \in Seq(Event)
      /\ \A e \in Event : e.run \in Nat /\ e.seq \in Nat
      /\ \A p \in Polls : poll[p].answer \in Seq(Event)
      /\ \A e \in ToSet(events') : e \in Event
  BY NaturalTypes DEF TypeOK, ToSet, Buffered
<1>2. LogInOrder /\ BufferedOrShown /\ Rendered
  BY DEF PageFits
<1>3. LogInOrder'
  BY <1>2 DEF LogInOrder
<1>4. CASE /\ run' = run /\ seq <= seq'
           /\ \A e \in ToSet(events') : e \in ToSet(events) \/ e.seq > seq
  <2>1. LogIsOfThisRun' = LogIsOfThisRun
    BY <1>4 DEF LogIsOfThisRun
  <2>2. Rendered'
    BY <1>1, <1>2, <1>4, <2>1 DEF Rendered
  <2>3. BufferedOrShown'
    <3> SUFFICES ASSUME LogIsOfThisRun, NEW e \in ToSet(events'), e.seq <= renderedSeq
                 PROVE  e \in ToSet(log)
      BY <2>1 DEF BufferedOrShown
    <3>1. CASE e \in ToSet(events)
      BY <1>2, <3>1 DEF BufferedOrShown
    <3>2. CASE e \notin ToSet(events)
      <4>1. e.seq > seq /\ renderedSeq <= seq
        BY <1>2, <1>4, <3>2 DEF Rendered
      <4> QED
        BY <1>1, <4>1
    <3> QED
      BY <3>1, <3>2
  <2>4. ASSUME NEW p \in Polls PROVE AnswerFits(poll[p].answer)'
    <3> DEFINE a == poll[p].answer
    <3>1. a \in Seq(Event) /\ AnswerFits(a)
      BY <1>1 DEF PageFits
    <3>2. a' = a
      OBVIOUS
    <3>3. a # <<>> => a[Len(a)] \in Event
      BY <3>1
    <3> HIDE DEF a
    <3>4. ASSUME a # <<>>, a[Len(a)].run = run, NEW e \in ToSet(events'), e.seq <= a[Len(a)].seq
          PROVE  e \in ToSet(a)
      <4>1. a[Len(a)].seq <= seq /\ (e \in ToSet(events) => e \in ToSet(a))
        BY <3>1, <3>4 DEF AnswerFits
      <4>2. ~(e.seq > seq)
        BY <1>1, <3>3, <3>4, <4>1
      <4> QED
        BY <1>4, <4>1, <4>2
    <3>5. a # <<>> /\ a[Len(a)].run = run => a[Len(a)].seq <= seq'
      BY <1>1, <1>4, <3>1, <3>3 DEF AnswerFits
    <3>6. AnswerFits(a)'
      BY <1>4, <3>1, <3>2, <3>4, <3>5 DEF AnswerFits
    <3> QED
      BY <3>6 DEF a
  <2> QED
    BY <1>3, <2>2, <2>3, <2>4 DEF PageFits
<1>5. CASE run < run' /\ events' = <<>>
  <2>1. ToSet(events') = {}
    BY <1>5 DEF ToSet
  <2>2. BufferedOrShown'
    BY <2>1 DEF BufferedOrShown
  <2>3. LogIsOfThisRun' => log = <<>>
    <3> SUFFICES ASSUME log # <<>>, LogIsOfThisRun' PROVE FALSE
      OBVIOUS
    <3>1. 1 \in DOMAIN log /\ log[1] \in Event
      BY <1>1
    <3>2. log[1].run = run' /\ log[1].run <= run
      BY <1>2, <3>1 DEF Rendered, LogIsOfThisRun
    <3> QED
      BY <1>1, <1>5, <3>2
  <2>4. \A i \in DOMAIN log : log[i] \in Event
    BY <1>1
  <2>5. Rendered'
    BY <1>1, <1>2, <1>5, <2>3, <2>4 DEF Rendered
  <2>6. ASSUME NEW p \in Polls PROVE AnswerFits(poll[p].answer)'
    <3> DEFINE a == poll[p].answer
    <3>1. /\ \A i, j \in DOMAIN a : i < j => a[i].seq < a[j].seq
          /\ \A i \in DOMAIN a : a[i].run <= run /\ a[i] \in Event
          /\ a # <<>> => Len(a) \in DOMAIN a
      BY <1>1 DEF PageFits, AnswerFits
    <3>2. \A i \in DOMAIN a : a[i].run <= run' /\ a[i].run # run'
      BY <1>1, <1>5, <3>1
    <3> QED
      BY <3>1, <3>2 DEF AnswerFits
  <2> QED
    BY <1>3, <2>2, <2>5, <2>6 DEF PageFits
<1> QED
  BY <1>4, <1>5 DEF BufferMoves

LogFits == LogInOrder /\ BufferedOrShown /\ Rendered

LEMMA Emptied ==
  ASSUME TypeOK, showLogEmpty, UNCHANGED server
  PROVE  LogFits' /\ log' \in Seq(Event) /\ renderedSeq' \in Nat
<1>1. log' = <<>> /\ renderedSeq' = 0 /\ DOMAIN log' = {} /\ ToSet(log') = {}
  BY DEF showLogEmpty, ToSet
<1>2. /\ seq \in Nat /\ seq' = seq /\ events' = events
      /\ \A e \in ToSet(events) : e.seq \in Nat \ {0}
  BY NaturalTypes DEF server, Buffered, ToSet
<1> QED
  BY <1>1, <1>2 DEF LogFits, LogInOrder, BufferedOrShown, Rendered

(* The cards of an answer are put on top.                                  *)
LEMMA Freshened ==
  ASSUME TypeOK, LogFits, UNCHANGED server, NEW a \in Seq(Event), AnswerFits(a), Fresh(a) # {},
         NEW new \in SetToSeqs(Fresh(a)), \A i, j \in DOMAIN new : i < j => Newer(new[i], new[j]),
         log' = new \o log, renderedSeq' = Last(a).seq
  PROVE  LogFits' /\ log' \in Seq(Event) /\ renderedSeq' \in Nat
<1>1. /\ run \in Nat /\ seq \in Nat /\ renderedSeq \in Nat /\ log \in Seq(Event)
      /\ \A e \in Event : e.run \in Nat /\ e.seq \in Nat
      /\ run' = run /\ seq' = seq /\ events' = events
      /\ \A e \in ToSet(events) : e \in Event
  BY NaturalTypes DEF TypeOK, server, Buffered, ToSet
<1>2. Fresh(a) \in SUBSET Event /\ IsFiniteSet(Fresh(a))
  <2>1. ToSet(a) \in SUBSET Event
    BY DEF ToSet
  <2>2. IsFiniteSet(ToSet(a))
    BY FiniteRange
  <2> QED
    BY <2>1, <2>2, FS_Subset DEF Fresh
<1>3. /\ new \in Seq(Fresh(a))
      /\ \A e \in Fresh(a) : \E i \in DOMAIN new : new[i] = e
  BY <1>2, OrdersOf
<1>4. new \in Seq(Event) /\ \A i \in DOMAIN new : new[i] \in Fresh(a)
  BY <1>2, <1>3
<1> DEFINE last == a[Len(a)]
           top == Len(new)
<1>5. /\ last \in Event /\ Len(a) \in DOMAIN a /\ Last(a) = last /\ a # <<>>
      /\ \A i \in DOMAIN a : a[i].seq <= last.seq
  <2>1. a # <<>>
    BY DEF Fresh, ToSet
  <2>2. Len(a) \in DOMAIN a /\ DOMAIN a = 1 .. Len(a) /\ Len(a) \in Nat /\ last \in Event
    BY <2>1
  <2>3. ASSUME NEW i \in DOMAIN a PROVE a[i].seq <= last.seq
    <3>1. i = Len(a) \/ i < Len(a)
      BY <2>2
    <3>2. i < Len(a) => a[i].seq < last.seq
      BY <2>2 DEF AnswerFits
    <3>3. a[i].seq \in Nat /\ last.seq \in Nat
      BY <1>1, <2>2
    <3> QED
      BY <3>1, <3>2, <3>3
  <2> QED
    BY <2>1, <2>2, <2>3 DEF Last
<1>6. \A e \in Fresh(a) : e \in ToSet(a) /\ e.seq > renderedSeq /\ e.seq <= last.seq /\ e.run <= run
  BY <1>5 DEF Fresh, ToSet, AnswerFits
<1>7. last \in Fresh(a)
  <2>1. PICK e \in Fresh(a) : TRUE
    OBVIOUS
  <2>2. last.seq > renderedSeq
    BY <1>1, <1>2, <1>5, <1>6, <2>1
  <2> QED
    BY <1>5, <2>2 DEF Fresh, ToSet
<1>8. /\ log' \in Seq(Event) /\ top \in Nat /\ DOMAIN new = 1 .. top /\ DOMAIN log' = 1 .. top + Len(log)
      /\ Len(log) \in Nat /\ DOMAIN log = 1 .. Len(log)
      /\ \A i \in DOMAIN new : i \in DOMAIN log' /\ log'[i] = new[i]
      /\ \A i \in DOMAIN log : i + top \in DOMAIN log' /\ log'[i + top] = log[i]
      /\ \A i \in DOMAIN log' : \/ i \in DOMAIN new /\ log'[i] = new[i]
                                \/ i - top \in DOMAIN log /\ i > top /\ log'[i] = log[i - top]
  BY <1>1, <1>4
<1> HIDE DEF last, top
<1>9. \A i \in DOMAIN new : log'[i].seq > renderedSeq /\ log'[i].seq <= last.seq /\ log'[i].run <= run
  BY <1>4, <1>6, <1>8
<1>10. \A i \in DOMAIN log' : i \notin DOMAIN new => log'[i].seq <= renderedSeq /\ log'[i].run <= run
  BY <1>8 DEF LogFits, Rendered
<1>11. \A i \in DOMAIN log' : log'[i].seq \in Nat
  BY <1>1, <1>8
<1>12. LogInOrder'
  <2> SUFFICES ASSUME NEW i \in DOMAIN log', NEW j \in DOMAIN log', i < j
               PROVE  log'[i].seq > log'[j].seq
    BY DEF LogInOrder, Newer
  <2>1. CASE j \in DOMAIN new
    <3>1. i \in DOMAIN new
      BY <1>8, <2>1
    <3> QED
      BY <1>8, <2>1, <3>1 DEF Newer
  <2>2. CASE i \in DOMAIN new /\ j \notin DOMAIN new
    BY <1>1, <1>9, <1>10, <1>11, <2>2
  <2>3. CASE i \notin DOMAIN new
    <3>1. j \notin DOMAIN new
      BY <1>8, <2>3
    <3>2. /\ i - top \in DOMAIN log /\ log'[i] = log[i - top]
          /\ j - top \in DOMAIN log /\ log'[j] = log[j - top]
      BY <1>8, <2>3, <3>1
    <3>3. i - top < j - top
      BY <1>8
    <3> QED
      BY <3>2, <3>3 DEF LogFits, LogInOrder, Newer
  <2> QED
    BY <2>1, <2>2, <2>3
<1>13. renderedSeq' = last.seq /\ last.seq \in Nat /\ last.seq > renderedSeq
  BY <1>1, <1>5, <1>6, <1>7
<1>14. ASSUME LogIsOfThisRun' PROVE LogIsOfThisRun /\ last.run = run
  <2>1. \A i \in DOMAIN log' : log'[i].run = run
    BY <1>1, <1>14 DEF LogIsOfThisRun
  <2>2. PICK i \in DOMAIN new : new[i] = last
    BY <1>3, <1>7
  <2>3. last.run = run
    BY <1>8, <2>1, <2>2
  <2>4. ASSUME NEW k \in DOMAIN log PROVE log[k].run = run
    <3>1. k + top \in DOMAIN log' /\ log'[k + top] = log[k]
      BY <1>8
    <3> QED
      BY <2>1, <3>1
  <2> QED
    BY <2>3, <2>4 DEF LogIsOfThisRun
<1>15. Rendered'
  <2>1. \A i \in DOMAIN log' : log'[i].seq <= last.seq /\ log'[i].run <= run
    BY <1>1, <1>9, <1>10, <1>11, <1>13
  <2>2. log' # <<>>
    <3>1. PICK i \in DOMAIN new : new[i] = last
      BY <1>3, <1>7
    <3> QED
      BY <1>8, <3>1
  <2>3. LogIsOfThisRun' => last.seq <= seq
    BY <1>5, <1>14 DEF AnswerFits, last
  <2> QED
    BY <1>1, <1>13, <2>1, <2>2, <2>3 DEF Rendered
<1>16. BufferedOrShown'
  <2> SUFFICES ASSUME LogIsOfThisRun', NEW e \in ToSet(events), e.seq <= last.seq
               PROVE  e \in ToSet(log')
    BY <1>1, <1>13 DEF BufferedOrShown
  <2>1. e \in ToSet(a)
    BY <1>5, <1>14 DEF AnswerFits, last
  <2>2. CASE e.seq > renderedSeq
    <3>1. e \in Fresh(a)
      BY <2>1, <2>2 DEF Fresh
    <3>2. PICK k \in DOMAIN new : new[k] = e
      BY <1>3, <3>1
    <3>3. k \in DOMAIN log' /\ log'[k] = e
      BY <1>8, <3>2
    <3> QED
      BY <3>3 DEF ToSet
  <2>3. CASE ~(e.seq > renderedSeq)
    <3>1. e \in ToSet(log)
      BY <1>1, <1>14, <2>3 DEF LogFits, BufferedOrShown
    <3>2. PICK k \in DOMAIN log : log[k] = e
      BY <3>1 DEF ToSet
    <3>3. k + top \in DOMAIN log' /\ log'[k + top] = e
      BY <1>8, <3>2
    <3> QED
      BY <3>3 DEF ToSet
  <2> QED
    BY <2>2, <2>3
<1> QED
  BY <1>8, <1>12, <1>13, <1>15, <1>16 DEF LogFits

PollOf == [at : {"idle", "asked", "answered"}, answer : Seq(Event)]

(* A poll begins, is answered, fails or ends.                              *)
LEMMA PollMoves ==
  ASSUME TypeOK, \A s \in Polls : AnswerFits(poll[s].answer), UNCHANGED server,
         NEW p \in Polls, NEW n \in PollOf, poll' = [poll EXCEPT ![p] = n],
         n.answer \in {poll[p].answer, events, <<>>}
  PROVE  poll' \in [Polls -> PollOf] /\ \A s \in Polls : AnswerFits(poll[s].answer)'
<1>1. poll \in [Polls -> PollOf] /\ Buffered /\ run \in Nat
  BY NaturalTypes DEF TypeOK, PollOf
<1>2. run' = run /\ seq' = seq /\ events' = events
  BY DEF server
<1>3. AnswerFits(events)
  <2>1. /\ events \in Seq(Event) /\ Len(events) \in Nat /\ seq \in Nat
        /\ \A i \in DOMAIN events : events[i].run = run /\ events[i].seq = seq - Len(events) + i
    BY <1>1 DEF Buffered
  <2>2. events # <<>> => Len(events) \in DOMAIN events
    BY <2>1
  <2>3. \A i, j \in DOMAIN events : i < j => events[i].seq < events[j].seq
    BY <2>1
  <2>4. events # <<>> => events[Len(events)].seq <= seq
    BY <2>1, <2>2
  <2>5. \A i \in DOMAIN events : events[i].run <= run
    BY <1>1, <2>1
  <2> QED
    BY <2>3, <2>4, <2>5 DEF AnswerFits
<1>4. AnswerFits(<<>>)
  BY DEF AnswerFits
<1>5. AnswerFits(n.answer)
  BY <1>3, <1>4
<1>6. \A s \in Polls : poll'[s].answer = IF s = p THEN n.answer ELSE poll[s].answer
  BY <1>1
<1>7. ASSUME NEW s \in Polls PROVE AnswerFits(poll[s].answer)'
  <2> DEFINE a == poll'[s].answer
  <2>1. AnswerFits(a)
    BY <1>5, <1>6
  <2> QED
    BY <1>2, <2>1 DEF AnswerFits
<1> QED
  BY <1>1, <1>7

LEMMA UpdateKeeps ==
  ASSUME TypeOK, LogFits, UNCHANGED server, NEW a \in Seq(Event), AnswerFits(a), updateLog(a)
  PROVE  LogFits' /\ log' \in Seq(Event) /\ renderedSeq' \in Nat
<1>1. CASE showLogEmpty
  BY <1>1, Emptied
<1>2. CASE Fresh(a) # {} /\ ~showLogEmpty
  <2>1. PICK new \in SetToSeqs(Fresh(a)) :
          /\ \A i, j \in DOMAIN new : i < j => Newer(new[i], new[j])
          /\ log' = new \o log
    BY <1>2 DEF updateLog
  <2>2. renderedSeq' = Last(a).seq
    BY <1>2 DEF updateLog
  <2> QED
    BY <1>2, <2>1, <2>2, Freshened
<1>3. CASE UNCHANGED <<log, renderedSeq>>
  BY <1>3 DEF server, LogFits, LogInOrder, BufferedOrShown, Rendered, LogIsOfThisRun, TypeOK
<1> QED
  BY <1>1, <1>2, <1>3 DEF updateLog

PageTyped == /\ poll \in [Polls -> PollOf] /\ clearing \in {"idle", "sent", "done"}
             /\ log \in Seq(Event) /\ renderedSeq \in Nat

LEMMA PageSteps ==
  ASSUME IInv,
         \/ \E p \in Polls : StartPoll(p) \/ listEvents(p) \/ Render(p) \/ PollError(p)
         \/ ClickClear \/ AfterClear
  PROVE  UNCHANGED <<proxy, server>> /\ PageTyped' /\ PageFits'
<1> /\ TypeOK /\ PageTyped /\ PageFits /\ LogFits /\ events \in Seq(Event)
    /\ \A s \in Polls : AnswerFits(poll[s].answer)
  BY DEF IInv, TypeOK, PageTyped, PollOf, PageFits, LogFits
<1>1. ASSUME UNCHANGED <<server, log, renderedSeq>>
      PROVE  LogFits' /\ log' \in Seq(Event) /\ renderedSeq' \in Nat
  BY <1>1 DEF server, LogFits, LogInOrder, BufferedOrShown, Rendered, LogIsOfThisRun, PageTyped
<1>2. ASSUME NEW p \in Polls, StartPoll(p) \/ listEvents(p) \/ PollError(p)
      PROVE  UNCHANGED <<proxy, server>> /\ PageTyped' /\ PageFits'
  <2>1. UNCHANGED <<proxy, server, clearing, log, renderedSeq>>
    BY <1>2 DEF StartPoll, listEvents, PollError
  <2>2. UNCHANGED <<server, log, renderedSeq>>
    BY <2>1
  <2>3. \E n \in PollOf : /\ poll' = [poll EXCEPT ![p] = n]
                          /\ n.answer \in {poll[p].answer, events, <<>>}
    <3>1. CASE StartPoll(p)
      <4> DEFINE n == [poll[p] EXCEPT !.at = "asked"]
      <4>1. n \in PollOf /\ n.answer = poll[p].answer
        BY DEF PageTyped, PollOf
      <4>2. poll' = [poll EXCEPT ![p] = n]
        BY <3>1 DEF StartPoll
      <4> HIDE DEF n
      <4> QED
        BY <4>1, <4>2
    <3>2. CASE listEvents(p)
      <4> DEFINE n == [at |-> "answered", answer |-> events]
      <4>1. n \in PollOf /\ n.answer = events
        BY DEF PollOf
      <4>2. poll' = [poll EXCEPT ![p] = n]
        BY <3>2 DEF listEvents
      <4> HIDE DEF n
      <4> QED
        BY <4>1, <4>2
    <3>3. CASE PollError(p)
      <4>1. NoPoll \in PollOf /\ NoPoll.answer = <<>>
        BY DEF NoPoll, PollOf
      <4> QED
        BY <3>3, <4>1 DEF PollError
    <3> QED
      BY <1>2, <3>1, <3>2, <3>3
  <2>4. poll' \in [Polls -> PollOf] /\ \A s \in Polls : AnswerFits(poll[s].answer)'
    BY <2>2, <2>3, PollMoves
  <2> QED
    BY <1>1, <2>1, <2>2, <2>4 DEF PageTyped, PageFits, LogFits
<1>3. ASSUME NEW p \in Polls, Render(p)
      PROVE  UNCHANGED <<proxy, server>> /\ PageTyped' /\ PageFits'
  <2>1. /\ UNCHANGED <<proxy, server, clearing>> /\ updateLog(poll[p].answer)
        /\ poll' = [poll EXCEPT ![p] = NoPoll]
    BY <1>3 DEF Render
  <2>2. NoPoll \in PollOf /\ NoPoll.answer = <<>>
    BY DEF NoPoll, PollOf
  <2>3. poll' \in [Polls -> PollOf] /\ \A s \in Polls : AnswerFits(poll[s].answer)'
    BY <2>1, <2>2, PollMoves
  <2>4. poll[p].answer \in Seq(Event)
    BY DEF PageTyped, PollOf
  <2>5. LogFits' /\ log' \in Seq(Event) /\ renderedSeq' \in Nat
    BY <2>1, <2>4, UpdateKeeps
  <2> QED
    BY <2>1, <2>3, <2>5 DEF PageTyped, PageFits, LogFits
<1>4. ASSUME UNCHANGED <<server, poll>> PROVE \A s \in Polls : AnswerFits(poll[s].answer)'
  BY <1>4 DEF server, AnswerFits
<1>5. CASE ClickClear
  BY <1>1, <1>4, <1>5 DEF ClickClear, PageTyped, PageFits, LogFits
<1>6. CASE AfterClear
  <2>1. UNCHANGED <<proxy, server, poll>> /\ clearing' = "idle" /\ showLogEmpty
    BY <1>6 DEF AfterClear
  <2>2. LogFits' /\ log' \in Seq(Event) /\ renderedSeq' \in Nat
    BY <2>1, Emptied
  <2> QED
    BY <1>4, <2>1, <2>2 DEF PageTyped, PageFits, LogFits
<1> QED
  BY <1>2, <1>3, <1>5, <1>6

-------------------------------------------------------------------------------
(* The theorems. *)

Parts == ProxyTyped /\ Budget /\ Buffered /\ run \in 0 .. MaxRestarts /\ PageTyped /\ PageFits

LEMMA PartsAreIInv == Parts => IInv
<1> SUFFICES ASSUME Parts PROVE IInv
  OBVIOUS
<1>1. posts \in 0 .. MaxEvents /\ seq \in 0 .. MaxEvents
  BY BudgetBounds DEF Parts, ProxyTyped, Buffered
<1> QED
  BY <1>1 DEF Parts, IInv, TypeOK, ProxyTyped, Buffered, PageTyped, PageFits, PollOf

LEMMA Invariance == Spec => []IInv
<1>1. Init => IInv
  <2> SUFFICES ASSUME Init PROVE IInv
    OBVIOUS
  <2>1. ProxyTyped /\ run \in 0 .. MaxRestarts
    BY MaxRestartsAssumption DEF Init, ProxyTyped
  <2>2. Budget
    <3>1. Started \in SUBSET Exchanges /\ Ended \in SUBSET Exchanges
      BY DEF Started, Ended
    <3> QED
      BY <3>1, Counted DEF Init, Budget
  <2>3. Buffered
    <3>1. events = <<>> /\ seq = 0
      BY DEF Init
    <3> QED
      BY <3>1, CapAssumption DEF Buffered
  <2>4. PageTyped
    <3>1. NoPoll \in PollOf
      BY DEF NoPoll, PollOf
    <3> QED
      BY <3>1 DEF Init, PageTyped
  <2>5. PageFits
    <3>1. events = <<>> /\ log = <<>> /\ renderedSeq = 0 /\ seq = 0 /\ ToSet(events) = {}
      BY DEF Init, ToSet
    <3>2. \A p \in Polls : poll[p].answer = <<>>
      BY DEF Init, NoPoll
    <3>3. AnswerFits(<<>>)
      BY DEF AnswerFits
    <3> QED
      BY <3>1, <3>2, <3>3 DEF PageFits, LogInOrder, BufferedOrShown, Rendered
  <2> QED
    BY <2>1, <2>2, <2>3, <2>4, <2>5, PartsAreIInv DEF Parts
<1>2. IInv /\ [Next]_vars => Parts'
  <2> SUFFICES ASSUME IInv, [Next]_vars
               PROVE  /\ ProxyTyped' /\ Budget' /\ Buffered' /\ run' \in 0 .. MaxRestarts
                      /\ PageTyped' /\ PageFits'
    BY DEF Parts
  <2>1. /\ TypeOK /\ ProxyTyped /\ Budget /\ Buffered /\ run \in 0 .. MaxRestarts /\ PageFits
        /\ PageTyped /\ run \in Nat /\ seq \in Nat
    BY NaturalTypes DEF IInv, PageFits, Buffered, TypeOK, PageTyped, PollOf
  <2>2. UNCHANGED server => Buffered' /\ run' \in 0 .. MaxRestarts
    BY <2>1 DEF server, Buffered
  <2>3. UNCHANGED server => BufferMoves
    BY <2>1 DEF server, BufferMoves, ToSet
  <2>4. UNCHANGED <<proxy, server>> => ProxyTyped' /\ Budget'
    BY <2>1 DEF proxy, server, ProxyTyped, Budget, Started, Ended
  <2>5. UNCHANGED page => UNCHANGED <<poll, log, renderedSeq>> /\ PageTyped'
    BY <2>1 DEF page, PageTyped
  <2>6. ASSUME UNCHANGED <<poll, log, renderedSeq>>, BufferMoves, Buffered', run' \in 0 .. MaxRestarts
        PROVE  PageFits'
    <3>1. seq' \in Nat /\ events' \in Seq(Event) /\ run' \in Nat
      BY <2>6 DEF Buffered
    <3> QED
      BY <2>1, <2>6, <3>1, BufferStep
  <2>7. CASE UNCHANGED vars
    BY <2>2, <2>3, <2>4, <2>5, <2>6, <2>7 DEF vars
  <2>8. CASE \/ \E x \in Exchanges : CaptureRequest(x) \/ CaptureResponse(x) \/ UpstreamError(x)
             \/ PostError
    <3>1. ProxyTyped' /\ Budget' /\ UNCHANGED server /\ UNCHANGED page
      BY <2>1, <2>8, ProxySteps
    <3> QED
      BY <2>2, <2>3, <2>5, <2>6, <3>1
  <2>9. CASE ingest \/ clearEvents \/ ClearElsewhere \/ Restart
    <3>1. /\ ProxyTyped' /\ Budget' /\ Buffered' /\ run' \in 0 .. MaxRestarts
          /\ BufferMoves /\ UNCHANGED <<poll, log, renderedSeq>>
          /\ clearing' \in {"idle", "sent", "done"}
      BY <2>1, <2>9, ServerSteps
    <3> QED
      BY <2>1, <2>6, <3>1 DEF PageTyped
  <2>10. CASE \/ \E p \in Polls : StartPoll(p) \/ listEvents(p) \/ Render(p) \/ PollError(p)
              \/ ClickClear \/ AfterClear
    <3>1. UNCHANGED <<proxy, server>> /\ PageTyped' /\ PageFits'
      BY <2>10, PageSteps
    <3> QED
      BY <2>2, <2>4, <3>1
  <2> QED
    BY <2>7, <2>8, <2>9, <2>10 DEF Next
<1> QED
  BY <1>1, <1>2, PartsAreIInv, PTL DEF Spec

(* The buffer never holds more than Cap events, and they are the last that *)
(* were numbered, without a gap; and no more events are on their way than  *)
(* the proxy captured (events.store.ts:28-35, edge-proxy.js:115-161).      *)
THEOREM TypeCorrect == Spec => []TypeOK
BY Invariance, PTL DEF IInv

(* However the answers to polls overtake each other, and whatever is       *)
(* cleared or restarted between, no event has two cards and none is above  *)
(* one with a greater seq (demo.page.ts:476-490).                          *)
THEOREM TheLogIsInOrder == Spec => []LogInOrder
BY Invariance, PTL DEF IInv

(* While the log shows this run of the server only, what is in the buffer  *)
(* and not above renderedSeq has its card: an older answer that comes late *)
(* skips nothing (demo.page.ts:485-489).                                   *)
THEOREM NothingIsSkipped == Spec => []BufferedOrShown
BY Invariance, PTL DEF IInv
===============================================================================
