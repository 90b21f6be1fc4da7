-------------------------------- MODULE DemoFeed --------------------------------
(***************************************************************************)
(* The activity log of the demo: the edge proxy posts an event for each    *)
(* request it captures and each response, EventsStore keeps the last of    *)
(* them, and the page /demo polls for them and adds a card for each new    *)
(* one.                                                                    *)
(*                                                                         *)
(* The proxy does not wait for its posts, nor the page's timer for the     *)
(* poll before: posts arrive in any order or not at all, and answers to    *)
(* polls are rendered in any order.  An event is known by the process      *)
(* (run) of the server that numbered it and by its seq; what it says is    *)
(* left out.  The log is the list of cards from the top of the page, and   *)
(* is empty when the page shows its placeholder (log-empty).  A page that  *)
(* is opened later is one whose first poll comes later.                    *)
(***************************************************************************)
EXTENDS Naturals, Sequences, FiniteSets, SequencesExt

CONSTANTS Exchanges,    \* exchanges of Okta that go through the proxy
          Polls,        \* polls of the page in progress at one time
          Cap,          \* events kept; 300 in the code
          MaxRestarts   \* bound: how often the server restarts

ASSUME ExchangesAssumption == IsFiniteSet(Exchanges)
ASSUME CapAssumption == Cap \in Nat \ {0}
ASSUME MaxRestartsAssumption == MaxRestarts \in Nat

VARIABLES exchange,     \* the proxy: where each exchange is
          posts,        \* how many events are sent and not received
          run,          \* the server: how often it has restarted
          seq, events,  \* EventsStore
          poll,         \* the page: polls in progress
          clearing,     \* the click on "clear" in progress
          log,          \* cards shown, the newest on top
          renderedSeq

proxy  == <<exchange, posts>>
server == <<run, seq, events>>
page   == <<poll, clearing, log, renderedSeq>>
vars   == <<proxy, server, page>>

MaxEvents == 2 * Cardinality(Exchanges)
Event == [run : 0 .. MaxRestarts, seq : 1 .. MaxEvents]
NoPoll == [at |-> "idle", answer |-> <<>>]

-------------------------------------------------------------------------------
(* The edge proxy. *)

emit == posts' = posts + 1

Move(x, from, to) == exchange[x] = from /\ exchange' = [exchange EXCEPT ![x] = to]

(* The request has arrived: its event is posted and it is sent on. *)
CaptureRequest(x) ==
  /\ Move(x, "idle", "forwarded")
  /\ emit
  /\ UNCHANGED <<server, page>>

(* The whole response has arrived: it is posted and handed to Okta. *)
CaptureResponse(x) ==
  /\ Move(x, "forwarded", "ended")
  /\ emit
  /\ UNCHANGED <<server, page>>

(* The service cannot be reached, and Okta gets a 502; or the connection   *)
(* breaks within the response, "end" never comes, and Okta gets no answer. *)
(* In neither case is there an event.                                      *)
UpstreamError(x) ==
  /\ Move(x, "forwarded", "ended")
  /\ UNCHANGED <<posts, server, page>>

(* A post fails, and emit ignores it. *)
PostError ==
  /\ posts > 0
  /\ posts' = posts - 1
  /\ UNCHANGED <<exchange, server, page>>

-------------------------------------------------------------------------------
(* The server. *)

(* Variant: one event too many is kept.                                    *)
CappedLate(list) ==
  SubSeq(list, IF Len(list) > Cap + 1 THEN Len(list) - Cap ELSE 1, Len(list))

(* push, and splice of what is over the cap. *)
Capped(list) == SubSeq(list, IF Len(list) > Cap THEN Len(list) - Cap + 1 ELSE 1, Len(list))

add ==
  /\ seq' = seq + 1
  /\ events' = Capped(Append(events, [run |-> run, seq |-> seq']))

ingest ==
  /\ posts > 0
  /\ posts' = posts - 1
  /\ add
  /\ UNCHANGED <<exchange, run, page>>

(* GET /demo/api/events: the answer is the list of this moment. *)
listEvents(p) ==
  /\ poll[p].at = "asked"
  /\ poll' = [poll EXCEPT ![p] = [at |-> "answered", answer |-> events]]
  /\ UNCHANGED <<proxy, server, clearing, log, renderedSeq>>

(* DELETE /demo/api/events: seq goes on. *)
clear == events' = <<>> /\ UNCHANGED <<run, seq>>

clearEvents ==
  /\ clearing = "sent"
  /\ clearing' = "done"
  /\ clear
  /\ UNCHANGED <<proxy, poll, log, renderedSeq>>

(* The same, asked for by another page. *)
ClearElsewhere ==
  /\ events # <<>>
  /\ clear
  /\ UNCHANGED <<proxy, page>>

(* Nothing of EventsStore is kept on disk. *)
Restart ==
  /\ run < MaxRestarts
  /\ run' = run + 1
  /\ seq' = 0
  /\ events' = <<>>
  /\ UNCHANGED <<proxy, page>>

-------------------------------------------------------------------------------
(* The page. *)

showLogEmptyKeepingSeq ==  \* variant: renderedSeq is not reset
  log' = <<>> /\ UNCHANGED renderedSeq

showLogEmpty == log' = <<>> /\ renderedSeq' = 0

(* Variants: the last card once more; a look at the length of the list.    *)
FreshOrLast(answer) == {e \in ToSet(answer) : e.seq >= renderedSeq}

FreshIfLonger(answer) ==
  {e \in ToSet(answer) : e.seq > renderedSeq /\ Len(answer) > Len(log)}

Fresh(answer) == {e \in ToSet(answer) : e.seq > renderedSeq}

Newer(e, f) == e.seq > f.seq

updateLog(answer) ==
  \/ /\ answer = <<>> /\ log # <<>>
     /\ showLogEmpty
  \/ /\ Fresh(answer) # {}
     /\ \E new \in SetToSeqs(Fresh(answer)) :
          /\ \A i, j \in DOMAIN new : i < j => Newer(new[i], new[j])
          /\ log' = new \o log
     /\ renderedSeq' = Last(answer).seq
  \/ /\ Fresh(answer) = {}
     /\ answer # <<>> \/ log = <<>>
     /\ UNCHANGED <<log, renderedSeq>>

(* The timer does not wait for the poll before. *)
StartPoll(p) ==
  /\ poll[p].at = "idle"
  /\ poll' = [poll EXCEPT ![p].at = "asked"]
  /\ UNCHANGED <<proxy, server, clearing, log, renderedSeq>>

(* Both lists of the page have arrived: the events', and the users', which *)
(* the page waits for too.                                                 *)
Render(p) ==
  /\ poll[p].at = "answered"
  /\ updateLog(poll[p].answer)
  /\ poll' = [poll EXCEPT ![p] = NoPoll]
  /\ UNCHANGED <<proxy, server, clearing>>

(* One of the two failed: the page stays as it is. *)
PollError(p) ==
  /\ poll[p].at \in {"asked", "answered"}
  /\ poll' = [poll EXCEPT ![p] = NoPoll]
  /\ UNCHANGED <<proxy, server, clearing, log, renderedSeq>>

ClickClear ==
  /\ clearing = "idle"
  /\ clearing' = "sent"
  /\ UNCHANGED <<proxy, server, poll, log, renderedSeq>>

(* The page empties its log whether or not the server has cleared its own. *)
AfterClear ==
  /\ clearing \in {"sent", "done"}
  /\ clearing' = "idle"
  /\ showLogEmpty
  /\ UNCHANGED <<proxy, server, poll>>

-------------------------------------------------------------------------------
Init ==
  /\ exchange = [x \in Exchanges |-> "idle"]
  /\ posts = 0
  /\ run = 0
  /\ seq = 0
  /\ events = <<>>
  /\ poll = [p \in Polls |-> NoPoll]
  /\ clearing = "idle"
  /\ log = <<>>
  /\ renderedSeq = 0

Next ==
  \/ \E x \in Exchanges : CaptureRequest(x) \/ CaptureResponse(x) \/ UpstreamError(x)
  \/ PostError \/ ingest
  \/ clearEvents \/ ClearElsewhere \/ Restart
  \/ \E p \in Polls : StartPoll(p) \/ listEvents(p) \/ Render(p) \/ PollError(p)
  \/ ClickClear \/ AfterClear

Spec == Init /\ [][Next]_vars

(* The timer ticks for as long as the page is open, and a poll may fail    *)
(* any number of times, but not every time (SF).                           *)
Fairness ==
  \A p \in Polls : /\ WF_vars(StartPoll(p))
                   /\ SF_vars(listEvents(p))
                   /\ SF_vars(Render(p))

FairSpec == Spec /\ Fairness

-------------------------------------------------------------------------------
(* Properties. *)

(* The buffer is the last Cap numbers given out, or fewer, without a gap:  *)
(* what is dropped is always the oldest.                                   *)
TypeOK ==
  /\ exchange \in [Exchanges -> {"idle", "forwarded", "ended"}]
  /\ posts \in 0 .. MaxEvents
  /\ run \in 0 .. MaxRestarts
  /\ seq \in 0 .. MaxEvents
  /\ events \in Seq(Event) /\ Len(events) <= Cap
  /\ \A i \in DOMAIN events : events[i] = [run |-> run, seq |-> seq - Len(events) + i]
  /\ poll \in [Polls -> [at : {"idle", "asked", "answered"}, answer : Seq(Event)]]
  /\ clearing \in {"idle", "sent", "done"}
  /\ log \in Seq(Event)
  /\ renderedSeq \in Nat

(* However polls overlap, and whatever is cleared or restarted between     *)
(* them, no event has two cards and none is above one with a greater seq   *)
(* (updateLog: "only insert new cards").                                   *)
LogInOrder == \A i, j \in DOMAIN log : i < j => Newer(log[i], log[j])

(* As long as the log shows nothing of an earlier run of the server ...    *)
LogIsOfThisRun == \A i \in DOMAIN log : log[i].run = run

(* ... the page skips nothing: what is in the buffer and not above         *)
(* renderedSeq has its card, so leaving it out of Fresh loses nothing.     *)
BufferedOrShown ==
  LogIsOfThisRun =>
    \A e \in ToSet(events) : e.seq <= renderedSeq => e \in ToSet(log)

(* ... and every event of the buffer is shown at last, unless it is        *)
(* dropped or cleared before.                                              *)
Waiting(e) == e \in ToSet(events) /\ e \notin ToSet(log) /\ LogIsOfThisRun

EventsAreShown ==
  \A n \in 1 .. MaxEvents :
    Waiting([run |-> run, seq |-> n]) ~> ~Waiting([run |-> run, seq |-> n])
===============================================================================
