-------------------------------- MODULE Events --------------------------------
(*****************************************************************************)
(* What the server tells others of a change.  A request that changed         *)
(* something emits one event: the hub keeps it in a ring and sends it to the *)
(* channels of the clients that follow its stream, and the dispatcher's      *)
(* queue takes it for the webhooks.  All of it runs in the request's own     *)
(* goroutine, several requests at a time; a client subscribes, asks for what *)
(* it missed by the id of the last event it saw, reads its channel, and goes *)
(* away at any moment; a few workers take events from the queue and post     *)
(* them, again and again, until they are delivered or written off.           *)
(*****************************************************************************)
EXTENDS Integers, Sequences, FiniteSets, SequencesExt

CONSTANTS
    Follower,         \* followers of the event stream
    MaySee,        \* Visible[c]: the spaces c may see
    Wanted,         \* Wanted[c]: the scopes c asks for, paths; {} for all
    Webhook,           \* configured webhooks, in order: [id, events, space, enabled]
    Topic,          \* what the events are about: [type, space, scope]
    Worker,         \* delivery workers
    RingSize, ChannelSize, QueueSize,   \* capacities: 256, 32 and 256 in the code
    MaxAttempts,    \* attempts of a delivery: 4 in the code
    LetterLimit,    \* lines after which the dead letters are rotated: 8 MiB in the code
    TailLines,      \* lines that the tail of a file holds, which is all that is read: 1 MiB
    MaxEvents,      \* bound: events
    MaxVisits,      \* bound: times a client connects
    MaxMishaps      \* bound: restarts, lists of webhooks that cannot be read, failed writes

ASSUME EventsAssumption ==
    /\ {RingSize, ChannelSize, QueueSize, MaxAttempts, LetterLimit, TailLines} \subseteq Nat \ {0}
    /\ TailLines <= LetterLimit
    /\ {MaxEvents, MaxVisits, MaxMishaps} \subseteq Nat

VARIABLES
    ring,       \* the hub's last events
    stream,     \* stream[c]: stage, visit (its number), channel, last (the last id it has)
    got,        \* got[c]: the events c was sent
    emit,       \* the events so far, and how far the emission of each is
    queue,      \* the dispatcher's queue
    worker,     \* what each worker has in hand: event, webhooks left (places in the list), attempt
    settled,    \* <<event, hook>> pairs that were delivered or written off
    letters,    \* the dead letters: the lines of the current file and of the rotated one, and
                \* whether the current one ends in part of a line
    mishaps,    \* mishaps so far
    owed,       \* history: owed[c], events c should see sooner or later
    buried,     \* history: every delivery written off, in order
    lost,       \* history: the pairs whose line could not be written, or not read any more
    upset       \* history: what happened that a client or a webhook is not made good for

eventVars == <<ring, stream, got, emit, queue, worker, settled, letters, mishaps, owed, buried, lost, upset>>
hubVars == <<ring, stream, got, owed>>
hookVars == <<queue, worker, settled, letters, buried, lost>>

NoWork == [event |-> 0, hooks |-> {}, attempt |-> 0]
Away == [stage |-> "away", visit |-> 0, channel |-> <<>>, last |-> 0]

EventsInit ==
    /\ ring = <<>> /\ stream = [c \in Follower |-> Away] /\ got = [c \in Follower |-> {}]
    /\ emit = <<>> /\ queue = <<>> /\ worker = [w \in Worker |-> NoWork]
    /\ settled = {} /\ letters = [now |-> <<>>, old |-> <<>>, torn |-> FALSE] /\ mishaps = 0
    /\ owed = [c \in Follower |-> {}] /\ buried = <<>> /\ lost = {} /\ upset = {}

(***************************************************************************)
(* Which events a client is sent, and which a webhook is.                  *)
(***************************************************************************)
\* A scope names a space, or a path below one; it takes the events of the space, and those
\* whose own path is below it.
MatchScopes(scopes, e) ==
    \/ scopes = {} \/ \E s \in scopes : \/ s = <<>>
                                        \/ IsPrefix(s, <<e.space>>)
                                        \/ e.scope # <<>> /\ IsPrefix(s, e.scope)
                                        \/ Head(s) = e.space

\* The scopes a client is given: of those it asked for, the ones in a space it may see.
eventScopesFor(c) ==
    IF Wanted[c] = {} THEN {<<v>> : v \in MaySee[c]}
    ELSE IF <<"*">> \in Wanted[c] THEN {<<v>> : v \in MaySee[c]}
    ELSE {s \in Wanted[c] : s # <<>> /\ Head(s) \in MaySee[c]}

Follows(c, i) == MatchScopes(eventScopesFor(c), emit[i].topic)

\* A webhook lists types: <<"file", "write">>, <<"file", "*">>, <<"*">>; none for all.
matchEvent(want, type) ==
    want = {} \/ \E w \in want : \/ w \in {<<"*">>, type}
                                 \/ Len(w) > 1 /\ Last(w) = "*" /\ IsPrefix(Front(w), type)
Takes(h, topic) ==
    h.enabled /\ h.space \in {"", topic.space} /\ matchEvent(h.events, topic.type)

(***************************************************************************)
(* Emission.                                                               *)
(***************************************************************************)
Emit(topic) ==
    /\ Len(emit) < MaxEvents
    /\ emit' = Append(emit, [topic |-> topic, stage |-> "publish", to |-> {}])
    /\ UNCHANGED <<hubVars, hookVars, mishaps, upset>>

Keep(r) == IF Len(r) > RingSize THEN SubSeq(r, Len(r) - RingSize + 1, Len(r)) ELSE r
Registered == {c \in Follower : stream[c].stage # "away"}
Owing(i) ==
    [c \in Follower |-> IF Follows(c, i) /\ (c \in Registered \/ stream[c].last # 0)
                      THEN owed[c] \cup {i} ELSE owed[c]]
Sending == {i \in DOMAIN emit : emit[i].stage = "send" /\ emit[i].to # {}}


\* Mutant for NothingMissed: an event nobody is listening to is not kept.
PublishToListeners(i) ==
    /\ emit[i].stage = "publish"
    /\ ring' = IF Registered = {} THEN ring ELSE Keep(Append(ring, i))
    /\ emit' = [emit EXCEPT ![i].stage = "send",
                            ![i].to = {<<c, stream[c].visit>> : c \in {r \in Registered : Follows(r, i)}}]
    /\ owed' = Owing(i)
    /\ upset' = upset \cup IF Sending # {} THEN {"overlapping"} ELSE {}
    /\ UNCHANGED <<stream, got, hookVars, mishaps>>
\* Under the hub's mutex: into the ring, and a list of who is there.
Publish(i) ==
    /\ emit[i].stage = "publish"
    /\ ring' = Keep(Append(ring, i))
    /\ emit' = [emit EXCEPT ![i].stage = "send",
                            ![i].to = {<<c, stream[c].visit>> : c \in {r \in Registered : Follows(r, i)}}]
    /\ owed' = Owing(i)
    /\ upset' = upset \cup IF Sending # {} THEN {"overlapping"} ELSE {}
    /\ UNCHANGED <<stream, got, hookVars, mishaps>>

\* Without it: to each, unless its channel is full ...
Connected(c, visit) == stream[c].stage # "away" /\ stream[c].visit = visit
Send(i) == \E t \in emit[i].to :
    /\ emit[i].stage = "send" /\ Connected(t[1], t[2])
    /\ emit' = [emit EXCEPT ![i].to = @ \ {t}]
    /\ IF Len(stream[t[1]].channel) < ChannelSize
       THEN /\ stream' = [stream EXCEPT ![t[1]].channel = Append(@, i)]
            /\ UNCHANGED upset
       ELSE /\ upset' = upset \cup {"dropped"}
            /\ UNCHANGED stream
    /\ UNCHANGED <<ring, got, owed, hookVars, mishaps>>

\* ... or closed since: the goroutine panics, and with it the request's handler.
SendOnClosed(i) == \E t \in emit[i].to :
    /\ emit[i].stage = "send" /\ ~Connected(t[1], t[2])
    /\ emit' = [emit EXCEPT ![i].stage = "panicked", ![i].to = {}]
    /\ upset' = upset \cup {"panicked"}
    /\ UNCHANGED <<hubVars, hookVars, mishaps>>

\* Then the webhooks' queue, or nothing when it is full.
Enqueue(i) ==
    /\ emit[i].stage = "send" /\ emit[i].to = {}
    /\ IF Len(queue) < QueueSize
       THEN queue' = Append(queue, i) /\ emit' = [emit EXCEPT ![i].stage = "queued"]
       ELSE emit' = [emit EXCEPT ![i].stage = "shed"] /\ UNCHANGED queue
    /\ UNCHANGED <<hubVars, worker, settled, letters, buried, lost, mishaps, upset>>

(***************************************************************************)
(* Clients.                                                                *)
(***************************************************************************)
Subscribe(c) ==
    /\ stream[c].stage = "away" /\ stream[c].visit < MaxVisits /\ eventScopesFor(c) # {}
    /\ stream' = [stream EXCEPT ![c].stage = "new", ![c].visit = @ + 1, ![c].channel = <<>>]
    /\ UNCHANGED <<ring, got, owed, emit, hookVars, mishaps, upset>>

\* Where in the ring what c follows is after the event with this id: nowhere when the id is not
\* there.
ReplaySince(last, c) ==
    {p \in DOMAIN ring : Follows(c, ring[p]) /\ \E q \in 1 .. p - 1 : ring[q] = last}

ReplayAll(c) ==
    /\ stream[c].stage = "new"
    /\ LET missed == IF stream[c].last = 0 THEN {} ELSE ReplaySince(stream[c].last, c)
       IN /\ got' = [got EXCEPT ![c] = @ \cup {ring[p] : p \in missed}]
          /\ stream' = [stream EXCEPT ![c].stage = "live", ![c].last = IF missed = {} THEN @ ELSE ring[Max(missed)]]
    /\ upset' = upset \cup IF stream[c].last # 0 /\ stream[c].last \notin ToSet(ring)
                           THEN {"unknown"} ELSE {}
    /\ UNCHANGED <<ring, owed, emit, hookVars, mishaps>>

Receive(c) ==
    /\ stream[c].stage = "live" /\ stream[c].channel # <<>>
    /\ LET i == Head(stream[c].channel)
       IN /\ got' = [got EXCEPT ![c] = @ \cup {i}]
          /\ stream' = [stream EXCEPT ![c].channel = Tail(@), ![c].last = i]
    /\ UNCHANGED <<ring, owed, emit, hookVars, mishaps, upset>>

\* It goes away: its channel is closed, with what is in it.  A client that has seen
\* nothing yet has no id to ask from.
Unsubscribe(c) ==
    /\ stream[c].stage # "away"
    /\ stream' = [stream EXCEPT ![c].stage = "away", ![c].channel = <<>>]
    /\ owed' = IF stream[c].last = 0 THEN [owed EXCEPT ![c] = {}] ELSE owed
    /\ UNCHANGED <<ring, got, emit, hookVars, mishaps, upset>>

(***************************************************************************)
(* Webhooks.                                                               *)
(***************************************************************************)
deliverAll(i) ==
    [event |-> i, hooks |-> {k \in DOMAIN Webhook : Takes(Webhook[k], emit[i].topic)}, attempt |-> 1]

\* A worker takes an event; what webhooks there are it asks only then.
TakeEvent(w) ==
    /\ worker[w].hooks = {} /\ queue # <<>>
    /\ queue' = Tail(queue)
    /\ worker' = [worker EXCEPT ![w] = deliverAll(Head(queue))]
    /\ UNCHANGED <<hubVars, emit, settled, letters, buried, lost, mishaps, upset>>

\* The list cannot be read: the event is gone.
TakeUnlisted(w) ==
    /\ worker[w].hooks = {} /\ queue # <<>> /\ mishaps < MaxMishaps
    /\ queue' = Tail(queue) /\ mishaps' = mishaps + 1 /\ upset' = upset \cup {"unlisted"}
    /\ UNCHANGED <<hubVars, emit, worker, settled, letters, buried, lost>>

\* One webhook after the other, in the order of the list.
InWork(w) == worker[w].hooks # {}
Pair(w) == <<worker[w].event, Webhook[Min(worker[w].hooks)].id>>
NextHook(w) == [worker EXCEPT ![w].hooks = @ \ {Min(@)}, ![w].attempt = 1]

postOnce(w) ==
    /\ InWork(w)
    /\ settled' = settled \cup {Pair(w)} /\ worker' = NextHook(w)
    /\ UNCHANGED <<hubVars, emit, queue, letters, buried, lost, mishaps, upset>>
Retry(w) ==
    /\ InWork(w) /\ worker[w].attempt < MaxAttempts
    /\ worker' = [worker EXCEPT ![w].attempt = @ + 1]
    /\ UNCHANGED <<hubVars, emit, queue, settled, letters, buried, lost, mishaps, upset>>


\* Mutant for HooksServed: the full file is emptied, not kept under another name.
appendDeadLetterAnew(pair) ==
    LET now == Append(letters.now, pair)
    IN IF Len(now) > LetterLimit THEN [letters EXCEPT !.now = <<>>] ELSE [letters EXCEPT !.now = now]
\* The file is rotated when it is over its limit; what was rotated before is gone.
appendDeadLetter(pair) ==
    LET now == Append(letters.now, pair)
    IN IF Len(now) > LetterLimit THEN [letters EXCEPT !.now = <<>>, !.old = now] ELSE [letters EXCEPT !.now = now]

\* Of a file only the end is read.
readDeadLetterTail(file) == SubSeq(file, IF Len(file) > TailLines THEN Len(file) - TailLines + 1 ELSE 1, Len(file))
ListDeadLetter(limit) ==
    LET all == readDeadLetterTail(letters.old) \o readDeadLetterTail(letters.now)
    IN IF limit > 0 /\ Len(all) > limit THEN SubSeq(all, Len(all) - limit + 1, Len(all)) ELSE all

\* The last attempt failed: the delivery gets its line ...
LastFailed(w) == InWork(w) /\ worker[w].attempt = MaxAttempts
\* Mutant for HooksDrain: the webhooks after it in the list are not tried any more.
GiveUpTheRest(w) ==
    /\ LastFailed(w) /\ ~letters.torn
    /\ letters' = appendDeadLetter(Pair(w)) /\ buried' = Append(buried, Pair(w))
    /\ settled' = settled \cup {Pair(w)} /\ worker' = [worker EXCEPT ![w] = NoWork]
    /\ UNCHANGED <<hubVars, emit, queue, lost, mishaps, upset>>
GiveUp(w) ==
    /\ LastFailed(w) /\ ~letters.torn
    /\ letters' = appendDeadLetter(Pair(w)) /\ buried' = Append(buried, Pair(w))
    /\ settled' = settled \cup {Pair(w)} /\ worker' = NextHook(w)
    /\ UNCHANGED <<hubVars, emit, queue, lost, mishaps, upset>>
\* ... or cannot be told from the part of a line that it is written behind ...
GiveUpGarbled(w) ==
    /\ LastFailed(w) /\ letters.torn
    /\ letters' = [letters EXCEPT !.torn = FALSE] /\ lost' = lost \cup {Pair(w)}
    /\ worker' = NextHook(w)
    /\ UNCHANGED <<hubVars, emit, queue, settled, buried, mishaps, upset>>
\* ... or the write fails, which nobody is told: with nothing written, or part of the line.
LoseLetter(w) ==
    /\ LastFailed(w) /\ mishaps < MaxMishaps /\ mishaps' = mishaps + 1
    /\ \E torn \in {letters.torn, TRUE} : letters' = [letters EXCEPT !.torn = torn]
    /\ lost' = lost \cup {Pair(w)} /\ worker' = NextHook(w)
    /\ UNCHANGED <<hubVars, emit, queue, settled, buried, upset>>
\* The line is there, but the full file cannot be renamed.
GiveUpUnrotated(w) ==
    /\ LastFailed(w) /\ ~letters.torn /\ mishaps < MaxMishaps /\ mishaps' = mishaps + 1
    /\ letters' = [letters EXCEPT !.now = Append(@, Pair(w))] /\ buried' = Append(buried, Pair(w))
    /\ settled' = settled \cup {Pair(w)} /\ worker' = NextHook(w)
    /\ UNCHANGED <<hubVars, emit, queue, lost, upset>>

\* The process stops dead and starts again: the ring, the queue and the streams are gone,
\* and so are the ids the clients know.
Crash ==
    /\ mishaps < MaxMishaps /\ mishaps' = mishaps + 1
    /\ ring' = <<>> /\ queue' = <<>> /\ worker' = [w \in Worker |-> NoWork]
    /\ stream' = [c \in Follower |-> [stream[c] EXCEPT !.stage = "away", !.channel = <<>>]]
    /\ emit' = [i \in DOMAIN emit |-> IF emit[i].stage \in {"publish", "send"}
                                      THEN [emit[i] EXCEPT !.stage = "lost", !.to = {}] ELSE emit[i]]
    /\ owed' = [c \in Follower |-> {}]
    /\ upset' = upset \cup {"crashed"}
    /\ UNCHANGED <<got, settled, letters, buried, lost>>

Emitting == \E i \in DOMAIN emit : Publish(i) \/ Send(i) \/ SendOnClosed(i) \/ Enqueue(i)
Delivering(w) == TakeEvent(w) \/ postOnce(w) \/ Retry(w) \/ GiveUp(w) \/ GiveUpGarbled(w)
\* The streams and the webhooks meet only in the emission: each can be run without the other.
EmissionNext == Crash \/ Emitting \/ \E t \in Topic : Emit(t)
StreamNext == \E c \in Follower : Subscribe(c) \/ ReplayAll(c) \/ Receive(c) \/ Unsubscribe(c)
HookNext == \E w \in Worker : Delivering(w) \/ TakeUnlisted(w) \/ LoseLetter(w) \/ GiveUpUnrotated(w)
EventsNext == EmissionNext \/ StreamNext \/ HookNext

\* The workers are goroutines that are never blocked for good: an attempt has a time limit.
EventsFairness == \A w \in Worker : WF_eventVars(Delivering(w))

EventsSpec == EventsInit /\ [][EventsNext]_eventVars /\ EventsFairness

(***************************************************************************)
(* Properties.                                                             *)
(***************************************************************************)
\* A client that is connected and has been replayed what it missed has, or will be handed,
\* every event it follows since the first one it saw: unless its channel was full, the id
\* it came back with was no longer in the ring, an emission panicked, or two emissions were
\* being sent at once (their order on a channel is not that of the ring, and the replay
\* starts after the last one seen).
NothingMissed ==
    upset = {} =>
      \A c \in Follower : stream[c].stage = "live" =>
        owed[c] \subseteq
          got[c] \cup ToSet(stream[c].channel)
                 \cup {i \in DOMAIN emit : <<c, stream[c].visit>> \in emit[i].to}

\* An event the queue took and that is in nobody's hands any more was delivered to every
\* webhook it was for, or has its line among the dead letters, or is one of the lost.
InHand(i) == i \in ToSet(queue) \/ \E w \in Worker : InWork(w) /\ worker[w].event = i
SettledFor(i) ==
    i \in DOMAIN emit /\ \A k \in DOMAIN Webhook :
      Takes(Webhook[k], emit[i].topic) => <<i, Webhook[k].id>> \in settled \cup lost
Settled ==
    upset \cap {"unlisted", "crashed"} = {} =>
      \A i \in DOMAIN emit : emit[i].stage = "queued" /\ ~InHand(i) => SettledFor(i)

\* Every event the queue took is dealt with in the end, however often a delivery fails:
\* unless the process dies or the list of webhooks cannot be read, and but for the lines lost.
QueueDrains ==
    \A i \in 1 .. MaxEvents :
      (i \in DOMAIN emit /\ emit[i].stage = "queued") ~>
        (SettledFor(i) \/ upset \cap {"unlisted", "crashed"} # {})

\* The newest deliveries whose lines were written are always listed, rotation or not, and
\* whichever writes and renames failed before: as many as the tail of a file holds.
LettersListed ==
    LET n == Len(buried)
        newest == SubSeq(buried, IF n > TailLines THEN n - TailLines + 1 ELSE 1, n)
    IN IsSuffix(newest, ListDeadLetter(0))

\* A delivery is made, written off or lost with its line; a line that was written can be seen.
HooksServed == Settled /\ LettersListed
===============================================================================
