----------------------------- MODULE Dashboard -----------------------------
(***************************************************************************)
(* From a publication to the leaderboard page: the scoring engines write   *)
(* the ranking, the hash and a message to Redis, in three commands;        *)
(* telemetry/api.py reads ranking and hashes in one command each, once for *)
(* GET /leaderboard and again and again for the event stream; the page     *)
(* (leaderboard/src/App.jsx) shows whatever arrived last.                  *)
(*                                                                         *)
(* What is written is abstracted to the number of the contestant's         *)
(* publication: a row is the pair of the publications that its score and   *)
(* its hash are from, 0 when there is none (the defaults of                *)
(* read_leaderboard).  Of the ranking the model keeps who is among the      *)
(* first Limit, which are all that is read (25 in the code); the order of  *)
(* the rows is left out.                                                   *)
(***************************************************************************)
EXTENDS Naturals, Sequences, FiniteSets, Functions

CONSTANTS Contestants,  \* each with a scoring engine
          Limit,        \* rows that read_leaderboard asks for
          MaxVersion,   \* bound on publications of a contestant
          MaxPublished, \* bound on publications of all of them
          MaxLink,      \* bound on rows on their way to the page
          MaxFaults     \* bound on broken publications and broken streams

ASSUME BoundsAssumption ==
  MaxVersion \in Nat /\ MaxPublished \in Nat /\ MaxLink \in Nat /\ MaxFaults \in Nat
ASSUME LimitAssumption == IsFiniteSet(Contestants) /\ Limit \in Nat \ {0}

VARIABLES score,   \* score[c]: publication that the ranking has of c (0: not ranked)
          top,     \* the contestants among the first Limit of the ranking
          meta,    \* meta[c]: publication that the hash of c has (0: no hash)
          writer,  \* writer[c]: next command of the publication of c
          subscribed, \* Redis has the subscription of the stream
          inbox,   \* messages of the channel that the stream's subscription holds
          at,      \* at[r]: where reader r of the API is
          rows,    \* rows[r]: what r has read
          todo,    \* todo[r]: hashes r has still to read
          covered, \* history: Redis had it when the stream last read the ranking
          cause,   \* the message that r = "stream" is answering, or NoMessage
          link,    \* rows on their way to the page in the stream's connection
          page,    \* the rows the page shows
          shown,   \* history: the page shows the "answer" or an "event"
          faults   \* publications and streams broken so far

vars == <<score, top, meta, writer, subscribed, inbox, at, rows, todo, covered, cause, link, page,
          shown, faults>>
redis == <<score, top, meta>>
channel == <<subscribed, inbox>>
readers == <<at, rows, todo, covered, cause>>

Readers == {"stream", "fetch"}
NoRow == [score |-> 0, meta |-> 0]  \* of a contestant that is not listed
NoRows == [c \in Contestants |-> NoRow]
NoMessage == [id |-> "none", version |-> 0]
Stored == [c \in Contestants |->
             IF c \in top THEN [score |-> score[c], meta |-> meta[c]] ELSE NoRow]

\* The page asks for the rows and opens the stream at the same time.
Init == /\ score = [c \in Contestants |-> 0]
        /\ top = {}
        /\ meta = [c \in Contestants |-> 0]
        /\ writer = [c \in Contestants |-> "zadd"]
        /\ subscribed = FALSE /\ inbox = << >>
        /\ at = [stream |-> "subscribe", fetch |-> "scores"]
        /\ rows = [r \in Readers |-> NoRows]
        /\ todo = [r \in Readers |-> {}]
        /\ covered = FALSE /\ cause = NoMessage
        /\ link = << >>
        /\ page = NoRows
        /\ shown = "event"
        /\ faults = 0

-----------------------------------------------------------------------------
(* publish_metrics of the scoring engine of c. *)

Published == FoldFunction(+, 0, score)
Ranked == {c \in Contestants : score[c] > 0}

\* Who the first Limit can be when c has a new score: c joins while there is room, may push
\* another out, or may fall behind one that had no place.
Reranked(c) ==
  IF c \in top THEN {top} \cup {(top \ {c}) \cup {d} : d \in Ranked \ top}
  ELSE IF Cardinality(top) < Limit THEN {top \cup {c}}
  ELSE {top} \cup {(top \ {d}) \cup {c} : d \in top}

Zadd(c) ==
  /\ writer[c] \in {"zadd", "broken"}
  /\ score[c] < MaxVersion /\ Published < MaxPublished
  /\ score' = [score EXCEPT ![c] = @ + 1]
  /\ top' \in Reranked(c)
  /\ writer' = [writer EXCEPT ![c] = "hset"]
  /\ UNCHANGED <<meta, channel, readers, link, page, shown, faults>>

Hset(c) ==
  /\ writer[c] = "hset"
  /\ meta' = [meta EXCEPT ![c] = score[c]]
  /\ writer' = [writer EXCEPT ![c] = "publish"]
  /\ UNCHANGED <<score, top, channel, readers, link, page, shown, faults>>

\* Redis hands the message to whoever is subscribed now, and to nobody else.
Publish(c) ==
  /\ writer[c] = "publish"
  /\ writer' = [writer EXCEPT ![c] = "zadd"]
  /\ inbox' = IF subscribed THEN Append(inbox, [id |-> c, version |-> score[c]]) ELSE inbox
  /\ UNCHANGED <<redis, subscribed, readers, link, page, shown, faults>>

\* The engine dies, or a command raises, between two of the three; a later engine of the
\* contestant starts with a ZADD again.
Break(c) ==
  /\ writer[c] \in {"hset", "publish"} /\ faults < MaxFaults
  /\ writer' = [writer EXCEPT ![c] = "broken"]
  /\ faults' = faults + 1
  /\ UNCHANGED <<redis, channel, readers, link, page, shown>>

-----------------------------------------------------------------------------
(* read_leaderboard, for either reader: ZREVRANGE, then one HGETALL per contestant. *)

\* Wrong on purpose: hashes that the reader has are kept.
ReadScoresKeeping(r) ==
  /\ at[r] = "scores"
  /\ rows' = [rows EXCEPT ![r] = [c \in Contestants |->
               IF c \in top THEN [score |-> score[c], meta |-> rows[r][c].meta] ELSE NoRow]]
  /\ todo' = [todo EXCEPT ![r] = {c \in top : rows[r][c].meta = 0}]
  /\ at' = [at EXCEPT ![r] = IF todo'[r] # {} THEN "metas" ELSE "read"]
  /\ covered' = IF r = "stream" THEN subscribed ELSE covered
  /\ UNCHANGED <<redis, writer, channel, cause, link, page, shown, faults>>
ReadScores(r) ==
  /\ at[r] = "scores"
  /\ rows' = [rows EXCEPT ![r] = [c \in Contestants |->
               IF c \in top THEN [score |-> score[c], meta |-> 0] ELSE NoRow]]
  /\ todo' = [todo EXCEPT ![r] = top]
  /\ at' = [at EXCEPT ![r] = IF top # {} THEN "metas" ELSE "read"]
  /\ covered' = IF r = "stream" THEN subscribed ELSE covered
  /\ UNCHANGED <<redis, writer, channel, cause, link, page, shown, faults>>

ReadMeta(r, c) ==
  /\ at[r] = "metas" /\ c \in todo[r]
  /\ rows' = [rows EXCEPT ![r][c].meta = meta[c]]
  /\ todo' = [todo EXCEPT ![r] = @ \ {c}]
  /\ at' = [at EXCEPT ![r] = IF todo[r] = {c} THEN "read" ELSE "metas"]
  /\ UNCHANGED <<redis, writer, channel, covered, cause, link, page, shown, faults>>

-----------------------------------------------------------------------------
(* The event stream: leaderboard_stream and EventSource. *)

\* pubsub.subscribe sends the command and does not wait for what Redis says: the first rows
\* are read over another connection, perhaps before Redis has the subscription.
Subscribe ==
  /\ at["stream"] = "subscribe"
  /\ at' = [at EXCEPT !["stream"] = "scores"]
  /\ UNCHANGED <<redis, writer, channel, rows, todo, covered, cause, link, page, shown, faults>>

\* Redis takes the SUBSCRIBE.
SubscriptionStarts ==
  /\ at["stream"] \notin {"closed", "subscribe"} /\ ~subscribed
  /\ subscribed' = TRUE
  /\ UNCHANGED <<redis, writer, inbox, readers, link, page, shown, faults>>

\* Wrong on purpose: messages that came in during the read are taken to be in the rows.
YieldDraining ==
  /\ at["stream"] = "read" /\ Len(link) < MaxLink
  /\ link' = Append(link, rows["stream"])
  /\ at' = [at EXCEPT !["stream"] = "listen"]
  /\ cause' = NoMessage /\ inbox' = << >>
  /\ UNCHANGED <<redis, writer, subscribed, rows, todo, covered, page, shown, faults>>
\* The rows are yielded, as "snapshot" or as "update".
Yield ==
  /\ at["stream"] = "read" /\ Len(link) < MaxLink
  /\ link' = Append(link, rows["stream"])
  /\ at' = [at EXCEPT !["stream"] = "listen"]
  /\ cause' = NoMessage
  /\ UNCHANGED <<redis, writer, channel, rows, todo, covered, page, shown, faults>>

\* get_message returned a message: everything is read again.
Update ==
  /\ at["stream"] = "listen" /\ inbox # << >>
  /\ cause' = Head(inbox)
  /\ inbox' = Tail(inbox)
  /\ at' = [at EXCEPT !["stream"] = "scores"]
  /\ UNCHANGED <<redis, writer, subscribed, rows, todo, covered, link, page, shown, faults>>

\* Wrong on purpose: nothing is sent without a message.
TickNever == FALSE /\ UNCHANGED vars
\* get_message returned none, and the last rows are five seconds old.
Tick ==
  /\ at["stream"] = "listen" /\ inbox = << >>
  /\ at' = [at EXCEPT !["stream"] = "scores"]
  /\ UNCHANGED <<redis, writer, channel, rows, todo, covered, cause, link, page, shown, faults>>

\* Wrong on purpose: the page forgets its rows when the stream is lost.
StreamBreaksClearing ==
  /\ at["stream"] # "closed" /\ faults < MaxFaults
  /\ at' = [at EXCEPT !["stream"] = "closed"]
  /\ rows' = [rows EXCEPT !["stream"] = NoRows]
  /\ todo' = [todo EXCEPT !["stream"] = {}]
  /\ subscribed' = FALSE /\ covered' = FALSE
  /\ inbox' = << >> /\ link' = << >> /\ cause' = NoMessage
  /\ page' = NoRows
  /\ faults' = faults + 1
  /\ UNCHANGED <<redis, writer, shown>>

\* Redis or the network fails: the generator ends, its connection with it.
StreamBreaks ==
  /\ at["stream"] # "closed" /\ faults < MaxFaults
  /\ at' = [at EXCEPT !["stream"] = "closed"]
  /\ rows' = [rows EXCEPT !["stream"] = NoRows]
  /\ todo' = [todo EXCEPT !["stream"] = {}]
  /\ subscribed' = FALSE /\ covered' = FALSE
  /\ inbox' = << >> /\ link' = << >> /\ cause' = NoMessage
  /\ faults' = faults + 1
  /\ UNCHANGED <<redis, writer, page, shown>>

\* An EventSource connects again.
Reconnect ==
  /\ at["stream"] = "closed"
  /\ at' = [at EXCEPT !["stream"] = "subscribe"]
  /\ UNCHANGED <<redis, writer, channel, rows, todo, covered, cause, link, page, shown, faults>>

-----------------------------------------------------------------------------
(* The page. *)

\* onRows: the rows of an event replace those shown.
OnRows ==
  /\ link # << >>
  /\ page' = Head(link) /\ shown' = "event"
  /\ link' = Tail(link)
  /\ UNCHANGED <<redis, writer, channel, readers, faults>>

\* loadSnapshot: so do the rows of the answer, whenever it comes; an error changes nothing.
OnAnswer ==
  /\ at["fetch"] = "read"
  /\ page' = rows["fetch"] /\ shown' = "answer"
  /\ at' = [at EXCEPT !["fetch"] = "over"]
  /\ rows' = [rows EXCEPT !["fetch"] = NoRows]
  /\ UNCHANGED <<redis, writer, channel, todo, covered, cause, link, faults>>
OnError ==
  /\ at["fetch"] # "over"
  /\ at' = [at EXCEPT !["fetch"] = "over"]
  /\ rows' = [rows EXCEPT !["fetch"] = NoRows]
  /\ todo' = [todo EXCEPT !["fetch"] = {}]
  /\ UNCHANGED <<redis, writer, channel, covered, cause, link, page, shown, faults>>

Write(c) == Zadd(c) \/ Hset(c) \/ Publish(c)
Read(r) == ReadScores(r) \/ \E c \in Contestants : ReadMeta(r, c)
Stream == Subscribe \/ Yield \/ Update \/ Tick \/ Reconnect

Next == \/ \E c \in Contestants : Write(c) \/ Break(c)
        \/ \E r \in Readers : Read(r)
        \/ Stream \/ SubscriptionStarts \/ StreamBreaks
        \/ OnRows \/ OnAnswer \/ OnError

\* The API's event loop and the page run on; an engine may stop for good at any point.
Spec == /\ Init /\ [][Next]_vars
        /\ WF_vars(Stream \/ Read("stream")) /\ WF_vars(OnRows)
        /\ WF_vars(Read("fetch") \/ OnAnswer \/ OnError)

-----------------------------------------------------------------------------
(* Properties. *)

\* What the stream sent last is what Redis has, whenever no publication is under way or was
\* broken off and no message waits, if Redis had the subscription before the stream read the
\* ranking: a publication that falls into the read or between the read and the loop is in the
\* rows or in the inbox, whether it changes a row or who is listed.  Rows read before that, the
\* first of a connection, can miss one until the next read: PageCatchesUp.
NothingMissed ==
  /\ at["stream"] = "listen" /\ inbox = << >> /\ covered
  /\ \A c \in Contestants : writer[c] = "zadd"
  => rows["stream"] = Stored

\* The rows sent for a message have the publication that the message is about, or a later
\* one, in the score and in the hash, though both were read by different commands; unless its
\* contestant is no longer listed.
Listed(rs) == {c \in Contestants : rs[c].score > 0}
UpdateIsFresh ==
  at["stream"] = "read" /\ cause # NoMessage /\ cause.id \in Listed(rows["stream"]) =>
    /\ rows["stream"][cause.id].score >= cause.version
    /\ rows["stream"][cause.id].meta >= cause.version

\* A row that stays on the page gets older, or the page gets shorter, only by the answer to
\* the page's one request, which the stream may have overtaken, or where that answer is
\* replaced by rows read before it; the stream alone takes nothing back, across
\* reconnections too.
OlderThan(new, old) ==
  \/ \E c \in Listed(new) : new[c].score < old[c].score \/ new[c].meta < old[c].meta
  \/ Cardinality(Listed(new)) < Cardinality(Listed(old))
OnlyTheAnswerGoesBack ==
  [][OlderThan(page', page) => "answer" \in {shown, shown'}]_vars

\* Whatever the answer, broken streams and broken publications did to the page, it shows
\* what Redis has in the end and keeps showing it: the snapshot every five seconds.
PageCatchesUp == <>[](page = Stored)
=============================================================================
