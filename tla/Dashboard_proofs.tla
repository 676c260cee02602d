-------------------------- MODULE Dashboard_proofs --------------------------
(***************************************************************************)
(* Proofs about the leaderboard's event stream, for any finite set of      *)
(* contestants, any number of rows read, and any number of publications,   *)
(* of rows on their way and of failures.                                   *)
(*                                                                         *)
(* A message says less than Redis holds (MessagesInv), since it comes last *)
(* of the three commands of a publication; what a read that a message      *)
(* caused has collected so far is at least what the message says           *)
(* (AnswerInv).  And once Redis has the subscription, rows that are not     *)
(* those in Redis have a cause that will have them read again: a           *)
(* publication under way or a message that waits (MissedInv).  Of the rows *)
(* sent, those on their way and those the page shows, none has what a      *)
(* later one lacks (PageInv), so that only the answer to the page's own    *)
(* request can take something back.                                        *)
(***************************************************************************)
EXTENDS Dashboard, SequenceTheorems, FiniteSetTheorems, TLAPS

Message == [id : Contestants, version : Nat]
StreamRows == rows["stream"]
Reading == at["stream"] \in {"scores", "metas", "read"}

ShapeInv ==
    /\ score \in [Contestants -> Nat] /\ meta \in [Contestants -> Nat]
    /\ writer \in [Contestants -> {"zadd", "hset", "publish", "broken"}]
    /\ top \subseteq Ranked
    /\ inbox \in Seq(Message)
    /\ at \in [Readers -> {"closed", "subscribe", "scores", "metas", "read", "listen", "over"}]
    /\ rows \in [Readers -> [Contestants -> [score : Nat, meta : Nat]]]
    /\ todo \in [Readers -> SUBSET Contestants]
    /\ cause = NoMessage \/ cause \in Message

Said(m, s, t) == 0 < m.version /\ m.version <= s[m.id] /\ m.version <= t[m.id]
MessagesInv ==
    /\ \A c \in Contestants : meta[c] <= score[c]
    /\ \A c \in Contestants :
          /\ writer[c] # "zadd" => score[c] > 0
          /\ writer[c] = "publish" => meta[c] = score[c]
    /\ \A i \in 1 .. Len(inbox) : Said(inbox[i], score, meta)
    /\ cause # NoMessage => Said(cause, score, meta)

AnswerInv ==
    /\ cause # NoMessage => Reading
    /\ at["stream"] # "metas" => todo["stream"] = {}
    /\ cause # NoMessage /\ at["stream"] \in {"metas", "read"}
       /\ cause.id \in Listed(StreamRows) =>
          /\ StreamRows[cause.id].score >= cause.version
          /\ cause.id \notin todo["stream"] => StreamRows[cause.id].meta >= cause.version

Quiet == inbox = << >> /\ \A c \in Contestants : writer[c] = "zadd"
MissedInv ==
    /\ covered => subscribed
    /\ at["stream"] \in {"metas", "read", "listen"} /\ covered /\ Quiet =>
        /\ todo["stream"] \subseteq top
        /\ \A c \in Contestants :
              /\ StreamRows[c].score = IF c \in top THEN score[c] ELSE 0
              /\ c \notin todo["stream"] =>
                    StreamRows[c].meta = IF c \in top THEN meta[c] ELSE 0

StreamInv == ShapeInv /\ MessagesInv /\ AnswerInv /\ MissedInv

-----------------------------------------------------------------------------
(* What the page and its request do leaves the stream's part alone.        *)
LEMMA Elsewhere ==
    ASSUME StreamInv, ShapeInv', UNCHANGED <<redis, writer, channel, covered, cause>>,
           at'["stream"] = at["stream"], rows'["stream"] = rows["stream"],
           todo'["stream"] = todo["stream"]
    PROVE  StreamInv'
<1>1. MessagesInv'
  BY DEF StreamInv, MessagesInv, Said, redis, channel
<1>2. AnswerInv'
  BY DEF StreamInv, AnswerInv, Reading, StreamRows, Listed
<1>3. MissedInv'
  BY DEF StreamInv, MissedInv, Quiet, StreamRows, redis, channel
<1> QED
  BY <1>1, <1>2, <1>3 DEF StreamInv

(* The three that update the page.                                         *)
LEMMA PageSteps ==
    ASSUME StreamInv, OnRows \/ OnAnswer \/ OnError
    PROVE  StreamInv'
<1>1. /\ UNCHANGED <<redis, writer, channel, covered, cause>>
      /\ at'["stream"] = at["stream"] /\ rows'["stream"] = rows["stream"]
      /\ todo'["stream"] = todo["stream"]
  BY DEF OnRows, OnAnswer, OnError, StreamInv, ShapeInv, readers, Readers
<1>2. ShapeInv'
  <2>1. NoRows \in [Contestants -> [score : Nat, meta : Nat]]
    BY DEF NoRows, NoRow
  <2>2. CASE OnRows
    BY <2>2 DEF OnRows, StreamInv, ShapeInv, Ranked, readers, redis, channel
  <2>3. UNCHANGED <<score, top, meta, writer, subscribed, inbox, covered, cause>>
    BY <1>1 DEF redis, channel
  <2>4. CASE OnAnswer
    <3>1. at' \in [Readers -> {"closed", "subscribe", "scores", "metas",
                              "read", "listen", "over"}]
      BY <2>4 DEF OnAnswer, StreamInv, ShapeInv
    <3>2. rows' \in [Readers -> [Contestants -> [score : Nat, meta : Nat]]]
      BY <2>1, <2>4 DEF OnAnswer, StreamInv, ShapeInv
    <3> QED
      BY <2>3, <2>4, <3>1, <3>2 DEF OnAnswer, StreamInv, ShapeInv, Ranked
  <2>5. CASE OnError
    <3>1. at' \in [Readers -> {"closed", "subscribe", "scores", "metas",
                              "read", "listen", "over"}]
      BY <2>5 DEF OnError, StreamInv, ShapeInv
    <3>2. rows' \in [Readers -> [Contestants -> [score : Nat, meta : Nat]]]
      BY <2>1, <2>5 DEF OnError, StreamInv, ShapeInv
    <3>3. todo' \in [Readers -> SUBSET Contestants]
      BY <2>5 DEF OnError, StreamInv, ShapeInv
    <3> QED
      BY <2>3, <2>5, <3>1, <3>2, <3>3 DEF StreamInv, ShapeInv, Ranked
  <2> QED
    BY <2>2, <2>4, <2>5
<1> QED
  BY <1>1, <1>2, Elsewhere

-----------------------------------------------------------------------------
(* Contestants can be counted.                                             *)
LEMMA Lists ==
    ASSUME NEW s \in SUBSET Contestants
    PROVE  IsFiniteSet(s) /\ Cardinality(s) \in Nat
BY LimitAssumption, FS_Subset, FS_CardinalityType

(* Who is listed after a ZADD is ranked, and no fewer are listed.          *)
LEMMA ZaddLists ==
    ASSUME StreamInv, NEW c \in Contestants, Zadd(c)
    PROVE  top' \subseteq Ranked' /\ Cardinality(top') >= Cardinality(top)
<1>1. /\ top \subseteq Contestants /\ Ranked \subseteq Ranked' /\ c \in Ranked'
      /\ top \subseteq Ranked /\ top' \in Reranked(c)
  BY DEF StreamInv, ShapeInv, Ranked, Zadd
<1>2. top' = top \/ (c \notin top /\ top' = top \cup {c})
      \/ (\E d, e \in Contestants : /\ d \in top /\ e \notin top /\ e \in Ranked \cup {c}
                                   /\ top' = (top \ {d}) \cup {e})
  BY <1>1 DEF Reranked, Ranked
<1>3. IsFiniteSet(top) /\ Cardinality(top) \in Nat
  BY <1>1, Lists
<1>4. CASE top' = top
  BY <1>1, <1>3, <1>4
<1>5. CASE c \notin top /\ top' = top \cup {c}
  <2>1. Cardinality(top') = Cardinality(top) + 1
    BY <1>3, <1>5, FS_AddElement
  <2> QED
    BY <1>1, <1>3, <1>5, <2>1
<1>6. ASSUME NEW d \in top, NEW e \in Contestants \ top, e \in Ranked \cup {c},
             top' = (top \ {d}) \cup {e}
      PROVE  top' \subseteq Ranked' /\ Cardinality(top') >= Cardinality(top)
  <2> DEFINE rest == top \ {d}
  <2>1. IsFiniteSet(rest) /\ Cardinality(rest) = Cardinality(top) - 1
    BY <1>3, FS_RemoveElement
  <2>2. Cardinality(rest \cup {e}) = Cardinality(rest) + 1
    BY <2>1, FS_AddElement
  <2> QED
    BY <1>1, <1>3, <1>6, <2>1, <2>2
<1> QED
  BY <1>2, <1>4, <1>5, <1>6

(* The three commands of a publication.                                    *)
LEMMA WritesQuietly ==
    ASSUME StreamInv, NEW c \in Contestants, Zadd(c) \/ Hset(c) \/ Break(c)
    PROVE  StreamInv'
<1>0. UNCHANGED <<subscribed, inbox, at, rows, todo, covered, cause>>
  BY DEF Zadd, Hset, Break, readers, redis, channel
<1>1. PICK w \in {"hset", "publish", "broken"} : writer' = [writer EXCEPT ![c] = w]
  BY DEF Zadd, Hset, Break
<1>2. ShapeInv'
  <2>1. CASE Zadd(c)
    <3>1. score' \in [Contestants -> Nat] /\ UNCHANGED meta
      BY <2>1 DEF Zadd, StreamInv, ShapeInv
    <3>2. top' \subseteq Ranked'
      BY <2>1, ZaddLists
    <3> QED
      BY <1>0, <1>1, <3>1, <3>2 DEF StreamInv, ShapeInv
  <2>2. CASE Hset(c)
    BY <1>0, <1>1, <2>2 DEF Hset, StreamInv, ShapeInv, Ranked
  <2>3. CASE Break(c)
    BY <1>0, <1>1, <2>3 DEF Break, StreamInv, ShapeInv, Ranked, redis
  <2> QED
    BY <2>1, <2>2, <2>3
<1>3. \A d \in Contestants :
        /\ score[d] <= score'[d] /\ meta[d] <= meta'[d] /\ meta'[d] <= score'[d]
        /\ d # c => score'[d] = score[d] /\ meta'[d] = meta[d] /\ writer'[d] = writer[d]
  <2>1. CASE Zadd(c)
    BY <1>1, <2>1 DEF Zadd, StreamInv, ShapeInv, MessagesInv
  <2>2. CASE Hset(c)
    BY <1>1, <2>2 DEF Hset, StreamInv, ShapeInv, MessagesInv
  <2>3. CASE Break(c)
    BY <1>1, <2>3 DEF Break, StreamInv, ShapeInv, MessagesInv, redis
  <2> QED
    BY <2>1, <2>2, <2>3
<1>4. /\ writer'[c] # "zadd" /\ score'[c] > 0
      /\ writer'[c] = "publish" => meta'[c] = score'[c]
  <2>1. CASE Zadd(c)
    BY <2>1 DEF Zadd, StreamInv, ShapeInv, MessagesInv
  <2>2. CASE Hset(c)
    BY <2>2 DEF Hset, StreamInv, ShapeInv, MessagesInv
  <2>3. CASE Break(c)
    BY <2>3 DEF Break, StreamInv, ShapeInv, MessagesInv, redis
  <2> QED
    BY <2>1, <2>2, <2>3
<1>5. MessagesInv'
  <2>1. ASSUME NEW m \in Message, Said(m, score, meta) PROVE Said(m, score', meta')
    BY <1>2, <1>3, <2>1 DEF Said, StreamInv, ShapeInv, Message
  <2>2. \A i \in 1 .. Len(inbox) : inbox[i] \in Message
    BY DEF StreamInv, ShapeInv
  <2>3. \A i \in 1 .. Len(inbox') : Said(inbox'[i], score', meta')
    BY <1>0, <2>1, <2>2 DEF StreamInv, MessagesInv
  <2>4. cause' # NoMessage => Said(cause', score', meta')
    BY <1>0, <2>1 DEF StreamInv, ShapeInv, MessagesInv
  <2> QED
    BY <1>3, <1>4, <2>3, <2>4 DEF StreamInv, MessagesInv
<1>6. AnswerInv'
  BY <1>0 DEF StreamInv, AnswerInv, Reading, StreamRows
<1>7. MissedInv'
  BY <1>0, <1>4 DEF StreamInv, MissedInv, Quiet
<1> QED
  BY <1>2, <1>5, <1>6, <1>7 DEF StreamInv

(* A message waits: it says no more than is written.                       *)
LEMMA PublishKeeps ==
    ASSUME StreamInv, NEW c \in Contestants, Publish(c)
    PROVE  StreamInv'
<1> DEFINE m == [id |-> c, version |-> score[c]]
<1>0. UNCHANGED <<score, top, meta, subscribed, at, rows, todo, covered, cause>>
  BY DEF Publish, readers, redis
<1>1. m \in Message /\ Said(m, score, meta) /\ m.id = c
  BY DEF Publish, Message, Said, StreamInv, ShapeInv, MessagesInv
<1>2. writer' = [writer EXCEPT ![c] = "zadd"]
  BY DEF Publish
<1> DEFINE more == Append(inbox, m)
<1>3. \/ inbox' = more
      \/ inbox' = inbox /\ ~subscribed
  BY DEF Publish
<1>4. /\ more \in Seq(Message) /\ Len(more) = Len(inbox) + 1 /\ more[Len(inbox) + 1] = m
      /\ \A i \in 1 .. Len(inbox) : more[i] = inbox[i]
      /\ Len(inbox) \in Nat
  BY <1>1, AppendProperties, LenProperties DEF StreamInv, ShapeInv
<1> HIDE DEF m, more
<1>5. ShapeInv'
  BY <1>0, <1>2, <1>3, <1>4 DEF StreamInv, ShapeInv, Ranked
<1>6. MessagesInv'
  <2>1. \A i \in 1 .. Len(inbox') : Said(inbox'[i], score, meta)
    BY <1>1, <1>3, <1>4 DEF StreamInv, MessagesInv
  <2>2. \A i \in 1 .. Len(inbox') : Said(inbox'[i], score', meta')
    BY <1>0, <2>1 DEF Said
  <2>3. cause' # NoMessage => Said(cause', score', meta')
    BY <1>0 DEF StreamInv, MessagesInv, Said
  <2> QED
    BY <1>0, <1>2, <2>2, <2>3 DEF StreamInv, ShapeInv, MessagesInv
<1>7. AnswerInv'
  BY <1>0 DEF StreamInv, AnswerInv, Reading, StreamRows
<1>8. MissedInv'
  <2>1. more # << >>
    BY <1>4, EmptySeq
  <2> QED
    BY <1>0, <1>3, <2>1 DEF StreamInv, MissedInv, Quiet
<1> QED
  BY <1>5, <1>6, <1>7, <1>8 DEF StreamInv

-----------------------------------------------------------------------------
(* read_leaderboard.                                                       *)
LEMMA ReadsShape ==
    ASSUME StreamInv, NEW r \in Readers,
           ReadScores(r) \/ \E c \in Contestants : ReadMeta(r, c)
    PROVE  /\ ShapeInv'
           /\ UNCHANGED <<redis, writer, channel, cause>>
<1>1. UNCHANGED <<score, top, meta, writer, subscribed, inbox, cause>>
  BY DEF ReadScores, ReadMeta, redis, channel
<1>2. CASE ReadScores(r)
  <2>1. /\ at' \in [Readers -> {"closed", "subscribe", "scores", "metas", "read", "listen", "over"}]
        /\ todo' \in [Readers -> SUBSET Contestants]
    BY <1>2 DEF ReadScores, StreamInv, ShapeInv, Ranked
  <2> DEFINE new == [c \in Contestants |->
                       IF c \in top THEN [score |-> score[c], meta |-> 0] ELSE NoRow]
  <2>2. new \in [Contestants -> [score : Nat, meta : Nat]]
    BY DEF StreamInv, ShapeInv, NoRow
  <2>3. rows' = [rows EXCEPT ![r] = new]
    BY <1>2 DEF ReadScores
  <2> HIDE DEF new
  <2>4. rows' \in [Readers -> [Contestants -> [score : Nat, meta : Nat]]]
    BY <2>2, <2>3 DEF StreamInv, ShapeInv
  <2> QED
    BY <1>1, <2>1, <2>4 DEF StreamInv, ShapeInv, Ranked, redis, channel
<1>3. ASSUME NEW c \in Contestants, ReadMeta(r, c) PROVE ShapeInv'
  <2>1. /\ at' \in [Readers -> {"closed", "subscribe", "scores", "metas", "read", "listen", "over"}]
        /\ todo' \in [Readers -> SUBSET Contestants]
    BY <1>3 DEF ReadMeta, StreamInv, ShapeInv
  <2> DEFINE row == [rows[r][c] EXCEPT !.meta = meta[c]]
             new == [rows[r] EXCEPT ![c] = row]
  <2>2. rows' = [rows EXCEPT ![r] = new]
    BY <1>3 DEF ReadMeta
  <2>3. row \in [score : Nat, meta : Nat]
    <3>1. rows[r][c] \in [score : Nat, meta : Nat] /\ meta[c] \in Nat
      BY DEF StreamInv, ShapeInv
    <3> QED
      BY <3>1
  <2>4. new \in [Contestants -> [score : Nat, meta : Nat]]
    BY <2>3 DEF StreamInv, ShapeInv
  <2> HIDE DEF new
  <2>5. rows' \in [Readers -> [Contestants -> [score : Nat, meta : Nat]]]
    BY <2>2, <2>4 DEF StreamInv, ShapeInv
  <2> QED
    BY <1>1, <2>1, <2>5 DEF StreamInv, ShapeInv, Ranked
<1> QED
  BY <1>1, <1>2, <1>3 DEF redis, channel

(* A read for the snapshot request.                                        *)
LEMMA FetchReads ==
    ASSUME StreamInv, ReadScores("fetch") \/ \E c \in Contestants : ReadMeta("fetch", c)
    PROVE  StreamInv'
<1>1. ShapeInv' /\ UNCHANGED <<redis, writer, channel, cause>>
  BY ReadsShape DEF Readers
<1>2. /\ covered' = covered
      /\ at'["stream"] = at["stream"] /\ rows'["stream"] = rows["stream"]
      /\ todo'["stream"] = todo["stream"]
  BY DEF ReadScores, ReadMeta, StreamInv, ShapeInv, Readers
<1> QED
  BY <1>1, <1>2, Elsewhere

(* A read for the stream: what it has not read yet is as new as it gets.   *)
LEMMA StreamReads ==
    ASSUME StreamInv, ReadScores("stream") \/ \E c \in Contestants : ReadMeta("stream", c)
    PROVE  StreamInv'
<1>1. ShapeInv' /\ UNCHANGED <<score, top, meta, writer, subscribed, inbox, cause>>
  BY ReadsShape DEF Readers, redis, channel
<1>2. MessagesInv'
  BY <1>1 DEF StreamInv, MessagesInv
<1>3. CASE ReadScores("stream")
  <2>1. /\ \A c \in Contestants :
              /\ rows'["stream"][c].score = IF c \in top THEN score[c] ELSE 0
              /\ rows'["stream"][c].meta = 0
        /\ todo'["stream"] = top /\ covered' = subscribed
        /\ at'["stream"] \in {"metas", "read"}
        /\ at'["stream"] = "read" => todo'["stream"] = {}
    BY <1>3 DEF ReadScores, StreamInv, ShapeInv, Readers, NoRow, Ranked
  <2>2. cause # NoMessage => /\ cause.id \in Contestants /\ cause.version \in Nat
                            /\ 0 < cause.version /\ cause.version <= score[cause.id]
                            /\ score[cause.id] \in Nat
    BY DEF StreamInv, ShapeInv, MessagesInv, Said, Message
  <2>3. AnswerInv'
    BY <1>1, <2>1, <2>2 DEF AnswerInv, Reading, StreamRows, Listed
  <2>4. MissedInv'
    BY <1>1, <2>1 DEF MissedInv, StreamRows
  <2> QED
    BY <1>1, <1>2, <2>3, <2>4 DEF StreamInv
<1>4. ASSUME NEW c \in Contestants, ReadMeta("stream", c) PROVE StreamInv'
  <2>1. /\ rows'["stream"][c].meta = meta[c]
        /\ \A d \in Contestants : rows'["stream"][d].score = rows["stream"][d].score
        /\ \A d \in Contestants \ {c} : rows'["stream"][d].meta = rows["stream"][d].meta
        /\ c \in todo["stream"] /\ covered' = covered
    BY <1>4 DEF ReadMeta, StreamInv, ShapeInv, Readers
  <2>2. /\ todo'["stream"] = todo["stream"] \ {c} /\ at["stream"] = "metas"
        /\ at'["stream"] = IF todo["stream"] = {c} THEN "read" ELSE "metas"
    BY <1>4 DEF ReadMeta, StreamInv, ShapeInv, Readers
  <2>3. cause # NoMessage => cause.id \in Contestants /\ cause.version <= meta[cause.id]
    BY DEF StreamInv, ShapeInv, MessagesInv, Said, Message
  <2>4. AnswerInv'
    <3>1. /\ cause' # NoMessage => Reading'
          /\ at'["stream"] # "metas" => todo'["stream"] = {}
      BY <2>2 DEF Reading
    <3>2. ASSUME cause # NoMessage, cause.id \in Listed(rows'["stream"])
          PROVE  /\ rows'["stream"][cause.id].score >= cause.version
                 /\ cause.id \notin todo'["stream"]
                      => rows'["stream"][cause.id].meta >= cause.version
      <4>0. cause.id \in Listed(StreamRows)
        BY <2>1, <3>2 DEF StreamRows, Listed
      <4>1. rows["stream"][cause.id].score >= cause.version
        BY <2>2, <3>2, <4>0 DEF StreamInv, AnswerInv, StreamRows
      <4>2. cause.id \notin todo["stream"] => rows["stream"][cause.id].meta >= cause.version
        BY <2>2, <3>2, <4>0 DEF StreamInv, AnswerInv, StreamRows
      <4>3. meta[cause.id] >= cause.version
        BY <2>3, <3>2 DEF StreamInv, ShapeInv, Message
      <4> QED
        BY <2>1, <2>2, <2>3, <3>2, <4>1, <4>2, <4>3
    <3> QED
      BY <1>1, <3>1, <3>2 DEF AnswerInv, StreamRows
  <2>5. MissedInv'
    <3>1. at["stream"] \in {"metas", "read", "listen"} /\ covered /\ Quiet =>
             /\ todo["stream"] \subseteq top
             /\ \A d \in Contestants :
                  /\ rows["stream"][d].score = IF d \in top THEN score[d] ELSE 0
                  /\ d \notin todo["stream"] =>
                        rows["stream"][d].meta = IF d \in top THEN meta[d] ELSE 0
      BY DEF StreamInv, MissedInv, StreamRows
    <3>2. covered /\ Quiet =>
             /\ todo'["stream"] \subseteq top
             /\ \A d \in Contestants :
                  /\ rows'["stream"][d].score = IF d \in top THEN score[d] ELSE 0
                  /\ d \notin todo'["stream"] =>
                        rows'["stream"][d].meta = IF d \in top THEN meta[d] ELSE 0
      BY <2>1, <2>2, <3>1
    <3>3. covered => subscribed
      BY DEF StreamInv, MissedInv
    <3> QED
      BY <1>1, <2>1, <3>2, <3>3 DEF MissedInv, Quiet, StreamRows
  <2> QED
    BY <1>1, <1>2, <2>4, <2>5 DEF StreamInv
<1> QED
  BY <1>3, <1>4

-----------------------------------------------------------------------------
(* The loop of leaderboard_stream.                                         *)
LEMMA LoopSteps ==
    ASSUME StreamInv, Subscribe \/ Yield \/ Tick \/ Reconnect
    PROVE  StreamInv'
<1>1. /\ UNCHANGED <<score, top, meta, writer, subscribed, inbox, rows, todo, covered>>
      /\ cause' = cause \/ cause' = NoMessage
  BY DEF Subscribe, Yield, Tick, Reconnect, redis, channel
<1>2. ShapeInv'
  BY <1>1 DEF Subscribe, Yield, Tick, Reconnect, StreamInv, ShapeInv, Ranked, Readers
<1>3. MessagesInv'
  BY <1>1 DEF StreamInv, MessagesInv
<1>4. \/ at["stream"] = "read" /\ at'["stream"] = "listen" /\ cause' = NoMessage
      \/ /\ at["stream"] \in {"listen", "closed", "subscribe"} /\ cause' = cause
         /\ at'["stream"] \in {"scores", "subscribe"}
  BY DEF Subscribe, Yield, Tick, Reconnect, StreamInv, ShapeInv, Readers
<1>5. AnswerInv'
  BY <1>1, <1>4 DEF StreamInv, AnswerInv, Reading
<1>6. MissedInv'
  BY <1>1, <1>4 DEF StreamInv, MissedInv, Quiet, StreamRows
<1> QED
  BY <1>2, <1>3, <1>5, <1>6 DEF StreamInv

(* Redis takes the subscription: what was read before is not covered.      *)
LEMMA SubscriptionKeeps ==
    ASSUME StreamInv, SubscriptionStarts
    PROVE  StreamInv'
<1>1. /\ UNCHANGED <<score, top, meta, writer, inbox, at, rows, todo, covered, cause>>
      /\ subscribed' = TRUE
  BY DEF SubscriptionStarts, redis, readers
<1>2. ShapeInv' /\ MessagesInv' /\ AnswerInv'
  BY <1>1 DEF StreamInv, ShapeInv, Ranked, MessagesInv, AnswerInv, Reading, StreamRows
<1>3. MissedInv'
  BY <1>1 DEF StreamInv, MissedInv, Quiet, StreamRows
<1> QED
  BY <1>2, <1>3 DEF StreamInv

(* A message is taken from the inbox: everything is read again.            *)
LEMMA UpdateKeeps ==
    ASSUME StreamInv, Update
    PROVE  StreamInv'
<1>1. /\ UNCHANGED <<score, top, meta, writer, subscribed, rows, todo, covered>>
      /\ cause' = Head(inbox) /\ inbox' = Tail(inbox) /\ inbox # << >>
      /\ at["stream"] = "listen" /\ at'["stream"] = "scores"
  BY DEF Update, redis, StreamInv, ShapeInv, Readers
<1>2. /\ inbox \in Seq(Message) /\ Tail(inbox) \in Seq(Message)
      /\ Len(Tail(inbox)) = Len(inbox) - 1 /\ Len(inbox) \in Nat \ {0}
      /\ \A i \in 1 .. Len(Tail(inbox)) : Tail(inbox)[i] = inbox[i + 1]
      /\ Head(inbox) = inbox[1] /\ Head(inbox) \in Message
  BY <1>1, HeadTailProperties, LenProperties, EmptySeq DEF StreamInv, ShapeInv
<1>3. ShapeInv'
  BY <1>1, <1>2 DEF Update, StreamInv, ShapeInv, Ranked
<1>4. MessagesInv'
  <2>1. \A i \in 1 .. Len(inbox) : Said(inbox[i], score, meta)
    BY DEF StreamInv, MessagesInv
  <2>2. Said(Head(inbox), score, meta)
    BY <1>2, <2>1
  <2>3. \A i \in 1 .. Len(Tail(inbox)) : Said(Tail(inbox)[i], score, meta)
    BY <1>2, <2>1
  <2> QED
    BY <1>1, <2>2, <2>3 DEF StreamInv, MessagesInv
<1>5. AnswerInv' /\ MissedInv'
  BY <1>1 DEF StreamInv, AnswerInv, MissedInv, Reading
<1> QED
  BY <1>3, <1>4, <1>5 DEF StreamInv

(* A stream that breaks loses its inbox, and is opened again.              *)
LEMMA BreakKeeps ==
    ASSUME StreamInv, StreamBreaks
    PROVE  StreamInv'
<1>1. /\ UNCHANGED <<score, top, meta, writer>>
      /\ cause' = NoMessage /\ inbox' = << >> /\ subscribed' = FALSE /\ covered' = FALSE
      /\ at'["stream"] = "closed" /\ todo'["stream"] = {}
  BY DEF StreamBreaks, redis, StreamInv, ShapeInv, Readers
<1>2. ShapeInv'
  <2>1. NoRows \in [Contestants -> [score : Nat, meta : Nat]]
    BY DEF NoRows, NoRow
  <2> QED
    BY <1>1, <2>1 DEF StreamBreaks, StreamInv, ShapeInv, Ranked
<1>3. MessagesInv'
  BY <1>1 DEF StreamInv, MessagesInv
<1>4. AnswerInv' /\ MissedInv'
  BY <1>1 DEF AnswerInv, MissedInv
<1> QED
  BY <1>2, <1>3, <1>4 DEF StreamInv

(* The invariant holds after every step, ...                               *)
LEMMA StreamInvStep == StreamInv /\ [Next]_vars => StreamInv'
<1> SUFFICES ASSUME StreamInv, [Next]_vars PROVE StreamInv'
  OBVIOUS
<1>1. CASE UNCHANGED vars
  <2>1. UNCHANGED <<redis, writer, channel, covered, cause, at, rows, todo>>
    BY <1>1 DEF vars, redis, channel
  <2>2. ShapeInv'
    BY <2>1 DEF StreamInv, ShapeInv, Ranked, redis, channel
  <2> QED
    BY <2>1, <2>2, Elsewhere
<1>2. ASSUME NEW r \in Readers, Read(r) PROVE StreamInv'
  BY <1>2, FetchReads, StreamReads DEF Read, Readers
<1>3. ASSUME NEW c \in Contestants, Write(c) \/ Break(c) PROVE StreamInv'
  BY <1>3, WritesQuietly, PublishKeeps DEF Write
<1>4. CASE Stream \/ SubscriptionStarts \/ StreamBreaks
  BY <1>4, LoopSteps, SubscriptionKeeps, UpdateKeeps, BreakKeeps DEF Stream
<1> QED
  BY <1>1, <1>2, <1>3, <1>4, PageSteps DEF Next

(* ... at the start, ...                                                   *)
LEMMA StreamInvInit == Init => StreamInv
<1> SUFFICES ASSUME Init PROVE StreamInv
  OBVIOUS
<1>1. << >> \in Seq(Message) /\ Len(<< >>) = 0
  BY EmptySeq
<1>2. ShapeInv
  BY <1>1 DEF Init, ShapeInv, Readers, NoRows, NoRow
<1>3. MessagesInv
  BY <1>1 DEF Init, MessagesInv
<1>4. AnswerInv /\ MissedInv
  BY DEF Init, AnswerInv, MissedInv, Readers, Reading
<1> QED
  BY <1>2, <1>3, <1>4 DEF StreamInv

(* ... and so always.                                                      *)
LEMMA StreamInvHolds == Spec => []StreamInv
BY StreamInvInit, StreamInvStep, PTL DEF Spec

(* The rows that leaderboard_stream sends for a message have the           *)
(* publication it tells of, or a later one, in score and hash alike, if    *)
(* its contestant is listed:                                               *)
(* publish_metrics writes both before it publishes.                        *)
THEOREM UpdatesAreFresh == Spec => []UpdateIsFresh
<1>1. StreamInv => UpdateIsFresh
  BY DEF StreamInv, AnswerInv, StreamRows, UpdateIsFresh
<1> QED
  BY <1>1, StreamInvHolds, PTL

(* When nothing is being published and no message waits, the rows sent     *)
(* last are those in Redis, the right contestants with their last          *)
(* publication, provided that Redis had the subscription when              *)
(* leaderboard_stream read the ranking.  It does not wait for that (the    *)
(* SUBSCRIBE is only sent), so the theorem promises nothing of rows read   *)
(* before; all later ones are covered, whenever publications and reads     *)
(* fall.                                                                   *)
THEOREM StreamMissesNothing == Spec => []NothingMissed
<1>1. StreamInv => NothingMissed
  <2> SUFFICES ASSUME StreamInv, at["stream"] = "listen", inbox = << >>, covered,
                      \A c \in Contestants : writer[c] = "zadd"
               PROVE  rows["stream"] = Stored
    BY DEF NothingMissed
  <2>1. /\ Quiet /\ todo["stream"] = {}
        /\ rows["stream"] \in [Contestants -> [score : Nat, meta : Nat]]
    BY DEF Quiet, StreamInv, AnswerInv, ShapeInv, Readers
  <2>2. \A c \in Contestants :
          /\ rows["stream"][c].score = IF c \in top THEN score[c] ELSE 0
          /\ rows["stream"][c].meta = IF c \in top THEN meta[c] ELSE 0
    BY <2>1 DEF StreamInv, MissedInv, StreamRows
  <2>3. \A c \in Contestants : rows["stream"][c] =
          IF c \in top THEN [score |-> score[c], meta |-> meta[c]] ELSE NoRow
    BY <2>1, <2>2 DEF NoRow
  <2> QED
    BY <2>1, <2>3 DEF Stored
<1> QED
  BY <1>1, StreamInvHolds, PTL

-----------------------------------------------------------------------------
(* The rows of one page after another: link and page hold rows of earlier  *)
(* and earlier reads, so that none has a publication that one after it, or *)
(* the read that is under way, lacks.                                      *)
Rows == [Contestants -> [score : Nat, meta : Nat]]
Count(rs) == Cardinality(Listed(rs))
NoNewer(p, q) ==
    /\ \A c \in Listed(q) : p[c].score <= q[c].score /\ p[c].meta <= q[c].meta
    /\ Count(p) <= Count(q)
Past(p) ==
    /\ \A c \in Contestants : p[c].score <= score[c] /\ p[c].meta <= meta[c]
    /\ Count(p) <= Cardinality(top)
    /\ at["stream"] \in {"metas", "read"} =>
          /\ \A c \in Listed(StreamRows) :
                /\ p[c].score <= StreamRows[c].score
                /\ c \notin todo["stream"] => p[c].meta <= StreamRows[c].meta
          /\ Count(p) <= Count(StreamRows)

ReadInv ==
    at["stream"] \in {"metas", "read"} =>
        /\ \A c \in Contestants : StreamRows[c].score <= score[c] /\ StreamRows[c].meta <= meta[c]
        /\ Count(StreamRows) <= Cardinality(top)

LinkInv ==
    /\ link \in Seq(Rows)
    /\ \A i \in 1 .. Len(link) : Past(link[i])
    /\ \A i, j \in 1 .. Len(link) : i < j => NoNewer(link[i], link[j])

EventInv ==
    /\ page \in Rows /\ shown \in {"answer", "event"}
    /\ shown = "event" => Past(page) /\ \A i \in 1 .. Len(link) : NoNewer(page, link[i])

PageInv == StreamInv /\ ReadInv /\ LinkInv /\ EventInv

(* What a step of the stream's read does to its rows.                      *)
LEMMA ScoresRead ==
    ASSUME StreamInv, ReadScores("stream")
    PROVE  /\ UNCHANGED <<score, top, meta>>
           /\ at'["stream"] \in {"metas", "read"} /\ todo'["stream"] = top
           /\ Listed(StreamRows') = top
           /\ \A c \in Contestants :
                 /\ StreamRows'[c].score = IF c \in top THEN score[c] ELSE 0
                 /\ StreamRows'[c].meta = 0
<1>1. /\ UNCHANGED <<score, top, meta>>
      /\ at'["stream"] \in {"metas", "read"} /\ todo'["stream"] = top
      /\ \A c \in Contestants :
            /\ StreamRows'[c].score = IF c \in top THEN score[c] ELSE 0
            /\ StreamRows'[c].meta = 0
  BY DEF ReadScores, redis, StreamInv, ShapeInv, Readers, StreamRows, NoRow
<1>2. top \subseteq Contestants /\ \A c \in top : score[c] > 0
  BY DEF StreamInv, ShapeInv, Ranked
<1>3. Listed(StreamRows') = top
  BY <1>1, <1>2 DEF Listed
<1> QED
  BY <1>1, <1>3

LEMMA MetaRead ==
    ASSUME StreamInv, NEW c \in Contestants, ReadMeta("stream", c)
    PROVE  /\ UNCHANGED <<score, top, meta>>
           /\ at["stream"] = "metas" /\ at'["stream"] \in {"metas", "read"}
           /\ todo'["stream"] = todo["stream"] \ {c}
           /\ StreamRows'[c].meta = meta[c]
           /\ \A d \in Contestants : StreamRows'[d].score = StreamRows[d].score
           /\ \A d \in Contestants \ {c} : StreamRows'[d].meta = StreamRows[d].meta
           /\ Listed(StreamRows') = Listed(StreamRows)
<1>1. /\ UNCHANGED <<score, top, meta>>
      /\ at["stream"] = "metas" /\ at'["stream"] \in {"metas", "read"}
      /\ todo'["stream"] = todo["stream"] \ {c}
      /\ StreamRows'[c].meta = meta[c]
      /\ \A d \in Contestants : StreamRows'[d].score = StreamRows[d].score
      /\ \A d \in Contestants \ {c} : StreamRows'[d].meta = StreamRows[d].meta
  BY DEF ReadMeta, redis, StreamInv, ShapeInv, Readers, StreamRows
<1> QED
  BY <1>1 DEF Listed

(* Every other step leaves the stream's read alone, or is none of a read.  *)
LEMMA ReadApart ==
    ASSUME StreamInv, [Next]_vars,
           ~ReadScores("stream"), \A c \in Contestants : ~ReadMeta("stream", c)
    PROVE  /\ \A c \in Contestants : score[c] <= score'[c] /\ meta[c] <= meta'[c]
           /\ Cardinality(top) <= Cardinality(top')
           /\ \/ at'["stream"] \notin {"metas", "read"}
              \/ /\ at'["stream"] = at["stream"] /\ StreamRows' = StreamRows
                 /\ todo'["stream"] = todo["stream"]
<1> DEFINE Grows == /\ \A c \in Contestants : score[c] <= score'[c] /\ meta[c] <= meta'[c]
                    /\ Cardinality(top) <= Cardinality(top')
           Same == /\ at'["stream"] = at["stream"] /\ StreamRows' = StreamRows
                   /\ todo'["stream"] = todo["stream"]
<1>0. Cardinality(top) \in Nat
  BY Lists DEF StreamInv, ShapeInv, Ranked
<1>1. UNCHANGED <<score, top, meta>> => Grows
  BY <1>0 DEF StreamInv, ShapeInv
<1>2. CASE UNCHANGED vars
  BY <1>1, <1>2 DEF vars, redis, readers, StreamRows
<1>3. ASSUME NEW c \in Contestants, Write(c) \/ Break(c) PROVE Grows /\ Same
  <2>1. Same
    BY <1>3 DEF Write, Zadd, Hset, Publish, Break, readers, StreamRows
  <2>2. CASE Zadd(c)
    <3>1. \A d \in Contestants : score[d] <= score'[d] /\ meta[d] <= meta'[d]
      BY <2>2 DEF Zadd, StreamInv, ShapeInv
    <3>2. top' \subseteq Contestants /\ Cardinality(top') >= Cardinality(top)
      BY <2>2, ZaddLists DEF Ranked
    <3>3. Cardinality(top) <= Cardinality(top')
      BY <1>0, <3>2, Lists
    <3> QED
      BY <2>1, <3>1, <3>3
  <2>3. CASE Hset(c)
    BY <1>0, <2>1, <2>3 DEF Hset, StreamInv, ShapeInv, MessagesInv
  <2>4. CASE Publish(c) \/ Break(c)
    BY <1>1, <2>1, <2>4 DEF Publish, Break, redis
  <2> QED
    BY <1>3, <2>2, <2>3, <2>4 DEF Write
<1>4. CASE Read("fetch")
  BY <1>1, <1>4 DEF Read, ReadScores, ReadMeta, redis, StreamInv, ShapeInv, Readers, StreamRows
<1>4a. CASE SubscriptionStarts
  BY <1>1, <1>4a DEF SubscriptionStarts, redis, readers, StreamRows
<1>5. CASE Stream \/ StreamBreaks
  <2>1. /\ UNCHANGED <<score, top, meta>>
        /\ at'["stream"] \in {"closed", "subscribe", "scores", "listen"}
    BY <1>5 DEF Stream, Subscribe, Yield, Update, Tick, Reconnect, StreamBreaks, redis,
                StreamInv, ShapeInv, Readers
  <2> QED
    BY <1>1, <2>1
<1>6. CASE OnRows \/ OnAnswer \/ OnError
  BY <1>1, <1>6 DEF OnRows, OnAnswer, OnError, redis, readers, StreamInv, ShapeInv, Readers,
                    StreamRows
<1> QED
  BY <1>2, <1>3, <1>4, <1>4a, <1>5, <1>6 DEF Next, Read, Readers

(* Rows that have been sent stay older than what is read after them, ...   *)
LEMMA PastStays ==
    ASSUME StreamInv, [Next]_vars, NEW p \in Rows, Past(p)
    PROVE  Past(p)'
<1>1. \A c \in Contestants : /\ p[c].score \in Nat /\ p[c].meta \in Nat
                             /\ p[c].score <= score[c] /\ p[c].meta <= meta[c]
                             /\ score[c] \in Nat /\ meta[c] \in Nat /\ meta[c] <= score[c]
  BY DEF Rows, Past, StreamInv, ShapeInv, MessagesInv
<1>1a. Count(p) \in Nat /\ Cardinality(top) \in Nat /\ Count(p) <= Cardinality(top)
  BY Lists DEF Count, Listed, Past, StreamInv, ShapeInv, Ranked
<1>2. CASE ReadScores("stream")
  <2>1. Listed(StreamRows') = top /\ top \subseteq Contestants
    BY <1>2, ScoresRead DEF StreamInv, ShapeInv, Ranked
  <2> QED
    BY <1>1, <1>1a, <1>2, <2>1, ScoresRead DEF Past, Count
<1>3. ASSUME NEW c \in Contestants, ReadMeta("stream", c) PROVE Past(p)'
  <2>1. /\ \A d \in Listed(StreamRows) :
              /\ d \in Contestants /\ p[d].score <= StreamRows[d].score
              /\ d \notin todo["stream"] => p[d].meta <= StreamRows[d].meta
        /\ Count(p) <= Count(StreamRows)
    BY <1>3, MetaRead DEF Past, Listed
  <2>2. Listed(StreamRows') = Listed(StreamRows)
    BY <1>3, MetaRead
  <2>3. Count(p) <= Count(StreamRows')
    BY <2>1, <2>2 DEF Count
  <2>4. \A d \in Listed(StreamRows') :
           /\ p[d].score <= StreamRows'[d].score
           /\ d \notin todo'["stream"] => p[d].meta <= StreamRows'[d].meta
    BY <1>1, <1>3, <2>1, <2>2, MetaRead
  <2> QED
    BY <1>1, <1>1a, <1>3, <2>3, <2>4, MetaRead DEF Past
<1>4. CASE ~ReadScores("stream") /\ \A c \in Contestants : ~ReadMeta("stream", c)
  <2>1. \A c \in Contestants : /\ score[c] <= score'[c] /\ meta[c] <= meta'[c]
                               /\ score'[c] \in Nat /\ meta'[c] \in Nat
    BY <1>4, ReadApart, StreamInvStep DEF StreamInv, ShapeInv
  <2>2. \A c \in Contestants : p[c].score <= score'[c] /\ p[c].meta <= meta'[c]
    BY <1>1, <2>1
  <2>3. Cardinality(top) <= Cardinality(top') /\ Cardinality(top') \in Nat
    BY <1>4, Lists, ReadApart, StreamInvStep DEF StreamInv, ShapeInv, Ranked
  <2>4. Count(p) <= Cardinality(top')
    BY <1>1a, <2>3
  <2> QED
    BY <1>4, <2>2, <2>4, ReadApart DEF Past
<1> QED
  BY <1>2, <1>3, <1>4

(* ... and the read itself has nothing that Redis lacks.                   *)
LEMMA ReadInvStep ==
    ASSUME StreamInv, ReadInv, [Next]_vars
    PROVE  ReadInv'
<1>1. \A c \in Contestants : /\ score[c] \in Nat /\ meta[c] \in Nat /\ 0 <= meta[c]
                             /\ StreamRows[c].score \in Nat /\ StreamRows[c].meta \in Nat
  BY DEF StreamInv, ShapeInv, StreamRows, Readers
<1>1a. Cardinality(top) \in Nat /\ Count(StreamRows) \in Nat
  BY Lists DEF Count, Listed, StreamInv, ShapeInv, Ranked
<1>2. CASE ReadScores("stream")
  <2>1. Count(StreamRows') = Cardinality(top)
    BY <1>2, ScoresRead DEF Count
  <2> QED
    BY <1>1, <1>1a, <1>2, <2>1, ScoresRead DEF ReadInv
<1>3. ASSUME NEW c \in Contestants, ReadMeta("stream", c) PROVE ReadInv'
  <2>1. Count(StreamRows') = Count(StreamRows)
    BY <1>3, MetaRead DEF Count
  <2> QED
    BY <1>1, <1>3, <2>1, MetaRead DEF ReadInv
<1>4. CASE ~ReadScores("stream") /\ \A c \in Contestants : ~ReadMeta("stream", c)
  <2>1. \A c \in Contestants : /\ score[c] <= score'[c] /\ meta[c] <= meta'[c]
                               /\ score'[c] \in Nat /\ meta'[c] \in Nat
    BY <1>4, ReadApart, StreamInvStep DEF StreamInv, ShapeInv
  <2>2. Cardinality(top) <= Cardinality(top') /\ Cardinality(top') \in Nat
    BY <1>4, Lists, ReadApart, StreamInvStep DEF StreamInv, ShapeInv, Ranked
  <2> QED
    BY <1>1, <1>1a, <1>4, <2>1, <2>2, ReadApart DEF ReadInv
<1> QED
  BY <1>2, <1>3, <1>4

(* The rows sent: in the order they were read.                             *)
LEMMA YieldKeeps ==
    ASSUME PageInv, Yield
    PROVE  LinkInv' /\ EventInv'
<1> DEFINE r == StreamRows
           more == Append(link, r)
<1>1. /\ link' = more /\ UNCHANGED <<page, shown>>
      /\ at["stream"] = "read" /\ at'["stream"] = "listen"
      /\ UNCHANGED <<score, top, meta>> /\ todo["stream"] = {}
  BY DEF Yield, redis, StreamRows, PageInv, StreamInv, ShapeInv, AnswerInv, Readers
<1>2. /\ r \in Rows /\ Count(r) <= Cardinality(top)
      /\ \A c \in Contestants : r[c].score <= score[c] /\ r[c].meta <= meta[c]
  BY <1>1 DEF PageInv, StreamInv, ShapeInv, ReadInv, StreamRows, Readers, Rows
<1>3. ASSUME NEW p \in Rows, Past(p) PROVE NoNewer(p, r)
  BY <1>1, <1>3 DEF Past, NoNewer
<1> HIDE DEF r
<1>4. /\ more \in Seq(Rows) /\ Len(more) = Len(link) + 1 /\ more[Len(link) + 1] = r
      /\ \A i \in 1 .. Len(link) : more[i] = link[i] /\ link[i] \in Rows
      /\ Len(link) \in Nat
  BY <1>2, AppendProperties, LenProperties, ElementOfSeq DEF PageInv, LinkInv
<1> HIDE DEF more
<1>5. \A i \in 1 .. Len(link) : NoNewer(link[i], r)
  BY <1>3, <1>4 DEF PageInv, LinkInv
<1>6. \A i \in 1 .. Len(more) : i \in 1 .. Len(link) \/ i = Len(link) + 1
  BY <1>4
<1>7. \A i \in 1 .. Len(more) :
         /\ \A c \in Contestants : more[i][c].score <= score[c] /\ more[i][c].meta <= meta[c]
         /\ Count(more[i]) <= Cardinality(top)
  <2>1. \A i \in 1 .. Len(link) :
           /\ \A c \in Contestants : link[i][c].score <= score[c] /\ link[i][c].meta <= meta[c]
           /\ Count(link[i]) <= Cardinality(top)
    BY DEF PageInv, LinkInv, Past
  <2> QED
    BY <1>2, <1>4, <1>6, <2>1
<1>8. LinkInv'
  <2>1. \A i \in 1 .. Len(link') : Past(link[i])'
    BY <1>1, <1>7 DEF Past
  <2>2. ASSUME NEW i \in 1 .. Len(more), NEW j \in 1 .. Len(more), i < j
        PROVE  NoNewer(more[i], more[j])
    <3>1. i \in 1 .. Len(link) /\ more[i] = link[i]
      BY <1>4, <1>6, <2>2
    <3>2. CASE j = Len(link) + 1
      BY <1>4, <1>5, <3>1, <3>2
    <3>3. CASE j \in 1 .. Len(link)
      BY <1>4, <2>2, <3>1, <3>3 DEF PageInv, LinkInv
    <3> QED
      BY <1>6, <3>2, <3>3
  <2>3. \A i, j \in 1 .. Len(link') : i < j => NoNewer(link'[i], link'[j])
    BY <1>1, <2>2
  <2> QED
    BY <1>1, <1>4, <2>1, <2>3 DEF LinkInv, NoNewer
<1>9. ASSUME shown = "event" PROVE Past(page)' /\ \A i \in 1 .. Len(link') : NoNewer(page, link'[i])
  <2>1. NoNewer(page, r) /\ \A i \in 1 .. Len(link) : NoNewer(page, link[i])
    BY <1>3, <1>9 DEF PageInv, EventInv
  <2>2. Past(page)'
    BY <1>1, <1>9 DEF PageInv, EventInv, Past
  <2> QED
    BY <1>1, <1>4, <1>6, <2>1, <2>2
<1> QED
  BY <1>1, <1>8, <1>9 DEF PageInv, EventInv, NoNewer

(* The page takes the first of the rows sent.                              *)
LEMMA OnRowsKeeps ==
    ASSUME PageInv, OnRows
    PROVE  /\ LinkInv' /\ EventInv'
           /\ shown = "event" => NoNewer(page, page')
<1>1. /\ link # << >> /\ page' = Head(link) /\ link' = Tail(link)
      /\ UNCHANGED <<score, top, meta, at, rows, todo>>
  BY DEF OnRows, redis, readers
<1>2. /\ Tail(link) \in Seq(Rows) /\ Head(link) = link[1] /\ link[1] \in Rows
      /\ Len(Tail(link)) = Len(link) - 1 /\ Len(link) \in Nat \ {0}
      /\ \A i \in 1 .. Len(Tail(link)) : Tail(link)[i] = link[i + 1]
  BY <1>1, HeadTailProperties, LenProperties, EmptySeq, ElementOfSeq DEF PageInv, LinkInv
<1>3. ASSUME NEW p, Past(p) PROVE /\ \A c \in Contestants :
                                        p[c].score <= score'[c] /\ p[c].meta <= meta'[c]
                                  /\ Count(p) <= Cardinality(top')
                                  /\ at'["stream"] \in {"metas", "read"} =>
                                        /\ \A c \in Listed(StreamRows') :
                                            /\ p[c].score <= StreamRows'[c].score
                                            /\ c \notin todo'["stream"] =>
                                                  p[c].meta <= StreamRows'[c].meta
                                        /\ Count(p) <= Count(StreamRows')
  BY <1>1, <1>3 DEF Past, StreamRows
<1>4. LinkInv'
  <2>1. \A i \in 1 .. Len(link') : Past(link[i + 1]) /\ link'[i] = link[i + 1]
    BY <1>1, <1>2 DEF PageInv, LinkInv
  <2>2. \A i \in 1 .. Len(link') : Past(link[i])'
    BY <1>3, <2>1 DEF Past
  <2>3. \A i, j \in 1 .. Len(link') : i < j => NoNewer(link'[i], link'[j])
    BY <1>1, <1>2, <2>1 DEF PageInv, LinkInv
  <2> QED
    BY <1>1, <1>2, <2>2, <2>3 DEF LinkInv, NoNewer
<1>5. EventInv'
  <2>1. Past(page)'
    <3>1. Past(link[1])
      BY <1>2 DEF PageInv, LinkInv
    <3> QED
      BY <1>1, <1>2, <1>3, <3>1 DEF Past
  <2>2. \A i \in 1 .. Len(link') : NoNewer(page', link'[i])
    BY <1>1, <1>2 DEF PageInv, LinkInv
  <2> QED
    BY <1>1, <1>2, <2>1, <2>2 DEF EventInv, NoNewer, OnRows
<1>6. shown = "event" => NoNewer(page, page')
  BY <1>1, <1>2 DEF PageInv, EventInv
<1> QED
  BY <1>4, <1>5, <1>6

(* Every step keeps the order of the rows; the page takes older rows from  *)
(* the answer only, or in its place.                                       *)
LEMMA PageInvStep ==
    ASSUME PageInv, [Next]_vars
    PROVE  /\ PageInv'
           /\ shown = "event" /\ shown' = "event" => NoNewer(page, page')
<1>1. StreamInv' /\ ReadInv'
  BY StreamInvStep, ReadInvStep DEF PageInv
<1>2. page \in Rows /\ NoNewer(page, page)
  <2>1. Count(page) \in Nat
    BY Lists DEF Count, Listed
  <2> QED
    BY <2>1 DEF PageInv, EventInv, Rows, NoNewer, Listed
<1>3. CASE Yield
  <2>1. page' = page
    BY <1>3 DEF Yield
  <2> QED
    BY <1>1, <1>2, <1>3, <2>1, YieldKeeps DEF PageInv
<1>4. CASE OnRows
  BY <1>1, <1>4, OnRowsKeeps DEF PageInv
<1> DEFINE Stays(p) ==
      /\ \A c \in Contestants : p[c].score <= score'[c] /\ p[c].meta <= meta'[c]
      /\ Count(p) <= Cardinality(top')
      /\ at'["stream"] \in {"metas", "read"} =>
            /\ \A c \in Listed(StreamRows') :
                   /\ p[c].score <= StreamRows'[c].score
                   /\ c \notin todo'["stream"] => p[c].meta <= StreamRows'[c].meta
            /\ Count(p) <= Count(StreamRows')
<1>5. ASSUME NEW p \in Rows, Past(p) PROVE Stays(p)
  BY <1>5, PastStays DEF PageInv, Past
<1>6. /\ \A i \in 1 .. Len(link) : Stays(link[i])
      /\ shown = "event" => Stays(page)
  <2> HIDE DEF Stays
  <2>1. \A i \in 1 .. Len(link) : link[i] \in Rows /\ Past(link[i])
    BY ElementOfSeq DEF PageInv, LinkInv
  <2>2. shown = "event" => Past(page)
    BY DEF PageInv, EventInv
  <2> QED
    BY <1>2, <1>5, <2>1, <2>2
<1>7. UNCHANGED link => LinkInv'
  <2> SUFFICES ASSUME UNCHANGED link PROVE LinkInv'
    OBVIOUS
  <2>1. \A i \in 1 .. Len(link') : Past(link[i])'
    BY <1>6 DEF Past
  <2>2. \A i, j \in 1 .. Len(link) : i < j => NoNewer(link[i], link[j])
    BY DEF PageInv, LinkInv
  <2> QED
    BY <2>1, <2>2 DEF PageInv, LinkInv, NoNewer
<1>8. CASE UNCHANGED <<link, page, shown>>
  <2>1. shown = "event" => Past(page)'
    BY <1>6, <1>8 DEF Past
  <2>2. EventInv'
    BY <1>8, <2>1 DEF PageInv, EventInv, NoNewer
  <2> QED
    BY <1>1, <1>2, <1>7, <1>8, <2>2 DEF PageInv
<1>9. CASE StreamBreaks
  <2>1. link' = << >> /\ UNCHANGED <<page, shown>>
    BY <1>9 DEF StreamBreaks
  <2>2. << >> \in Seq(Rows) /\ Len(<< >>) = 0
    BY EmptySeq
  <2>3. LinkInv'
    BY <2>1, <2>2 DEF LinkInv
  <2>4. shown = "event" => Past(page)'
    BY <1>6, <2>1 DEF Past
  <2>5. page' \in Rows /\ shown' \in {"answer", "event"}
    BY <2>1 DEF PageInv, EventInv
  <2>6. EventInv'
    BY <2>1, <2>2, <2>4, <2>5 DEF EventInv
  <2> QED
    BY <1>1, <1>2, <2>1, <2>3, <2>6 DEF PageInv
<1>10. CASE OnAnswer
  <2>1. UNCHANGED link /\ page' = rows["fetch"] /\ shown' = "answer"
    BY <1>10 DEF OnAnswer
  <2>2. page' \in Rows
    BY <2>1 DEF PageInv, StreamInv, ShapeInv, Readers, Rows
  <2> QED
    BY <1>1, <1>7, <2>1, <2>2 DEF PageInv, EventInv
<1>11. CASE UNCHANGED vars
  BY <1>8, <1>11 DEF vars
<1>12. CASE Next /\ ~(Yield \/ OnRows \/ StreamBreaks \/ OnAnswer)
  <2>1. UNCHANGED <<link, page, shown>>
    BY <1>12 DEF Next, Stream, Write, Zadd, Hset, Publish, Break, Read, ReadScores, ReadMeta,
                 Subscribe, SubscriptionStarts, Update, Tick, Reconnect, OnError
  <2> QED
    BY <1>8, <2>1
<1> QED
  BY <1>3, <1>4, <1>9, <1>10, <1>11, <1>12

LEMMA PageInvInit == Init => PageInv
<1> SUFFICES ASSUME Init PROVE PageInv
  OBVIOUS
<1>1. << >> \in Seq(Rows) /\ Len(<< >>) = 0
  BY EmptySeq
<1>2. /\ score = [c \in Contestants |-> 0] /\ meta = [c \in Contestants |-> 0]
      /\ link = << >> /\ shown = "event" /\ page = NoRows /\ at["stream"] = "subscribe"
  BY DEF Init
<1>3. NoRows \in Rows /\ \A c \in Contestants : NoRows[c].score = 0 /\ NoRows[c].meta = 0
  BY DEF NoRows, NoRow, Rows
<1>3a. top = {} /\ Cardinality(top) = 0 /\ Count(NoRows) = 0
  <2>1. top = {} /\ Listed(NoRows) = {}
    BY <1>3 DEF Init, Listed
  <2> QED
    BY <2>1, FS_EmptySet DEF Count
<1>4. LinkInv /\ ReadInv
  BY <1>1, <1>2 DEF LinkInv, ReadInv
<1>5. EventInv
  BY <1>1, <1>2, <1>3, <1>3a DEF EventInv, Past
<1> QED
  BY <1>4, <1>5, StreamInvInit DEF PageInv

(* A row that stays gets older, or the page shorter, only through the      *)
(* answer to its one request: the stream sends rows in the order it read them, read_leaderboard *)
(* reads what publish_metrics never takes back, and a stream that is opened *)
(* again reads after everything the page already shows.                    *)
THEOREM StreamTakesNothingBack == Spec => OnlyTheAnswerGoesBack
<1>1. PageInv /\ [Next]_vars => PageInv'
  BY PageInvStep
<1>2. ASSUME PageInv, [Next]_vars
      PROVE  [OlderThan(page', page) => "answer" \in {shown, shown'}]_vars
  <2> SUFFICES ASSUME OlderThan(page', page), shown # "answer", shown' # "answer"
               PROVE  FALSE
    OBVIOUS
  <2>1. page \in Rows /\ page' \in Rows
    BY <1>2, PageInvStep DEF PageInv, EventInv
  <2>2. shown = "event" /\ shown' = "event"
    BY <1>2, PageInvStep DEF PageInv, EventInv
  <2>3. NoNewer(page, page')
    BY <1>2, <2>2, PageInvStep
  <2>4. Count(page) \in Nat /\ Count(page') \in Nat
    BY Lists DEF Count, Listed
  <2>5. CASE \E c \in Listed(page') : page'[c].score < page[c].score \/ page'[c].meta < page[c].meta
    BY <2>1, <2>3, <2>5 DEF NoNewer, Rows, Listed
  <2>6. CASE Count(page') < Count(page)
    BY <2>3, <2>4, <2>6 DEF NoNewer
  <2> QED
    BY <2>5, <2>6 DEF OlderThan, Count
<1> QED
  BY <1>1, <1>2, PageInvInit, PTL DEF Spec, OnlyTheAnswerGoesBack
=============================================================================
