----------------------------- MODULE NntpClient -----------------------------
(***************************************************************************)
(* One place of a connection pool and the server at its other end:         *)
(* nntp.Client (internal/nntp/client.go), from Dial to Close and again,    *)
(* with the steps of Pool.Get and Pool.Put that decide what happens to it, *)
(* and processSegment (internal/engine/engine.go), which decodes and       *)
(* counts what Body returns.                                               *)
(*                                                                         *)
(* The server is external.  It answers one command after the other, sooner *)
(* or later or never, with any status that fits or with a line the client  *)
(* cannot read, and the connection may end at any point of an answer.      *)
(***************************************************************************)
EXTENDS YEnc

CONSTANTS
    Ids,       \* message-IDs
    Articles,  \* what an article may be, as lines; <<>>: not on the server
    None       \* no message-ID

ASSUME ArticlesAreLines == Articles \subseteq Seq(Text)
ASSUME NoneIsNoId == None \notin Ids

VARIABLES
    login,       \* a username is configured
    restricted,  \* the server wants it
    article,     \* the articles of the server
    pc,          \* where the client is; "gone": no connection
    id,          \* the article Body was called for
    sent,        \* commands the server has not answered
    wire,        \* lines the client has not read
    link,        \* "up", "ended" (end of file), "reset" (an error), "closed"
    authed,      \* the server has accepted the login
    got,         \* readMultiLine: buf
    segment,     \* what has become of each segment
    data,        \* the data written for it
    cut          \* history variable: its connection ended inside the article

serverVars == <<login, restricted, article>>
linkVars == <<sent, wire, link, authed>>
segVars == <<segment, data, cut>>
vars == <<serverVars, pc, id, linkVars, got, segVars>>

\* "idle": in the pool's channel.  "ready": with a worker.  The others read the
\* answer to a command.
PC == {"gone", "greeting", "user", "pass", "ready", "body", "article", "idle",
       "alive", "quit"}
Commands == {"connect", "user", "pass", "date", "quit"} \cup Ids
\* What a line may begin with, which is all the client looks at.
Codes == {"200", "201", "502", "281", "381", "481", "111", "500", "205",
          "480", "430", "423", "222", "403", "?", ".", "..", "..x"} \cup Text
Wire == [re : Commands, at : Nat, text : Codes]

TypeOK ==
    /\ login \in BOOLEAN /\ restricted \in BOOLEAN
    /\ article \in [Ids -> Articles]
    /\ pc \in PC
    /\ IF pc \in {"body", "article"} THEN id \in Ids ELSE id = None
    /\ sent \in Seq(Commands) /\ Len(sent) <= 2
    /\ wire \in Seq(Wire)
    /\ link \in {"up", "ended", "reset", "closed"}
    /\ pc = "gone" <=> link = "closed"
    /\ authed \in BOOLEAN
    /\ got \in Seq(Ids \X Nat)
    /\ segment \in [Ids -> {"none", "missing", "failed", "done", "mismatch"}]
    /\ data \in [Ids -> Seq(Text)]
    /\ cut \in [Ids -> BOOLEAN]

Init ==
    /\ login \in BOOLEAN /\ restricted \in BOOLEAN
    /\ article \in [Ids -> Articles]
    /\ pc = "gone"
    /\ id = None
    /\ sent = <<>>
    /\ wire = <<>>
    /\ link = "closed"
    /\ authed = FALSE
    /\ got = <<>>
    /\ segment = [i \in Ids |-> "none"]
    /\ data = [i \in Ids |-> <<>>]
    /\ cut = [i \in Ids |-> FALSE]

-----------------------------------------------------------------------------
(* The server and the network.                                             *)

\* A line that begins with a dot goes out with one more.
Stuffed(text) == CASE text = "." -> ".." [] text = ".x" -> "..x" [] OTHER -> text
Unstuffed(text) == CASE text = ".." -> "." [] text = "..x" -> ".x" [] OTHER -> text

Statuses(cmd) ==
    {"?"} \cup
    CASE cmd = "connect" -> {"200", "201", "502"}
      [] cmd = "user"    -> {"281", "381", "481"}
      [] cmd = "pass"    -> {"281", "481"}
      [] cmd = "date"    -> {"111", "500"}
      [] cmd = "quit"    -> {"205"}
      [] OTHER -> IF restricted /\ ~authed THEN {"480"}
                  ELSE IF article[cmd] = <<>> THEN {"430", "423"}
                  ELSE {"222", "403"}

Answer(cmd, status) ==
    <<[re |-> cmd, at |-> 0, text |-> status]>> \o
    (IF status # "222" THEN <<>>
     ELSE [i \in 1..Len(article[cmd]) + 1 |->
             [re |-> cmd, at |-> i,
              text |-> IF i <= Len(article[cmd]) THEN Stuffed(article[cmd][i])
                       ELSE "."]])

ServerAnswers ==
    /\ link = "up"
    /\ sent # <<>>
    /\ sent' = Tail(sent)
    /\ \E status \in Statuses(Head(sent)) :
          /\ wire' = wire \o Answer(Head(sent), status)
          /\ authed' = (authed \/ status = "281")
          /\ link' = IF status \in {"205", "502"} THEN "ended" ELSE link
    /\ UNCHANGED <<serverVars, pc, id, got, segVars>>

\* What was on its way is lost, from some line on and in the other direction.
LinkEnds ==
    /\ link = "up"
    /\ link' \in {"ended", "reset"}
    /\ sent' = <<>>
    /\ \E n \in 0..Len(wire) : wire' = SubSeq(wire, 1, n)
    /\ UNCHANGED <<serverVars, pc, id, authed, got, segVars>>

-----------------------------------------------------------------------------
(* Reading and writing.                                                    *)

\* sendCommand, as far as writing goes: to a connection that has ended nothing
\* is sent, and the error comes now or with the read that follows.
Send(cmd) == sent' = IF link = "up" THEN Append(sent, cmd) ELSE sent

\* readResponse: a line; or there is none and will be none.
Reads(code) == wire # <<>> /\ code = Head(wire).text /\ wire' = Tail(wire)
NoMore == wire = <<>> /\ link \in {"ended", "reset"}
ReadFails == NoMore /\ UNCHANGED wire

Close ==
    /\ pc' = "gone"
    /\ link' = "closed"
    /\ wire' = <<>>
    /\ sent' = <<>>
    /\ authed' = FALSE

-----------------------------------------------------------------------------
(* Dial and authenticate.                                                  *)

\* The TCP (and TLS) connection is made.
Dial ==
    /\ pc = "gone"
    /\ pc' = "greeting"
    /\ link' = "up"
    /\ sent' = <<"connect">>
    /\ UNCHANGED <<serverVars, id, wire, authed, got, segVars>>

Greeted ==
    /\ pc = "greeting"
    /\ \E code \in {"200", "201"} : Reads(code)
    /\ IF login THEN pc' = "user" /\ Send("user")
                ELSE pc' = "ready" /\ UNCHANGED sent
    /\ UNCHANGED <<serverVars, id, link, authed, got, segVars>>

PassWanted ==
    /\ pc = "user"
    /\ Reads("381")
    /\ pc' = "pass"
    /\ Send("pass")
    /\ UNCHANGED <<serverVars, id, link, authed, got, segVars>>

\* The username may be enough.
LoggedIn ==
    /\ pc \in {"user", "pass"}
    /\ Reads("281")
    /\ pc' = "ready"
    /\ UNCHANGED <<serverVars, id, sent, link, authed, got, segVars>>

\* Any other answer, a line that cannot be read, or none: the connection is
\* closed without QUIT.
DialFails ==
    /\ \/ pc = "greeting" /\ wire # <<>> /\ Head(wire).text \notin {"200", "201"}
       \/ pc = "user" /\ wire # <<>> /\ Head(wire).text \notin {"281", "381"}
       \/ pc = "pass" /\ wire # <<>> /\ Head(wire).text # "281"
       \/ pc \in {"greeting", "user", "pass"} /\ NoMore
    /\ Close
    /\ UNCHANGED <<serverVars, id, got, segVars>>

-----------------------------------------------------------------------------
(* Body.                                                                   *)

\* A worker fetches a segment, for the first time or once more.
Body(i) ==
    /\ pc = "ready"
    /\ pc' = "body"
    /\ id' = i
    /\ Send(i)
    /\ segment' = [segment EXCEPT ![i] = "none"]
    /\ data' = [data EXCEPT ![i] = <<>>]
    /\ cut' = [cut EXCEPT ![i] = FALSE]
    /\ UNCHANGED <<serverVars, wire, link, authed, got>>

BodyFollows ==
    /\ pc = "body"
    /\ Reads("222")
    /\ pc' = "article"
    /\ UNCHANGED <<serverVars, id, sent, link, authed, got, segVars>>

\* The connection goes back to the pool, whatever Body returned.
Put == pc' = "idle" /\ id' = None /\ got' = <<>>

NotFound ==
    /\ pc = "body"
    /\ Reads("430")
    /\ segment' = [segment EXCEPT ![id] = "missing"]
    /\ Put
    /\ UNCHANGED <<serverVars, sent, link, authed, data, cut>>

\* Mutant of BodyFails: Body has a deadline.
BodyFails_Deadline ==
    /\ pc = "body"
    /\ \/ \E code \in Codes \ {"222", "430"} : Reads(code)
       \/ wire = <<>> /\ UNCHANGED wire
    /\ Put
    /\ UNCHANGED <<serverVars, sent, link, authed, segVars>>

\* Any other answer, 423 too, is an error after which fetchSegment tries again.
BodyFails ==
    /\ pc = "body"
    /\ \/ \E code \in Codes \ {"222", "430"} : Reads(code)
       \/ ReadFails
    /\ Put
    /\ UNCHANGED <<serverVars, sent, link, authed, segVars>>

Lines(seq) == [k \in DOMAIN seq |-> article[seq[k][1]][seq[k][2]]]

\* What the poster posted, which is what the CRC in the footer is of.
Posted(i) == [k \in DOMAIN Data(article[i]) |->
                 IF Data(article[i])[k] = "!" THEN "x" ELSE Data(article[i])[k]]

\* Mutant of Process: the CRC is checked only if data was lost or added.
Process_Length ==
    LET result == DecodeYEnc(Lines(got), Posted(id))
        sameLength == Len(Data(Lines(got))) = Len(Posted(id))
    IN  IF result = "none"
        THEN segment' = [segment EXCEPT ![id] = "failed"] /\ UNCHANGED data
        ELSE /\ segment' = [segment EXCEPT
                    ![id] = IF result = "mismatch" /\ ~sameLength
                            THEN "mismatch" ELSE "done"]
             /\ data' = [data EXCEPT ![id] = Data(Lines(got))]

\* processSegment: without a result the segment counts as failed; with one the
\* data is written and the segment counts as done, though the CRC is wrong, of
\* which a metric is told.
Process ==
    LET result == DecodeYEnc(Lines(got), Posted(id))
    IN  IF result = "none"
        THEN segment' = [segment EXCEPT ![id] = "failed"] /\ UNCHANGED data
        ELSE /\ segment' = [segment EXCEPT
                    ![id] = IF result = "mismatch" THEN "mismatch" ELSE "done"]
             /\ data' = [data EXCEPT ![id] = Data(Lines(got))]

\* Mutant of ReadLine: the dot is removed before the end is looked for.
ReadLine_UnstuffFirst ==
    /\ pc = "article"
    /\ wire # <<>>
    /\ wire' = Tail(wire)
    /\ IF Unstuffed(Head(wire).text) = "."
       THEN Process /\ Put
       ELSE /\ got' = Append(got, <<Head(wire).re, Head(wire).at>>)
            /\ UNCHANGED <<pc, id, segment, data>>
    /\ UNCHANGED <<serverVars, sent, link, authed, cut>>

\* readMultiLine: a dot ends the article; from another line that begins with one
\* it is removed.
ReadLine ==
    /\ pc = "article"
    /\ wire # <<>>
    /\ wire' = Tail(wire)
    /\ IF Head(wire).text = "."
       THEN Process /\ Put
       ELSE /\ got' = Append(got, <<Head(wire).re, Head(wire).at>>)
            /\ UNCHANGED <<pc, id, segment, data>>
    /\ UNCHANGED <<serverVars, sent, link, authed, cut>>

\* Mutant of ArticleEnds: readMultiLine tries to read on.
ArticleEnds_ReadOn ==
    /\ pc = "article"
    /\ NoMore
    /\ UNCHANGED vars

\* The connection ends: an end of file counts as the end of the article, a line
\* that has only begun is dropped.  Anything else is an error.
ArticleEnds ==
    /\ pc = "article"
    /\ NoMore
    /\ IF link = "ended"
       THEN Process /\ cut' = [cut EXCEPT ![id] = TRUE]
       ELSE UNCHANGED segVars
    /\ Put
    /\ UNCHANGED <<serverVars, linkVars>>

-----------------------------------------------------------------------------
(* The pool.                                                               *)

\* Get: a connection from the channel is asked whether it is alive ...
Ask ==
    /\ pc = "idle"
    /\ pc' = "alive"
    /\ Send("date")
    /\ UNCHANGED <<serverVars, id, wire, link, authed, got, segVars>>

\* ... but not one for which a worker has waited.
HandOver ==
    /\ pc = "idle"
    /\ pc' = "ready"
    /\ UNCHANGED <<serverVars, id, linkVars, got, segVars>>

IsAlive ==
    /\ pc = "alive"
    /\ Reads("111")
    /\ pc' = "ready"
    /\ UNCHANGED <<serverVars, id, sent, link, authed, got, segVars>>

Quit == pc' = "quit" /\ Send("quit")

IsNotAlive ==
    /\ pc = "alive"
    /\ \/ \E code \in Codes \ {"111"} : Reads(code)
       \/ ReadFails
    /\ Quit
    /\ UNCHANGED <<serverVars, id, link, authed, got, segVars>>

\* Mutant of AliveTimesOut: the connection is kept.
AliveTimesOut_Kept ==
    /\ pc = "alive"
    /\ wire = <<>>
    /\ pc' = "ready"
    /\ UNCHANGED <<serverVars, id, linkVars, got, segVars>>

\* The deadline of 5 seconds passes.  The answer may still come, after the
\* deadline has been lifted again.
AliveTimesOut ==
    /\ pc = "alive"
    /\ wire = <<>>
    /\ Quit
    /\ UNCHANGED <<serverVars, id, wire, link, authed, got, segVars>>

\* Close of an idle connection: the pool is full, or is closed.
CloseIdle ==
    /\ pc = "idle"
    /\ Quit
    /\ UNCHANGED <<serverVars, id, wire, link, authed, got, segVars>>

\* Close ends with the first line that comes, if one comes.
Closed ==
    /\ pc = "quit"
    /\ wire # <<>> \/ NoMore
    /\ Close
    /\ UNCHANGED <<serverVars, id, got, segVars>>

\* The steps of a client that is waiting for nobody but the server.
Client ==
    \/ Greeted \/ PassWanted \/ LoggedIn \/ DialFails
    \/ BodyFollows \/ NotFound \/ BodyFails \/ ReadLine \/ ArticleEnds
    \/ IsAlive \/ IsNotAlive \/ AliveTimesOut \/ Closed

Next ==
    \/ ServerAnswers \/ LinkEnds
    \/ Client
    \/ Dial \/ Ask \/ HandOver \/ CloseIdle
    \/ \E i \in Ids : Body(i)

Spec == Init /\ [][Next]_vars

\* Goroutines are scheduled and the deadline of Alive passes.  Of the server
\* nothing is assumed.
FairSpec == Spec /\ WF_vars(Client)

-----------------------------------------------------------------------------
(* Properties.                                                             *)

\* What the client reads is the answer to the command it has sent last, and a
\* connection that is free has nothing unread and nothing unanswered: no
\* error, deadline or short article leaves a rest that the next command, of
\* another worker, takes for its own answer.
Command ==
    CASE pc = "greeting" -> "connect"
      [] pc = "user" -> "user"
      [] pc = "pass" -> "pass"
      [] pc = "alive" -> "date"
      [] pc \in {"body", "article"} -> id
      [] OTHER -> None

InStep ==
    pc # "quit" =>
        /\ \A k \in DOMAIN wire : wire[k].re = Command
        /\ sent # <<>> => sent = <<Command>> /\ wire = <<>>

\* What Body has read is the beginning of the article it was called for.
OwnArticle ==
    /\ Len(got) <= Len(article[id])
    /\ \A k \in DOMAIN got : got[k] = <<id, k>>

BodyHasOwnArticle == pc \in {"body", "article"} => OwnArticle

\* A segment counts as done without an alarm, and its data is not what was
\* posted: its article has no CRC, or the connection ended inside the article.
\* Neither a damaged line nor one that begins with a dot goes unnoticed.
DoneIsWhole ==
    \A i \in Ids :
        segment[i] = "done" => data[i] = Posted(i) \/ cut[i] \/ ~HasCRC(article[i])

\* Alive alone has a deadline, and ends whatever the server does.  Body, Dial and
\* Close, also the Close in Get of a connection that is not alive, wait for an
\* answer without one: they end if the server answers every command or its
\* connection ends, at any point of an article, and so does Get, with the
\* connection or without.
ServerIsFair == WF_vars(ServerAnswers \/ (sent # <<>> /\ LinkEnds))

CallsEnd ==
    /\ pc = "alive" ~> pc # "alive"
    /\ ServerIsFair =>
          /\ pc = "body" ~> pc = "idle"
          /\ pc \in {"greeting", "alive"} ~> pc \in {"ready", "gone"}

=============================================================================
